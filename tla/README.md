# Verification of rexux: turns, agents, rollouts and remote control

rexux is a coding agent: a terminal program and a server around a session loop
that talks to a model, runs tools, spawns sub-agents and writes everything it
does to a rollout file; remote clients can drive it over a websocket. This directory holds TLA+ models of the parts of it in
which order matters: what concurrent tasks, failures and restarts can do to the
state that a session keeps. The models are checked with TLC on small instances
and, for the properties listed under "Proofs", proved with TLAPS for every
instance.

Paths below are relative to `src/`.

## Contents

| module | models | proofs |
|---|---|---|
| `SessionTurns` | the turn lifecycle of one session | `SessionTurnsProofs` |
| `AgentResidency` | loading, evicting and messaging v2 sub-agents | `AgentResidencyProofs` |
| `RolloutWriter` | the rollout file: writing, retrying, crashing, resuming, projecting | `RolloutWriterProofs` |
| `RolloutCompression` (`MCRolloutCompression` for TLC) | the plain and the compressed form of a rollout, and everybody who opens it | `RolloutCompressionProofs` |
| `AgentRegistry` (`MCAgentRegistry` for TLC) | slots, paths and ids of agents under concurrent calls | `AgentRegistryProofs` |
| `ReliableStream` | abstract: what the remote-control transport promises for a stream | |
| `RemoteOutbound` | server to client across reconnects; implements `ReliableStream` | `RemoteOutboundProofs` |
| `RemoteInbound` | client to server across reconnects: replay, reassembly, connections | `RemoteInboundProofs` |

Each `.cfg` file is one question asked of one module; `PROJECT.json` lists them
with the source lines behind every definition, the mutations that show that each
property can fail, the findings and the hazards.

To check a run: `tlc -config client_turns.cfg SessionTurns`. To check the proofs:
`tlapm SessionTurnsProofs.tla`.

## Inventory

### The session (`core/src/session`, `core/src/tasks`, `core/src/state`)

State: the slot `active_turn` (an `Option<ActiveTurn>` with at most one task and a
shared `TurnState`), the pending input of that `TurnState`, the mailbox of
inter-agent mail, the cancellation token and abort handle of the task, the
history. Operations: the submission loop handles user input, steering, mail,
interrupts, compaction and shutdown one after the other; turns run as tokio tasks
of their own; the guardian and the realtime conversation have tasks as well; and
extensions inject items or start turns in an idle session.

Hard: every one of these starts, feeds, ends or aborts turns through the same slot,
and between two awaits anybody else may have emptied or filled it. A turn ends in
several steps (take the task out, report, clear the slot, look at the mailbox),
each of which can be met by an interrupt, an injection or a new submission.

Correct when: one turn at a time, each reported once; what was submitted is
recorded once, refused, or still waiting where somebody looks; an aborted turn has
stopped; mail that asks for a turn gets one.

### Sub-agents (`core/src/agent`, `core/src/thread_manager.rs`)

State: the thread map of the manager (id to running session), the registry of
known agents, the list of resident v2 agents in least-recently-used order, the
number of reserved places, the set of evicted environments. Operations: spawn an
agent, message one (which loads it from its rollout if it was unloaded), evict the
least recently used idle one to make room, clean up after one that died.

Hard: tool calls of several agents run concurrently; each looks at the residency,
awaits, and acts on what it saw. Reserving a place may shut down a session and wait
for it, while others message it, reload it or count it.

Correct when: reserved places are exact, the limit holds, a session that runs can be
reached through its id, an accepted message is not lost, and no call waits for ever.

Below the residency is the registry, shared by all agents of a session: `agent_tree`
(path to metadata), `thread_paths` (id to path) and an atomic `total_count`. A spawn or
resume holds a `SpawnReservation` from the count to the registration and gives back
count and path when it is dropped. Hard: count and maps are not under one lock, and
calls end half-way. Correct when: the maps are inverse, a reserved path has one owner,
the count covers what it counts, and `agents.max_threads` holds.

### Rollouts (`rollout`, `thread-store/src/local`)

State: the JSONL file; in the writer task the open handle, the buffer of pending
items, the session metadata not yet written and the next ordinal; the channel in
front of it; the SQLite projection behind it. Operations: append, persist, flush,
shutdown; reopen and retry after an error; resume after an unload or a crash;
rebuild the projection; compress cold files and bring them back.

Hard: a write can fail having written a part; the retry happens on a reopened file
with the rest of the first try in it; the process can end anywhere; the reader must
accept all that.

Correct when: acknowledged records are in the file and in order, a persisted thread
can be resumed, the projection can be rebuilt, every barrier is answered; a record
stays readable while the file changes its form, and a reader finds one of the forms.

### Remote control (`app-server-transport/src/transport/remote_control`)

State: outbound, a queue of server events shared by all clients, per stream the next
`seq_id` and the buffer of unacknowledged envelopes, and a watched count of all of
them; inbound, the `subscribe_cursor`, an assembly of segments per client, and the
client tracker, which has an app-server connection for every (client, stream).
Operations: number, split, buffer, send and replay; acknowledge; observe, reassemble,
forward, deduplicate; open and close connections; connect again after every loss.

Hard: everything survives the connection except what is in flight; the reader can be
aborted between any two awaits; forwarding to the app server can time out; back-pressure
waits for acknowledgements that arrive on the other half of the socket.

Correct when: each side sees the other's messages whole, once, in order and in the end
all of them; no connection stays open without an owner; a full buffer drains.

### The other components

`PROJECT.json` lists all of them; "Not modelled" below says why each is left out.

### How the parts meet

A session's history goes through `LiveThread` to the rollout writer; evicting an
agent shuts its session down, which shuts the writer down; reloading it resumes the
rollout file. Messages between agents go through the thread manager into the
mailbox of a session, where `SessionTurns` picks them up. The modules describe one
component each and keep the others as choices: for `AgentResidency` a session is
starting, busy, idle or stopped; for `SessionTurns` recording an item always
succeeds; for `RolloutWriter` a record is a number; for `RolloutCompression` a write
always arrives. `AgentResidency` and `AgentRegistry` are the two halves of a spawn: the
residency decides whether a V2 agent may be loaded, the registry names and counts it.
`RemoteInbound` and `RemoteOutbound` share a websocket and its losses; the one thing
that passes between them, an acknowledgement, is an action of `RemoteOutbound` and a
ping (an envelope that only moves the cursor) in `RemoteInbound`.

## SessionTurns

One action is the code between two points where another tokio task can see or
change the shared state. `active` is `Session::active_turn` (`st` is the identity
of the `TurnState`, since the code compares `Arc`s), `pending` and `phase` are the
fields of each `TurnState`, `mailbox` is the queue of mail. Each process has a `pc`
and what it carries across an await: the turn it is starting (`starting`), the task
it has taken out of the slot (`victim`), the `TurnState` it holds (`held`) and the
items it has drained (`hand`).

| code | actions |
|---|---|
| `start_or_steer`, `steer_input` | `SteerInput`, `DeclineInput`, `SpawnForInput` |
| `spawn_task` → `abort_all_tasks` → `start_task` | `TakeActive`, `AbortJoin`, `AbortReport`, `StartDrain`, `StartAttach`, `StartInstall` |
| `start_if_idle` | `StartIfIdle`, `AdmitDeclined`, `AdmitStarted` |
| `maybe_start_turn_for_pending_work` | `WakeCheck`, `WakeReserve`, `WakeDrain`, `WakeExtend` |
| `run_turn`, `RegularTask::run`, `CompactTask::run` | `TurnBegin`, `TurnFailsEarly`, `TurnDrain`, `TurnRecord`, `SampleFollowUp`, `SampleFinal`, `SampleError`, `PostCheck`, `CompactRuns`, `HookStopsTurn`, `ObserveCancel` |
| `on_task_finished` | `FinCheck`, `FinTake`, `FinReport`, `FinClear` |
| handlers | `SubmitMail`, `Interrupt`, `Compact`, `Shutdown` |
| others | `Inject`, `GuardianAbort` |

Abstractions. Queues are sets: the order of items within one drain is not modelled.
The model's stream is one of three outcomes (needs a follow-up, final, error); a
stop hook that continues the turn is a follow-up. `get_pending_input` takes its two
locks in one step, and `WakeCheck` reads the mailbox once. `result` is what a task
returned: `HookStopsTurn` is a task that returns `Err(TurnAborted)` although nobody
cancelled it (a compaction hook stopped it), which `on_task_finished` reports as
aborted before it clears the slot and looks for pending work. A task that outlives the
grace period is stopped in the step that aborts its handle (`AbortJoin`): the code does
not await the aborted handle, so the task may in fact run to its next await. The model
assumes that this stretch, which sees a cancelled token, neither records nor takes the
slot before the aborter has reported, several awaits later. The early return of
`handle_task_abort` cannot be taken and is not there. The realtime task is joined
before shutdown, as in the code. Reviews, user shell commands, suspension and
steering with an expected turn id are not modelled.

## AgentResidency

`manager` is the thread map, `known` the registry, `residents` and `pendingSlots`
the `V2ResidencyState`. A runtime is one session: `life` says whether it is starting
(`init`), has a turn or mail (`busy`), could be unloaded (`idle`) or has ended, `queue`
what was submitted to its loop and not taken up, `inbox` what it has taken up and not
recorded, and `closing` whether `Op::Shutdown` is queued. A caller is a tool call of
some agent, with its operation, its eviction candidate and how many candidates it still
scans.

| code | actions |
|---|---|
| `spawn_agent_internal` | `Spawn`, `CreateThread`, `CreateFails`, `Register`, `Commit` |
| `ensure_v2_agent_loaded` | `Message`, `EnsureLoaded`, `Touch`, `ResumeBegin`, `ResumeFinish`, `ResumeSettle`, `Commit` |
| `reserve_slot`, `try_unload_one_resident` | `TryReserve`, `CountResidents`, `PopCandidate`, `CheckCandidate`, `EvictSubmit`, `EvictWait`, `EvictRemove` |
| `send_op`, `handle_thread_request_result` | `Send`, `SendFails`, `SendFindsDead`, `BuryRemove`, `BuryForget`, `BuryRelease` |
| a call aborted with its turn (`tools/parallel.rs`), `Drop for V2ResidencySlot` | `Drop` |
| sessions | `Receive`, `Work`, `Stop`, `Crash` |

Three history variables name what the code cannot uphold, so that the properties can say
that nothing else goes wrong. No step depends on them.

* `exposed`: messages whose session crashed, or that were sent to, or still queued in,
  a session that an eviction had already found idle. `is_unloadable` looks at the turn
  and the mailbox, not at the queue of the loop.
* `strays`: agents that stay loaded outside the residents, because the call that held
  them (as a candidate, or stored and not yet committed) was dropped, or because a burial
  forgot the residency of an agent that had just been reloaded. Messaging one makes it a
  resident again. `escapes` counts how often this happened.

Abstractions. The three reads of `is_unloadable` are one, together with the `touch`
that follows a refusal. The error of `shutdown_and_wait` cannot occur (a dead
session counts as shut down). A refusal for lack of execution capacity is a choice
(`SendFails`). The session that `finalize_thread_spawn` throws away because the id
is taken is not a runtime. Saved environments are data. The reload on behalf of a
parent, which validates ownership, and `close_agent` are not modelled.

## RolloutWriter

`file` is a sequence of lines: a record, its ordinal, and whether its JSON and its
newline arrived. Records are numbered as they are queued, 0 is the session metadata;
the buffer `pending_items` is always `written + 1 .. taken` and the channel carries
the writer from `taken` to `added`. `due` and `lost` are history variables: what a
successful barrier covered, and what was in memory when the writer went away.

| code | actions |
|---|---|
| `durable_write`, `record_canonical_items`, `persist`, `flush`, `shutdown` | `AppendItems`, `FlushAppended`, `Barrier`, `Cancel` |
| `rollout_writer` | `Receive`, and `Answer` inside the others |
| `write_pending_with_recovery` | `OpenFile`, `OpenFails`, `WriteLine`, `WriteFails`, `WriteDone` |
| end of the process, `open_rollout_for_append` | `Crash`, `Resume` |
| `read_projection_steps`, `ordinal_state_for_rollout`, `read_history_metadata` | the operators `Readable`, `LastRead`, `Accepts`, `NextOrdinal`, `Resumable` |

`FailCuts` and `CrashCuts` say what a write that fails, or is cut off by the end of the
process, may leave: nothing, a torn line, or a line that lacks only its newline (`bare`). `Cancel` is the caller's future being dropped with
the thread's lock: what it queued stays queued. A write that reached the file
survives a crash of the process; loss of the operating system's buffers is not
modelled, the code does not call fsync. The last `flush` of `write_pending_once`
has nothing left to flush and cannot fail. Legacy rollouts are the same writer
without ordinals. Not modelled: the limit of 256 queued commands, the overflow of the
64-bit ordinal, `discard_thread`, and the metadata lines that `update_thread_metadata`
appends to legacy rollouts.

## RolloutCompression

One rollout. `plain` is the inode at the `.jsonl` path, `zst` the file at the
`.jsonl.zst` path, `files` the inodes with the records in them, so that a handle can
outlive the name of its file. An action is one call to the file system.

| code | actions |
|---|---|
| `materialize_rollout_for_append_blocking` | `LookPlain`, `LookCompressed`, `Decode`, `Link`, `SetTimes`, `DropCompressed` |
| `open_rollout_for_append`, `open_log_file` | `Resume`, `Reopen`, `Open`, `Touch` |
| `materialize_rollout_for_reference` (a fork) | `Fork`, then as above |
| `JsonlWriter::write_line` | `AppendLine` |
| `compress_rollout_if_cold_blocking` | `Inspect`, `SkipCompressed`, `Encode`, `Check`, `Publish`, `Recheck`, `RemovePlain`, `WorkerEnds` |
| `open_rollout_line_reader` | `ReaderStart`, `StatPlain`, `StatCompressed`, `OpenFound` |
| the clock, the end of a session or process | `WeekPasses`, `Leave` |

Abstractions. Time is counted in weeks: a file is cold when it was not written this
week, and no open, read or compression takes that long (the worker stops after five
hours; a reader waits 150 ms). A record is a unit of length. One worker at a time, which
the maintenance lock guarantees. `Unwritten` is the writer lock of the thread.
`late` and `raced` are history variables: the records written where the worker did not
look again, and whether two materializations have overlapped (or one and the creation of
the plain file by a reopening recorder).
The worker's walk over the directory, its marker file and the removal of stale temporary
files are left out.

## AgentRegistry

`tree` is `agent_tree` (a path without an agent is `Reserved`), `paths` is
`thread_paths`, `count` is `total_count`; `owed` are the decrements that follow a change
of the maps outside their lock. `live`, `stored` and `open` are the thread map, the
thread store and the spawn edges, which the calls read.

| code | actions |
|---|---|
| `spawn_agent_internal`, `resume_single_agent_from_rollout`, `restore_v2_agent_metadata` | `Spawn`, `Resume`, `Restore`, then `ReserveSlot`, `Prepare`, `Create`, `Commit`, `PersistEdge` |
| a failing or dropped call: `Drop for SpawnReservation` | `Fail`, `Settle` |
| `close_agent`, `shutdown_live_agent`, `handle_thread_request_result` | `CloseEdge`, `CloseBegin`, `CloseRelease`, `Settle` |
| `register_root_thread` | `RegisterRoot` |
| `unload_thread_without_subscribers`, end of the process | `Unload`, `Restart` |

Abstractions. A call may fail or be dropped at every await. A resume that finds its
thread running is given that runtime or refused. The shutdown of a tree is
the shutdown of its members, one at a time, in any order. Nicknames (which are never
given back while the registry lives), last task messages and saved environments are
left out. V2 spawns have no limit here (residency limits them); V1 spawns and resumes do.

## RemoteOutbound and ReliableStream

`ReliableStream` is the promise: what has `arrived` of a stream is a prefix of what was
`accepted`, and all of it arrives. `RemoteOutbound` implements it with `accepted` the
envelopes ever put into the buffer (`sent`) and `arrived` what the backend has taken
(`delivered`).

| code | actions |
|---|---|
| `run_client_outbound` | `Enqueue` |
| `run_connection`, `join_connection_workers` | `Connect`, `WriterStops` |
| `run_server_writer_inner` | `Snapshot`, `ReplaySend`, `ReplayDone`, `CheckCapacity`, `CapacityChanged`, `Receive`, `Number`, `Send`, `SendDone` |
| `record_client_message_delivery`, `BoundedOutboundBuffer::ack` | `ReaderAck` |
| network and backend (external) | `Disconnect`, `BackendTakes`, `BackendAcks` |

Abstractions. A message is the number of envelopes it splits into: none (it is too
large for any split and keeps its number), one, several, or an error. Losing the
connection loses what is in flight both ways. The backend takes an envelope whose cursor
is past the last one of the stream and acknowledges, by segment or by message, anything
it has taken, any number of times. The writer's pings are left out, as is the order in
which a hash map is replayed (any order of the streams). A writer that has an event in
its hand buffers it before it stops: it is cancelled by a token that it looks at only
where it waits, and the abort that follows if it does not stop in time is left out.

## RemoteInbound

The backend keeps what clients send in one log; `cursor` is `subscribe_cursor`, `pos`
how far this connection has read. `assembly` and `lastChunk` are the reassembler,
`clients` the tracker's map, `conns` the connections as the app server sees them, with
what it `got` on each, `finished` the outbound tasks that wait to be joined.

| code | actions |
|---|---|
| the reader's loop: `observe_client_message`, `handle_message`, `record_client_message_delivery` | `ReadSegment` (nothing complete yet), `Deliver` |
| the reader is aborted by `join_connection_workers` after the app server has the message | `DeliverUnrecorded` |
| `send_transport_event` times out, or the reader is aborted while it waits | `DeliverFails`, `FailedInitialize` |
| `bookkeep_join_set`, `close_expired_clients` | `Join`, `Expire` |
| the app server disconnects the client | `TaskEnds` |
| `connect`, the end of a connection | `Connect`, `Disconnect` |
| clients (external) | `ClientInitializes`, `ClientSends`, `ClientSendsChunk`, `ClientPings`, `ClientCloses` |

Abstractions. The tracker is locked by the reader for as long as a connection lasts, so
that one envelope is one step, split where an abort can leave it half done. The log
grows only when all of it has been read: what the reader does depends on nothing it has
not read. A client sends in the order of its `seq_id`s, which go on when it initializes
again on the same stream; it uses one stream at a time and does not return to an earlier
one. Closing a client and invalidating its assembly is one step (`Join`, `Expire`); a
segment of another stream that fails the late checks of `observe` leaves the assembly
alone (in the code it takes its place and is dropped, which a new stream does as well). An invalid segment is one that fails any of the checks of
`observe`. One client: pings stand for the envelopes of other clients, which move the
shared cursor. Not modelled: clients without a stream id, the eviction of assemblies
when 128 clients have one, and the shutdown of the tracker.

## Runs

Bounds are constants named `Max...` and guard only the actions of the outside world:
submissions, failures, crashes, lost connections, and the creation of turns,
`TurnState`s, threads and runtimes. Deadlock checking is off in every run, since a session, a tool call or a
writer that has nothing to do may stop.

| run | bounds | shows |
|---|---|---|
| `client_turns` | 2 inputs, 3 turns, 1 interrupt, 1 compaction, 1 shutdown, hooks that block | with the submission loop as the only starter: no turn is started over another (`TaskSlotFree`), each is reported once (`TerminalOnce`) and eventually (`StartedTurnReported`), no input disappears (`NoSilentLoss`), every running task is within reach of an interrupt (`Interruptible`) |
| `mailbox_turns` | 3 mails, 2 of which ask for a turn, 1 automatic input, 4 turns | with starters that reserve the slot first: mail is neither lost (`NoSilentLoss`) nor left waiting (`TriggerMailServed`) |
| `all_actors` | submission loop, realtime, one abort by the guardian, injection, mail, durable sleep, hooks that block or stop a turn, 2 turns; no interrupts (`client_turns` has them) | what no interleaving breaks: nothing is recorded twice (`AtMostOnceRecorded`), a turn reported as aborted does nothing any more (`AbortIsFinal`), types |
| `agents` | 2 callers, 1 place, 4 calls (up to 3 spawns and up to 2 messages), 4 runtimes, and a session that dies or a call that is dropped | every spawn but the first has to evict, messages reload what was evicted, also while the other caller is about to remove it, and a session may die or a call be dropped in the middle; all the exceptions below happen within these bounds: slots exact (`SlotsExact`), overshoot less than one agent per caller and stray (`OvershootBounded`), loaded agents accounted for (`LoadedAccounted`), only replacements of ended sessions removed by id (`RunningReachable`), no message lost but the exposed ones (`AcceptedNotLost`), calls end (`CallsEnd`), residents distinct (`TypeOK`) |
| `failures_and_crashes` | 3 operations of up to 2 records, 2 I/O errors and 2 crashes, each leaving nothing, a torn line or a line without its newline, 1 resume | errors in both attempts, before and after crashes and resumes: durability (`AckedDurable`), order (`InOrder`), resume (`ResumeAccepts`), projection (`Rebuildable`), and an answer for every operation (`OperationEnds`) |
| `rollout_forms` | 2 processes, 1 reader, 1 record, 2 weeks, 2 compressions, 1 reopening, 1 fork; symmetric | unless two materializations have overlapped: a record written where the worker could see it is in one of the forms (`KeptOnDisk`); a reader gives up only if the file moved under each of its 4 attempts (`ReaderFinds`) |
| `registry_races` | 2 callers, 2 closers, 2 agents, 2 paths, limit 1, 1 restart; symmetric | maps inverse (`Identity`), reserved paths owned (`PathsOwned`), no slot given back twice (`CountCovers`), limit (`LimitKept`) |
| `outbound_reconnects` | 2 streams, 2 messages of up to 2 segments, capacity 2, 2 acks in flight, 2 disconnects | the refinement of `ReliableStream`, safety and liveness (`DeliverySafe`, `DeliveryLive`), nothing unacknowledged dropped (`Retained`), the exact count (`UsedExact`), back-pressure ends (`EventuallyDrained`) |
| `inbound_replays` | 1 client, 2 streams, 2 segments, 6 envelopes and faults of which 2 faults | no orphaned connection (`OpenTracked`), in order and once (`InOrderOnce`), whole (`OnlyWhole`), without a gap (`NoGap`), in the end all of it (`CaughtUp`) |

Why these are enough to be of interest: two turns are needed for a race over the
slot, a third for the one that is started while the other two meet; one place with
two callers is the smallest residency in which a candidate can be hidden from the
other caller; two errors fail both attempts of one operation. A limit of one agent
makes every second spawn meet it; one segmented message fills the outbound buffer, so
that the second stream has to wait for acknowledgements; two faults lose a connection
during the recovery from the first one.

The first two session runs and the third differ in who takes part because the races
below make the stronger properties false when everybody does. They are checked where
the code upholds them, and the violating runs show where it does not.

### Violations

Each states what a comment or an assertion of the repository says.

| run | what happens |
|---|---|
| `wake_races_spawn` | a turn that ends with mail waiting starts the next one from its own task while the submission loop goes through `spawn_task`: `start_task` finds a task in the slot, against its `debug_assert!` |
| `materializations_overlap` | two processes (a fork, a resume) materialize one rollout; the slower one meets the faster one's plain file (`AlreadyExists`), goes on, and removes the compressed file that the worker has just made of that plain file; the worker's last comparison looks at the plain file only and removes it. Against the comment on `open_rollout_line_reader`, neither form is on disk, and the rollout is gone |
| `idle_session_loses_lines` | a session idle for a week keeps its rollout open; the worker, which takes no writer lock, compresses and unlinks the file, and the session's next lines go to a file without a name (also: an append between the worker's last comparison and its removal) |

Other races are in the models, where the passing runs leave them out by their constants
or their statement, and have no run of their own:

* an item injected while a turn is finishing goes into a `TurnState` that is dropped:
  `NoSilentLoss` fails with `Injects` not empty;
* a message accepted while its addressee is being evicted, or queued when the eviction
  looks at it, is lost: `AcceptedNotLost` excepts these (`exposed`) and fails without;
* an eviction or a cleanup after a failed send removes the session that has replaced the
  dead one (`agent/control.rs:383`, `residency.rs:154`; `remove_thread_if_matches` exists
  for it). The session removed runs on out of reach: `RunningReachable` allows for it,
  and `manager[of[r]] = r` alone fails;
* a tool call dropped with its turn leaves its eviction candidate, or the agent it has
  stored and not committed, loaded and in no list; so does a burial that overlaps a
  reload: `LoadedAccounted` and `OvershootBounded` count them (`strays`, `escapes`);
* a message that meets a session between its end and its removal releases the agent in
  the registry, although it was only unloaded;
* an eviction candidate is counted nowhere while it is examined, so another spawn can
  take its place; `OvershootBounded` says how far this goes;
* an interrupt between the two halves of `on_task_finished` leaves the mailbox
  unserved, because each of the two relies on the other to look at it (with
  `MaxInterrupts = 0`, as in `mailbox_turns`, `TriggerMailServed` holds); the guardian's
  abort of a turn that is finishing has the same effect;
* `shutdown` does not wait for a turn that has left the slot, which may still record;
* a failed write that lost only its newline is completed by
  `ensure_rollout_is_newline_terminated` and then repeated with the same ordinal, which
  the projection refuses: `Rebuildable` excepts this repetition and fails without.
  `AckedDurable` and `InOrder` hold all the same (the theorems cover every cut);
* a torn metadata line that a *failed* write left stays the first line, and the thread
  cannot be resumed although the retried `persist` succeeded; `ResumeAccepts` excepts it;
* `open_log_file` creates the file it does not find: a reopening between the removal
  of one form and the look at the other starts an empty rollout beside the old one;
* a rollout that a fork has made plain keeps its old modified time and is cold at once;
* a V1 agent that the app server unloads stays registered; resuming it takes a second
  slot, which nothing gives back (`CountCovers` is `<=` for this reason);
* a close that overlaps a resume of the same agent can release the registration of the
  new runtime, and a spawn dropped after its thread is in the map leaves it there
  unregistered: both agents run on without being counted;
* the result of a client's outbound task is only its key: a client that initializes
  again on the same stream can have its new connection closed when the old task is joined;
* a segmented message leaves the reassembler before it is forwarded. If its forwarding
  fails after other envelopes have moved the cursor past its first segment, it is lost;
  `NoGap` and `CaughtUp` except it (`CutChunks`);
* an initialize that is aborted after `ConnectionOpened` leaves a tracked connection that
  was never initialized, and answers nothing until the client initializes again.

### Fairness

`SessionTurns`: weak fairness of every step of every process. tokio polls tasks that
are ready, its mutexes are fair, and the 100 ms timer of an abort fires; a model
stream that never ends is excluded by the bound on follow-ups. Nothing forces a
client to submit anything. `AgentResidency`: weak fairness of each caller's steps and
of a session loop taking up what is submitted and reaching its queued `Op::Shutdown`;
a turn (`Work`) need not end, and nothing forces a call to be dropped.
`RolloutWriter`: weak fairness of the writer task and of a caller that is about to
send its flush; I/O may fail at every step, so that the answer may be an error.
`RemoteOutbound`: weak fairness of reconnecting, of the writer, of the backend and of the
reader, and strong fairness of the backend acknowledging the last envelope it has of
each stream while a connection is up. The last is an assumption about clients that the
code does not enforce: the envelopes of a client that never acknowledges again stay in
the buffer, and `EventuallyDrained` would fail. `RemoteInbound`: weak fairness of
reconnecting and of the reader. Both bound the number of lost connections: with a
connection that is always lost nothing can arrive. `AgentRegistry` and
`RolloutCompression` state safety only.

## Proofs

All are for arbitrary values of the constants, under the `ASSUME` of each module
(bounds are natural numbers, the kinds of items do not overlap, callers, threads and
streams are finitely many, there is a caller), which TLC evaluates in every run.

Some theorems have a hypothesis on the constants, stated in the `ASSUME` of the theorem.
It is the regime of the run that checks the property, and outside it the property
fails or, where said below, is open:

| hypothesis | meaning | why it is needed |
|---|---|---|
| `ClientOnly` | no mail, automatic turns, realtime input or guardian: only the submission loop starts and aborts turns | `wake_races_spawn` |
| `Injects = {}` | nothing is injected into a running turn | an item injected into a finishing turn is dropped with its `TurnState` |

The other theorems have none. Where the code fails to uphold the plain statement, the
property itself names the exception, by a history variable or by the state:

| property | exception | where the code makes it |
|---|---|---|
| `AcceptedNotLost` | `exposed` | the session crashed, or an eviction had found it idle |
| `LoadedAccounted`, `OvershootBounded` | `strays`, `escapes` | a dropped call, or a burial that overlaps a reload |
| `RunningReachable` | a session that replaced an ended one | removal by thread id |
| `KeptOnDisk`, `ReaderFinds` | `raced` | two materializations overlapped (`materializations_overlap`) |
| `KeptOnDisk` | `late` | written after the worker's last look (`idle_session_loses_lines`) |
| `Rebuildable` | a record repeated after a failed write | only its newline was missing |
| `ResumeAccepts` | a failed write tore the first line | it is never replaced |
| `NoGap`, `CaughtUp` | `CutChunks` | a segmented message whose own forwarding failed |

* `SessionTurnsProofs`. `TypeCorrect`: the type invariant, with "a task is never left
  in an empty slot". `AbortedTurnStaysStopped`: `AbortIsFinal`. The property is not
  inductive, because the aborter reports a turn a step after it stopped the task, and
  `on_task_finished` a step after the task returned its error. The
  invariant adds `Control` (who aborts, and what an aborter holds), `Birth` (a turn
  being started has never run and is started by one process only) and `Stopped` (a
  task about to be reported has stopped). That a stopped task never runs again then
  rests on the fact that only `StartInstall` makes a turn run, and only an unborn one.
  `RecordedOnce`: `AtMostOnceRecorded`, with every actor. An item is in one place at a
  time, the mailbox, a pending input, the input of a turn or a process's hand, and in
  none once it is recorded (`Apart`). Under `ClientOnly`: `SlotIsFree` (`TaskSlotFree`), `ReportedOnce`
  (`TerminalOnce`) and `AlwaysInterruptible` (`Interruptible`), from `CInv`: the task
  that runs is the one in the slot or the one the loop is aborting (`SlotInv`), and its
  terminal event is still to come, from the one process that will send it
  (`ReportInv`). Under `ClientOnly` and `Injects = {}` also `NothingIsLost`
  (`NoSilentLoss`), from `DInv`: where an item can be at each step of its way
  (`PlacesInv`), and that the `TurnState` in the slot is that of the task beside it, of
  the one being started, or of a turn that is ending and still empties it (`StatesInv`).
* `AgentResidencyProofs`. `TypeCorrect`, with distinct residents; the lemmas
  `WithoutFacts`, `TouchFacts` and `RotatedFacts` are about the list operations.
  `SlotsNeverLeak`: `SlotsExact`, the number of pending slots is the number of
  callers in a place where they own one. Each action moves one caller, so one of
  `SlotKept`, `SlotTaken`, `SlotGiven` applies; the saturating subtraction of
  `release_pending_slot` never saturates because the caller itself is counted.
  `LoadedIsAccounted` (`LoadedAccounted`) is inductive with these. `OvershootIsBounded`
  (`OvershootBounded`): only a successful `try_reserve` claims a thread that nobody had
  claimed, and it has seen room for all but what the other callers examine at that moment
  (`ClaimsCount`); that the touch of an agent claims nothing new is `LoadedAccounted`.
  `RunningIsReachable` (`RunningReachable`), from `SInv`: nobody else knows the thread of
  a spawn before it is registered (`Fresh`), a thread id leads to the latest of its
  sessions (`Sessions`), and who removes one by id has seen a session of that thread
  ended (`Removals`). `AcceptedIsNotLost` (`AcceptedNotLost`), from `Deliveries`: only a
  busy session has messages it has taken up, and what a session that must stop has
  queued is exposed. All of them are for follow-ups, reloads, crashes and dropped calls.
* `RolloutWriterProofs`. `TypeCorrect`, with "only the last line can lack its newline",
  which needs that whoever holds a handle has a terminated file (`Clean`).
  `AckedRecordsDurable`: `AckedDurable`. A barrier is answered when the buffer is
  empty; that this says something about the records queued before it needs the order
  of the channel (`QueueOK`) and that a record which is neither queued nor buffered is
  in the file or was lost with its process (`Kept`). `RecordsInOrder`: `InOrder`, from
  `Behind`: the file holds nothing newer than the record to be written next.
  `ResumeIsAccepted`: `ResumeAccepts`, for every way in which a write can be cut off;
  `FirstLine` says that the first line is the metadata, and that without a failed write it
  is torn only if it is all there is and its process is dead. `AlwaysRebuildable` (`Rebuildable`),
  from `Dense`: a whole line has the ordinal after the whole line before it, or, once a
  write has failed, the same record and the same ordinal, and the writer goes on from the
  last one. Both follow what each action can do to the file:
  leave it, append a line, or terminate its last one (`FileStep`).
* `RolloutCompressionProofs`. `TypeCorrect`, `WrittenRecordsKept` (`KeptOnDisk`) and
  `ReadersFind` (`ReaderFinds`), for any number of processes. While nothing has `raced`:
  one of the two forms exists at all times (`Exists`); a materialization has found no
  plain file and its copy is complete before the compressed one goes (`MaterializeOK`);
  what the worker has encoded is all there was at its last comparison (`WorkerOK`); a
  reader that found one form missing has seen the other one or counts a change of form
  (`ReaderOK`). That no second process changes the form meanwhile is what `raced`, which
  turns true the moment two are at it (`WatchInv`), takes out.
* `RemoteOutboundProofs`. `TypeCorrect`. `NothingUnackedDropped`: `Retained`, and
  `ImplementsStream`: `DeliverySafe`, every step is a step of `ReliableStream` or leaves
  `sent` and `delivered` alone. Neither is inductive. The invariant says that the
  envelopes of a stream are in cursor order, that the buffer is a suffix of `sent` that
  begins at or before the end of `delivered`, that an acknowledgement in flight is at or
  below what the backend has taken (`AcksCovered`), that the envelope before one on the
  wire has been taken or is ahead of it on the wire (`WireLinked`), and that all a running
  writer has no longer pending has been taken or is on the wire (`WireCovers`). An
  envelope that arrives then is either one the backend refuses as a repetition or the
  next one of the stream.
  `BackpressureExact`: `UsedExact`; envelopes are distinct because of their order.
* `RemoteInboundProofs`. `TypeCorrect`, `OpenIsTracked` (`OpenTracked`),
  `DeliveredInOrderOnce` (`InOrderOnce`), `ForwardedWhole` (`OnlyWhole`) and
  `NothingSkipped` (`NoGap`). What makes replays hard is that the cursor of the backend,
  the reassembler and the tracker each remember how far a client has come. The invariant
  relates each to the log: a client uses its seq_ids in order and sends the segments of
  a message one after the other (`LogInv`); the reader and the cursor are within the log
  (`ReadInv`); the reassembler has the leading segments of one message, all valid and
  all read (`AssemblyInv`, `LastChunkInv`); a connection has what was read for its key,
  in order, and two connections of a key have separate ranges of seq_ids (`ConnInv`); a
  message before the cursor is with its connection, in the reassembler, or one whose own
  forwarding failed (`GapInv`). A step is first reduced to one of six shapes
  (`StepCases`), which differ in what they do to the log, the assembly and the connections.
* `AgentRegistryProofs`. `TypeCorrect`, `MapsInverse` (`Identity`), `PathOwnership`
  (`PathsOwned`), `CountIsEnough` (`CountCovers`), `LimitRespected` (`LimitKept`), from
  one inductive invariant that adds: the root's path is the root's alone (`RootApart`),
  a call that is not creating its thread has the path the thread was created with
  (`CallStored`), and a registered agent has been created (`KnownStored`). The last
  three are needed because a V1 and a V2 agent are told apart by the path they were
  stored with, while the count does not tell them apart. The cardinalities move by the
  lemmas `Covered` and `Kept`.

Only model-checked: the liveness properties (`StartedTurnReported`,
`TriggerMailServed`, `CallsEnd`, `OperationEnds`, `DeliveryLive`, `EventuallyDrained`,
`CaughtUp`), since TLAPS does not reason about fairness and ENABLED here; and what the
runs check outside the hypotheses above. `mailbox_turns` checks properties of the turn
lifecycle with mail, where a turn can be started by the task that ends; the theorems under
`ClientOnly` do not cover it.

## Not modelled

The repository has some 870,000 lines, most of them presentation, wire formats, data
types and I/O; the models stand for the parts in which concurrent tasks, failures and
restarts meet in state of their own. What is left out, and why:

* **Of the modelled components.** Turns: review and user-shell tasks, which are the
  lifecycle of `SessionTurns` with another body; suspension
  (`session/turn_suspension.rs`). Agents: the execution limiter, whose check and
  increment are in two components (a message and the start of a turn); the reload on
  behalf of a parent. Rollouts: legacy files, which have no ordinals to go wrong. Remote
  control: enrolment and authentication, and clients without a stream id.
* **Concurrency not reached yet** (the plan): the exec server's retained output and
  session recovery, unified exec's process store, code mode's cell actor, the app
  server's request serialization, approvals, memory job leases, OAuth refresh, the
  network proxy's shared decisions, the daemon's pid file.
* **Sequential code over data**, which tests reach as well as a model: exec policy and
  command parsing, apply-patch, configuration merging, history normalisation, thread
  history, protocol types.
* **I/O and presentation**: model clients, MCP and HTTP, login, sandbox set-up, the
  terminal UI, telemetry, generated schemas, vendored code.

## Plan

1. `SessionTurns` (done; every safety property is a theorem, some for the client's
   session only). Next: suspension; an abstract specification of a turn (created,
   running, reported once) and its refinement; `NoSilentLoss` and `TaskSlotFree` for
   sessions with mail whose starters reserve the slot.
2. `AgentResidency` and `AgentRegistry` (done; every safety property is a theorem
   without hypotheses). Next: the execution limiter between a message and the start of a
   turn.
3. `RolloutWriter` and `RolloutCompression` (done, with theorems for every safety
   property that holds). Next: the composition with eviction (a reload that read the
   history before it got its slot).
4. Remote control (done, both directions, with theorems for every safety property).
5. Exec server: sessions that survive a lost connection, retained output and its
   sequence numbers. App server: request serialization and the connection gate.

The order follows what is at stake: lost or repeated user input first, then lost
agents and messages, then the durable record, then the transports around them.
