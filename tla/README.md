# A verification of ClawChips

ClawChips runs local models on Rockchip boards. Three parts share the work:

- **model_hub_py** (Python, asyncio): a gateway that starts and stops model
  services, queues requests per device and forwards them;
- **clawchips-plugin** (TypeScript): an OpenClaw plugin that routes each prompt
  to a local or a cloud model and keeps a dashboard and a memory of feedback;
- **skills** (Python and shell): command line tools of an agent, some of which
  run for long and use the hub's services.

This directory holds TLA+ models of the code, their TLC runs and TLAPS proofs.
They cover the hub, which schedules scarce resources among concurrent clients;
the plugin's routing memory; the three skills that keep state over time: the meeting
watcher, the camera monitor and the knowledge base; and the arithmetic of the
image decoder.

## Inventory

| part | state | operations | interacts by | what makes it correct |
|---|---|---|---|---|
| hub: state store (`state_store.py`) | services (status, queue size, inflight, leases), sessions, results, per-device slots | create session, mark started / stopped, touch and release leases, abort, cleanup | method calls from scheduler and HTTP handlers | slots and leases agree, no overbooking, results match sessions |
| hub: device scheduler | asyncio queue, `max_concurrency` worker tasks, one lock per service | take a session, start its service, wait for memory by reclaiming others, forward, stop ONCE services, restore | store, process manager, proxy | every session settled once, no slot or lock lost, memory respected |
| hub: HTTP API, dispatcher | handlers in flight | submit, start, stop, healthcheck, leases, GETs, cleanup loop, startup reconciliation | store, scheduler locks, process manager | the status shown is the truth |
| hub: process manager, proxy, device probes | processes outside the hub | shell commands, health polls, HTTP calls, memory probe | awaited by workers and handlers | every call returns or raises |
| hub: client, configuration | - | submit, poll to a terminal status | HTTP | a terminal status is final |
| plugin: hooks | a stash per conversation | before_model_resolve, llm_output, session_end, eviction timer | pipeline, dashboard storage | each turn is opened and closed once, its usage counted once |
| plugin: routing pipeline | registered routers by tier and weight | run, merge decisions | hooks, memory bank | the decision a tier order promises |
| plugin: memory bank | SQLite items and vectors | feedback, add, update, delete, search | serialized by a promise queue | item and vector rows paired, a feedback stored under its prompt and strategy, none pending for ever |
| plugin: dashboard | request rows, daily usage | record, complete, feedback status | hooks, HTTP, memory bank | status of a feedback is that of its last attempt |
| plugin: entry, configuration reload | current configuration, bank, storage | reload, unload | all of the above | nothing is used after it is closed |
| skills: meeting watcher | keyword buffer, cooldown, stream state; lease at the hub | microphone loop, listener, heartbeat, close | hub leases, ASR server | a slot while it streams, none afterwards; a keyword heard over the results it comes in, reminders a cooldown apart |
| skills: vision watch | pid file, config.env, state.json, the monitor's target | start, stop, status; capture, detect, save, remind | processes and files, hub, camera, OpenClaw CLI | one monitor, and the one asked for; reminders not lost on disk, not doubled, not too close |
| skills: knowledge base | SQLite file with documents and chunks, preview file | index, search, list | one file, hub | documents whole, views consistent, all text in chunks, in order |
| skills: image decoder (`CVT_*.py`) | none between runs | decode one raw file of a given format, width, height and stride | - | every sample read where its format has it, never past the data; the right colours |
| other skills, packaging, UI | none between calls | one-shot I/O | - | not modelled |

`PROJECT.json` lists the same parts with their status, the hazards of each at
the line where it bites, and the source lines of every definition.

## The modules

| module | models |
|---|---|
| `HubStore` | `InMemoryStateStore` for one device: a record `Store`, one operator per method from a store to a store |
| `ModelHub` | scheduler, dispatcher, HTTP handlers and service processes, composed over `HubStore`: variables, actions, fairness |
| `SessionLifecycle` | the abstract specification: the life of a session as a polling client may rely on it |
| `HubProperties` | type invariant, invariants, action and liveness properties of the hub, and the refinement of `SessionLifecycle` |
| `HubStoreProofs` | lemmas: each store operation keeps the store well formed |
| `HubProofs` | the inductive invariant of `ModelHub`, type correctness and the slots; over it, that no session, result, restore or live slot is lost, and that the hub implements `SessionLifecycle` |
| `HubAccountingProofs` | what the hub counts, locks and shows: `NoSlotLeak`, `ActiveExact`, `LocksConsistent`, `ShownServicesAreUp`, `NoOvercommit` |
| `MeetingWatcher` | the meeting watcher's three threads and its lease, composed with the store of `HubStore` and a rival client |
| `MeetingWatcherProofs` | its inductive invariant and theorems, over the lemmas of `HubStoreProofs` |
| `VisionReply` | how an answer of the vision model becomes matches (pure) |
| `VisionWatch` | `watch.sh` and the monitors it starts, their files and reminders, over `VisionReply` |
| `MarkdownChunks` | how markdown is cut into sections, blocks and chunks (pure; each loop is a recursive function of its rounds) |
| `KnowledgeBase` | index, search and list runs on one SQLite file, over `MarkdownChunks` |
| `KnowledgeBaseProofs` | what the chunker makes of any text, over `LoopProofs`; the inductive invariant of the base and its theorems |
| `LoopProofs` | lemmas: a recursive function of the rounds of a loop exists, and what each round keeps the loop keeps |
| `RoutingMemory` | `MemoryBank` with its serialization, and the callers: dashboard feedback, label and delete, directives, memory router, reload |
| `RoutingMemoryProofs` | its inductive invariant and theorems |
| `ImageDecoder` | the seven converters of raw images: strides, planes, packed samples, colours |
| `VisionProofs` | the two vision skills, over `LoopProofs`: the inductive invariant and theorems of `VisionWatch`; that the properties of `ImageDecoder` hold for every size, stride and sample |
| `MCHub`, `MCWatcher`, `MCVision`, `MCKnowledge`, `MCMemory` | small instances for TLC |

### How the state corresponds to the code: the hub

The hub is a single asyncio loop, so code between two awaits is atomic. A store
method never awaits and is an operator; a task (worker or HTTP handler) has a
record `task[t]` whose `pc` is the await it stands at, with the local variables
that live across it (`todo`: candidates still to be reclaimed or restored,
`taken`: `reclaimed_names`, `free`: `projected_available`). One action is one
section between two awaits, with all the store calls the section makes. Sections
are written in continuation style (`Capacity`, `Locked`, `Forward`, `Raise`,
`Finally`, `AfterRun`, `Restore`), each ending with the next await.

A health check or an upstream call returns in two steps: the service answers (`Answer`,
which sets `answered` and needs the process to be up), and the task resumes, which may be
after another task has stopped that service. Every other await ends in one step.

- `lock[v]` is `_service_locks[v]`: its holder, then its waiters. asyncio locks
  are handed on in order and a newcomer does not overtake a waiter.
- `up` is the set of service processes that run; start and stop commands, health
  polls and upstream calls read or change it when they return. A start command
  whose process does not fit the device's memory fails.
- At the start of the hub any set of processes may be up, and each is probed once; the
  probe of one that is up may time out (`Init`).
- `Free` maps the processes that are up to what `get_memory_info` reports.
- `Faults` names which external calls may fail in an instance: start and stop
  commands, health checks and upstream calls (including timeouts), the memory
  probe, and a service process that crashes.
- A lease or slot expiry is held as the time that remains; `Tick` lets it pass.
  The code only ever asks whether an expiry has passed, so a clock adds nothing.

Abstracted: request and response data, error texts, `last_used_at` and
`finished_at` (the order of reclaim and restore by last use and which sessions
are old are chosen), `stop_after_request`, `reclaimed_for_session_ids` and
`services_waiting_for_reclaim` (written, never read), session ids (each session
is submitted at most once, its service given by `ServiceOf`).
One device is modelled: no operation of the hub reads the state of another.

### The meeting watcher

`main`, `ear` and `beat` say where the main thread (microphone), the listener and
the heartbeat stand. `watch` is `KeywordWatcherState`; each of its methods runs
under its lock and is one action: `should_drop_audio_input` is `ReadChunk`,
`consume_stream_state` is `ConsumeStreamState` (between the two the listener may
run), `should_drop_asr_result` is `Hear`, and `append_result_buffer` is
`AppendResult` or, with a reminder, `Remind`. `wire` holds the requests to the hub
that it has not handled: a renewal that has timed out at the client may still be
handled, even after the release. `hub` is a store of `HubStore`, changed by the
same operators that `ModelHub` uses.

A time stamp is held as the time that remains: `watch.cooldown` stands for
`last_trigger_time`, so `InCooldown` is `cooldown > 0`; `watch.logged` is
`cooldown_logged`. `due` is the heartbeat's wait, or how long an answer is out.
`missed`, `quiet`, `resume` and `tail` are history; `tail` holds the newest characters
heard since the buffer was last emptied, one fewer than the keyword has, however much of
them the code's own buffer still holds. A failure before `stream_mic`'s try
statement (`StartFails`, `OpenStream`) and the SIGTERM of `stop.sh` (`Killed`) end the
process without closing the lease.

Assumed: an even ttl (half of an odd one is no whole number of seconds) and a hub
that answers in less than half of it. With a ttl of 1 the code's interval is the
whole ttl, and the assumption excludes it.

### The camera monitor

`shell[s]` is an invocation of `watch.sh` with its local variables, one action per
command that touches a shared file or process; `mon[m]` a run of
`detect_target.py --watch`. `disk` is `state.json`, truncated before it is written
(`Torn`). A monitor's target has `silence`, the time since `last_remind_at`,
counted up to `Limit`, where no comparison tells more apart; `misses` and
`streak` likewise stop at their thresholds. A stop may come at any await of a
monitor; an exception of the loop's body is `PollFails`. A command may end at any of its
steps, by a signal or an error (`ShellEnds`). `stray` is history: two commands were once
in progress together, or one has ended between the start of its monitor and the pid file.

A text of the model is reduced to the candidates `extract_first_json_object` tries,
in order, and an object to what `normalize_result` asks of it. Boxes are in thirds
of a pixel, so that rounding matters.

### The knowledge base

A text is a sequence of lines with a kind, a size and whether there is a `|` in them: what
the chunker's regular expressions tell apart. Offsets are characters of the stripped text. `db` is what
is committed, `tx` the write transaction (SQLite has one at a time; `BEGIN` is
implicit in the first write), `job` and `view` the index and reader processes.
Each statement of a reader sees what is committed then. `ensure_schema` is four statements
that are committed one by one (`Schema`, `EnsureSchema`), and `db.schema` is how many have
been; one that finds its table there writes nothing and takes no lock. Scores are left open: a
search recalls any `TopK` of the rows it compares. A chunk's vector is the index
of the chunk it was made from, so that a vector on the wrong row would show.

### The routing memory

An action is what runs between two awaits on the event loop. `queue[b]` is the
promise chain of bank `b`, `serialDepth[b]` its counter; `call[c]` is a call in
progress, `op` what it has asked `runSerialized` for and `turn` whether it has its
turn for a single operation or for the body of `recordFeedback`. `RunSerialized`
runs at once when any turn is on, as the code does, and queues otherwise.
Transactions do not await, so each operation is one step. A request is a prompt and a
strategy, the reason it was routed by (with the score, so that two requests of one prompt
usually differ in it) or none; of its `feedback_embedding_status` the model keeps whether
it is pending; a feedback searches the items of its request's strategy
only, or all where there is none (`Search`).

A reload closes the bank and the dashboard's database (calls on them then throw) and opens
what the configuration asks for: a bank on the same file, perhaps with an embedding of
another width, or none (`memory`), and the same or another database of the dashboard
(`storage`). It may throw on the way (`ReloadFails`), or in the constructor of the
dashboard's database, its last step, and leaves closed what it has closed.
`overlap` is history: two feedbacks of one prompt and strategy, or a feedback and a
delete, were once in progress together.

Left out: `forgetByModel`, `deleteByRoutingFilter`, `clearAll` and
`importFromJsonl` have no caller; the reset of stores with an old schema; the filter by
user (one user); a restart of the process. Assumed: the similarity search finds the
identical prompt, of which there are fewer items than the eighty it looks at.

### The image decoder

`args` is what the converter that runs is called with (`Call`, until `Return`): format,
width, height, stride and the size of the file. The rest is functions of it, `job`. `Sample(job, c, x, y)` is what its planes hold, through the functions of
the same names as the formats. What is in the file is left open: a decoded sample is the list of the
positions, in bits of the file, that it was taken from, with `Zero` for a bit that
was padded. So the model compares where a converter reads with where the format
has the sample, for every content at once; masks and shifts are the choice of the
positions. `Byte` and `Unpack4x10` give `IndexError` beyond the resized data. The
colours are computed in numbers, over the samples in `Levels`; `>>` is `\div`, which
rounds down as Python and numpy do. Left out: reading the arguments and the file
(a stride that is no number counts as missing), and the coding of the PNG file.

## The runs

The hub's bounds: the sets of services, sessions, leases, workers
and handlers, `MaxTtl` (the longest lease), `Memory`. Time and the number of
touches, retries, starts and stops are not bounded. The bounds of the other
modules are marked so at their constants.

| run | instance | shows |
|---|---|---|
| `hub_worker` | 1 worker, 3 services (one ONCE) of which two fit together and the third only alone, 3 sessions, start / stop / health / forward / memory fail | `NoOvercommit`, `ShownServicesAreUp`, `RestoreConsidered`: with one worker the device is never overcommitted, a service that shows it is in service has its process up, and a ONCE session considers all it reclaimed for restoring |
| `hub_pool` | 2 workers, 1 HTTP handler, 2 services of which one fits, 2 sessions, every fault and crashes | `TypeOK`, `NoSlotLeak`, `SessionOwned`, `QueueSizeExact`, `LocksConsistent`, and `ImplementsLifecycle` |
| `hub_leases` | 1 worker, 1 ONCE service, 2 sessions, 2 leases of up to 2 time units, start and forward fail | `SlotsBacked`, `SlotsWithinDevice`, `ActiveExact`, `ResultIffFinished`, `LiveSlotKept` |
| `hub_live` | 1 worker, 1 handler, 2 services of which one fits, 2 sessions, start / stop / health fail, fairness | `EverySessionSettles` and `RequestsAnswered` |
| `meeting_watcher` | one slot, the watcher and a rival; ttl 4, latency 1, join 1, cooldown 2; a keyword of two characters, a buffer of three, results that hold it in halves, across a result and its new part, or in front of more than the buffer holds | `TypeOK`, `SlotWhileStreaming`, `KeywordHeard`, `NewStreamAfterCooldown`, `RemindersSpaced`, `SlotFreed` |
| `vision_watch` | two invocations of `watch.sh` at a time, two monitors, two queries; 2 hits confirm, 1 miss clears, cooldown 1, silence 2; five kinds of answers; and the image decoder on each of seven formats, widths 1-9, heights 1-3, strides that are missing, too small and larger, files that are empty, short and too long, fifteen 8-bit and thirty 10-bit levels per channel | `TypeOK`, `OneMonitor`, `DecisionSaved`, `ReminderConfident`, `InViewDecided`, `RemindersSpaced`, `SamplesInPlace`, `ColoursRight` |
| `knowledge` | two index runs with different models, a reader, two documents, texts of one chunk, two chunks and headings only; and the chunker on every text of up to five lines of nine kinds | `TypeOK`, `DocWhole`, `ViewsConsistent`, `BlocksCovered`, `PathInForce` |
| `routing_memory` | two calls at a time, one prompt under one strategy or none, one tier, two items, one reload that changes the width, and failing ones, fairness | `TypeOK`, `RowsPaired`, `OneSlot`, `FeedbackStored`, `FeedbackEnds` |
| `hub_lease_revives`, `hub_lease_overbooks`, `hub_reclaims_busy`, `hub_worker_dies` | smallest instances that show it | a finding each, below |

The three services give a reclaim that has several candidates and stops after the
first, and one that needs both; two workers and a handler give every pair of tasks that
compete for a lock or for memory; two leases and a session compete for one slot;
a ttl of 2 separates renewing, ageing and expired.

For the watcher a ttl of 4 is the least whose interval (2) leaves room for a latency
and a missed renewal; a rival that asks for one second takes the slot as soon as it
lapses. A buffer of three holds the start of a keyword beside a result of two characters and
no more, so that every longer one is cut, and a buffer cut one character short loses a
keyword. A cooldown of 2 can end between the microphone's two locked sections. The
monitor's thresholds are the least that differ from "at once"; two monitors let a
start replace one, two invocations overlap. Five lines make a fence with its
end inside another block's reach, a table between paragraphs and three nested
headings. `hub_pool`, `vision_watch` and `knowledge` check safety only and use symmetry: of the
workers; of monitors, commands and queries; of the documents. Two calls are enough to run
inline in each other's turn, and two items to insert a prompt twice. One tier is enough for
that, too; that a feedback's tier is the one stored, and the vector's that of its item, is
checked of one tier and proved of any.

Nine columns are two groups of four and a rest; three rows a pair and a rest; a stride
of 12 is padding for some formats and too small for others. The levels
are those around the ends of the range, its middle, black and white.

`BlocksCovered` and `PathInForce` speak of the document that an idle index run is
given next; what they say of all the texts does not depend on the state, and TLC
evaluates it once.

The decoder shares nothing with the camera monitor. `MCSpec` explores each while
the other rests, so that one run serves both.

Deadlock is not checked where the system may rest: a hub whose sessions are settled,
a watcher that has ended, a camera monitor that is dead with no start left, a
memory whose items are used up.
It is checked in `knowledge`.

Each property of a passing run has a mutant, a plausible bug in a mapped
definition (a dropped guard, a forgotten reset, a boundary off by one), under
which the same run finds the property violated. The mutants stand next to the
definitions they change.

### Fairness

In `ModelHub`, `Fairness` is weak fairness of each worker and each handler: every await returns,
because shell commands end, health polls and upstream calls have timeouts, and
locks are handed on in order. The wait for memory is a loop with a deadline:
`CapacityTimeout` of each task is strongly fair, as the loop may be at its sleep only now
and then. No fairness is assumed of clients, of time or of faults.

`hub_live` leaves two things out on purpose: ONCE services, because of the
finding `hub_worker_dies`, and leases, because of `hub_lease_revives`.

`MeetingWatcher` assumes only that time passes. `Tick` waits for threads that
are due and for an answer within the latency, so that much is assumed of
scheduling; `SlotFreed` needs no more: a slot that nobody renews runs out.
`RoutingMemory` assumes weak fairness of each call's steps and of each queue: the
event loop runs what can run, and an embedding ends by `AbortSignal.timeout`.

### Findings

1. `hub_lease_revives`: a reserving lease fails the queued sessions, but their
   items stay in the asyncio queue and `abort_proxy_session_device_busy` answers
   False for any session that is not queued. The worker runs a session that its
   client has seen fail.
2. `hub_lease_overbooks`: a session that is starting holds no slot, a lease that takes the
   last slot fails only the sessions that are queued, and the second abort check skips one
   that is starting. Two leases taken meanwhile and the request are three users of two slots.
3. `hub_reclaims_busy`: reclaim candidates are chosen before the awaits of their
   stop commands and stay idle in the meantime; another worker's request is
   forwarded to a service that is being stopped.
4. `hub_worker_dies`: `process_manager.stop` of a ONCE service and the restores
   after it stand outside the try statement; an exception there ends the worker
   task and the queue is no longer served.

In two places a comment says other than the code does, and the models follow the code:

- The header of `rk_rag.py` (line 7) announces overlapping chunks. The code cuts between
  blocks, each of which is in one chunk (lines 253-278), so that chunks never overlap;
  `rk-rag/README.md` (lines 7-9) has it so.
- The comments of `runSerialized` (memory.ts:386-392) say that it serializes and that only
  nested calls run inline. But `serialDepth` belongs to the bank and not to a chain of
  calls: while a feedback that has the turn awaits its embedding, any other call runs
  inline, and may insert before it. `OneSlot` excludes such overlaps for that reason.

### What holds only under a condition

The models also show where the code promises less than one might read into it. No
run of its own states these; the condition is in the property.

- Two commands of `watch.sh` at once leave an orphan monitor, or one that watches
  the other's query: it takes no lock. One that ends between the start of its monitor and
  the pid file leaves a monitor no file names. `OneMonitor`, `DecisionSaved` and
  `RemindersSpaced` hold as long as neither has happened (`stray`).
- A reminder is sent at most once: the decision is saved first, and a reminder that
  fails is not sent again before the silence is over.
- A stop during a save leaves a torn `state.json`, and each later start ends in
  `load_monitor_state`.
- An answer that is a single object bypasses `--min-score` (`sure` in
  `ReminderConfident`).
- Two feedbacks that overlap run inline in each other's turn (`serialDepth` does not
  belong to a call) and can insert one prompt twice; `OneSlot` holds without overlap. It is
  about one prompt and one strategy: feedbacks on requests of one prompt that were routed by
  different reasons have items of their own.
- A feedback stays `pending` when the dashboard's database is closed or replaced before it
  ends, as by a reload; `FeedbackEnds` holds while it stays the same.
- A feedback whose embedding fails is shown as `ready` though nothing was stored.
- A result that is too long for the watcher's buffer is cut before it is searched, and a
  keyword early in it is not heard; `KeywordHeard` is about results that fit (`Fits`).
- With two workers the answer of a call may be overtaken by another worker's stop of that
  service, which then shows idle with its process down; `ShownServicesAreUp` is checked and
  proved with one worker.
- After one missed renewal the watcher may stream on without a slot, and after its
  listener has ended it streams on without hearing anything. The final chunk is
  sent after the lease was released.
- A heading with no text before the next heading is in no chunk. `BlocksCovered` is about
  the lines that are neither blank nor headings.
- A search compares vectors by their length only, not by their model. Two index runs
  of one file may commit in the other order than they read it. The preview of a base
  is written before anything is embedded, and shows its last document only.
- Where the width or height does not fill a group (of four columns in NV15 and
  NV20, of the columns and rows that share their chroma), the last columns and rows
  get something else: zero in the packed formats, and grey, padding or a neighbour's
  chroma in NV12 and NV16. `scripts/README.md` asks for a width that is a multiple of
  four in the packed formats and does not speak of the others; `SamplesInPlace` is
  about complete groups (`InGroup`).
- A list makes three reads, between which the base may change; it still shows at
  least as many chunks as documents.

## The proofs

`HubProofs` proves, for every value of the constants that satisfies the
assumptions in `HubStore` and `ModelHub`:

- `InvariantHolds`: `Spec => []IInv`;
- `TypeCorrect`: `Spec => []TypeOK`; in particular the counters of active and
  inflight requests stay natural numbers through every abort, stop and failure;
- `SlotsBackedHolds`: `Spec => []SlotsBacked`;
- `SlotsWithinDeviceHolds`: `Spec => []SlotsWithinDevice`.

Assumptions: finite sets of services, sessions and leases, `None` none of them,
`MaxTtl` and `MaxConcurrency` positive, as many workers as `MaxConcurrency`, a
free-memory function of integers. TLC evaluates them in every run.

`SlotsWithinDevice` is not inductive by itself over the code: that a lease keeps
or takes a slot only after the pruned usage was below the limit needs the number
of active requests to be natural (type correctness), and that a slot is not
renewed without its lease needs `SlotsBacked`. `IInv` joins the three as
`WellFormed(store)`, and adds what the sections need to be defined: a task that
reclaims or restores has a service at hand (`todo # << >>`, in `TaskOK`), locks
are sequences of tasks.

The argument follows the code: `HubStoreProofs` shows that each store operation
keeps a store well formed; `HubProofs` shows it for each section operator, from
the one that ends a section back to the one that begins it, then for each action.
Arithmetic on counters is separated from the record updates that use it.

Over this invariant, `HubProofs` proves from the same assumptions:

- `SessionOwnedHolds`: each session in progress has one owner, the queue or a worker;
- `ResultIffFinishedHolds`: results are those of the finished sessions;
- `RestoreConsideredHolds`: what was reclaimed for a ONCE session is considered for
  restoring, on every path through `_run_one`;
- `LiveSlotKeptHolds`: `Spec => LiveSlotKept`, an action property: only its own release
  takes away a slot that has not run out;
- and, assuming `NoSeizure`: `ImplementsLifecycleHolds`, the refinement of
  `SessionLifecycle`; `SettledIsFinalHolds`; `QueueSizeExactHolds`.

Their common invariant is `WorkInv`, over `IInv`: where a worker stands and what its
session shows go together (`InPlace`), no session is held twice or is held and
queued (`Exclusive`), one that shows it is in progress is held or queued (`Served`), and
what was reclaimed for it is held with it (`Remembered`). One pass through
the sections serves all of these properties: `Outcome(t, v, x, s)` says where task
`t` may stop and what has become of its session `x`, given the store `s`, and is proved
of each section operator from the last to the first. The refinement then needs no more
than that a session that waits shows "queued" (`WaitsQueued`).

`NoSeizure` (there are no leases, or `MaxConcurrency # 1`) says that
`FailQueuedSessions` never applies. It is needed: with one slot and a reserving lease
the finding `hub_lease_revives` is a counterexample to `SettledIsFinal` and so to the
refinement, since there a failed session stays in the queue. It is a hypothesis of
these three theorems, not an assumption of the module.

`HubAccountingProofs` proves:

- `NoSlotLeakHolds`: the counters of requests in flight never exceed the requests that
  workers really forward, so no exit of `_run_one` leaves a slot taken;
- `LocksConsistentHolds`: no lock is lost and no waiter forgotten;
- assuming `MaxConcurrency = 1`: `ActiveExactHolds`;
- assuming `OnlyWorkers` and `MaxConcurrency = 1`: `ShownServicesAreUpHolds`;
- assuming `OnlyWorkers`, `MaxConcurrency = 1` and `UsageExact`: `NoOvercommitHolds`.

The proof of `NoSlotLeak` follows one task through its
section: `Covers(t, s)` says that the tasks other than `t` account for what the
store `s` counts. It holds at the start of a section of a task that does not
forward (`BeginCovers`) and after the finally block of one that does
(`FinallyUncounts`); every store operation keeps it; and a section that ends
elsewhere than at the forwarding (`EndElsewhere`), or counts its request and
forwards it (`ForwardNoLeak`), gives the invariant back. The equality
`ActiveExact` holds only with one worker: a run that fails or is aborted before it
forwards takes the finally block too, and counts down a request of another worker.
`LocksConsistent` is inductive over `IInv`; what is left is that releasing hands on
to the first waiter (`Leaves`, `GoesOn`).

`OnlyWorkers` (no HTTP handler, no lease, no crash) is the condition under which
`ShownServicesAreUp` is true of the code, and of the run that checks it: a process that
crashes is seen by no status before the next health check, an HTTP start that fails leaves
"starting" behind, and an HTTP stop takes no lock. Its strengthening `ShownInv` is that
"starting" is always some worker's launch, that nothing is in flight at a service that is
started, stopped or broken, and that `running` is a set of processes that are up. The lemma
`ShownInvHolds` proves it for any number of workers of the behaviours in which no answer is
overtaken: a task that has its answer still finds the service up (`AnsweredUp`). With one
worker that is always so, as nobody else stops a service, and the theorem needs no more
than that; with two it is not, and the property fails.

The strengthening of `NoOvercommit` is `RoomInv`: where a worker is to start or restore a
service there is room for it beside what is up, and in the middle of a reclaim the free
memory it projects is no more than what is free, while the candidates it has left are up
and distinct, so that each one it stops frees what was projected for it. That candidates
are up comes from `ShownInv`. Each hypothesis is needed. Two workers can both find enough
memory and then both start, and an HTTP start takes no notice of a reclaim (hence one
worker, and `OnlyWorkers`). `UsageExact` says that a process takes what its service
declares as `device_memory_usage`: the code does not measure again after a reclaim, so one
that used less would free less than projected. `MCFree`, the memory of the runs, satisfies it.

`MeetingWatcherProofs` proves, for every lease set, ttl, latency, keyword, text,
buffer and cooldown that satisfy the module's assumptions:

- `InvariantHolds`, `TypeCorrect`;
- `SlotWhileStreamingHolds`: the slot is live from the first chunk to the close;
- `KeywordHeardHolds`, `NewStreamAfterCooldownHolds`, `RemindersSpacedHolds`.

Its invariant has a part for each concern. `SlotOK` relates the slot to the heartbeat:
while the heartbeat waits, the slot lasts for what is left of the wait and another
interval; while a renewal is out, for longer than its latency. The rest is that no
operation of the hub takes a live slot from its holder: lemmas about
`TouchExternalLease`, `PruneReservedSlots`, `RefreshActivity`, `ReleaseExternalLease`
and `Elapse`, on top of `WellFormed` of `HubStoreProofs`. `HearingOK` says that
the time since the last reminder and what is left of the cooldown add up to a
cooldown, and that a result is appended only outside of one: that is why the
reminder is late enough although two threads write the time stamp. For `KeywordHeard` the
buffer ends with `tail`, so that a result that fits beside it is searched together with it.

`RoutingMemoryProofs` proves, for any number of calls, prompts, banks and widths:

- `InvariantHolds`, `TypeCorrect`, `RowsPairedHolds`, `FeedbackStoredHolds`,
  `OneSlotHolds`.

The invariant of the tables does not say whose turn it is, since that is no protection: whatever
an operation does (`Sound`) keeps the tables paired, never reuses an id and never
changes the prompt of an item, so what another call has found is still an item of
its prompt or is gone (`Found`). An operation is sound on its own, and the step of
any call is then a change of one call over a database that `Follows` the old one.

`OneSlot` does need the turns. `TurnInv`: who waits or has a turn is in its bank's queue,
once, and only the first has it, so that the depth is 0 or 1. `SlotInv`: while no two calls
that interfere were in progress together (`overlap`), what a feedback has found, or not found,
is still so when it acts on it (`Alone`). That no id runs out of the bound
(`TypeInv`) counts the calls that may still insert (`Room`).

`VisionProofs` proves of the camera monitor, for any number of commands, monitors and
queries, all thresholds and any set of answers:

- `TypeCorrect`, `OneMonitorHolds`, `DecisionSavedHolds`;
- `ReminderConfidentHolds`;
- `InViewDecidedHolds`, `RemindersSpacedHolds`, which are action properties.

`OneMonitor` is not inductive: `WatchInv` adds what the one command in progress has read
and done, from the pid file it reads to the one it writes, and that no monitor is alive
between its kill and its start; a command that ends early gives up what it has read and
done. `SaveInv` relates the state file, the
targets of the monitors and the time since the last reminder: whatever was saved or is
held in memory is no nearer in the past than the last reminder sent (`Spaced`), so a monitor
that is killed and one that loads the file later keep the distance. Both hold while no
monitor is `stray`; `InViewDecided` needs neither.
`ReminderConfident` is about what `normalize_result` keeps of a list: every match it
keeps is one of the list that passed its guards (`ListedAreGood`, by induction over
the list), the first of them is what the reminder shows, and each place an event is passed
on to keeps it (`Sound`, a part of `MonFits`).

`KnowledgeBaseProofs` proves of the chunker, for every text (`Document`) and every chunk
size:

- `EveryTextCovered`, `EveryPathInForce`, and from them `BlocksCoveredHolds` and
  `PathInForceHolds`, which the runs state of the texts in `Samples`.

The first says that nothing of a text is left out but blank lines and headings, and that the
chunks begin in its order. That they are apart is not part of it, as the script's header
says otherwise (see above).

The chunker is three loops, and each has its invariant. `Walking` is that of
`parse_markdown_sections`: what it has so far, flushed, is `Grouped` (the sections follow
one another, their blocks are apart with only blank lines between, every line passed
that is neither blank nor a heading is in one of them, and the path of each is of the headings in
force where it begins), its path is of the headings in force at the line it is at, and
only blank lines came since its last block. There is a lemma per kind of round
(`WalkingBlank`, `WalkingHeading`, `WalkingBlock`); the one about headings rests on
`UnderRuling`: the levels along a path grow, so that popping from its end leaves just the
headings that the new one does not end. The line number grows with each round, so the loop is
through after as many rounds as there are lines (`SectionsAre`). `PackFits` is the
invariant of the packing of a section: the chunks so far, with the one at hand, cut its first `n`
blocks into runs (`Cuts`). It needs that no block is empty (`BlockSizeIs`), since the code
takes an empty text for no chunk. `Slices` is that of the loop over the sections. At the end lines become
offsets, which are in the same order (`OffsetGrows`). The headings of the property, those outside every
chunk, are those outside every section, and none of them is between the first block of a
section and the start of one of its chunks.

Each of these is an induction over data. `LoopProofs` gets it from the library's
theorem that strict inclusion is well founded on the finite subsets of a set, whose consequence `WFMin` is
first-order: a nonempty set of numbers has a least one (`Least`), hence induction
over a set (`UpTo`), hence that the function a loop is written as exists (`LoopExists`)
and keeps what its rounds keep (`LoopKeeps`). SMT and Zenon can instantiate all four, as
they are about sets and functions, not operators.

It proves of the base, for any number of index runs, readers, documents, texts and models:

- `TypeCorrect`, `DocWholeHolds`, `ViewsConsistentHolds`.

Its invariant relates the four places a document is in. A run has the vectors of a prefix
of its chunks, and of all when it writes (`JobFits`); the open transaction belongs to the one
run that writes, differs from what is committed by that run's document only, has none of its
rows after the deletion and all of them before the commit (`TxFits`); what is committed is
whole (`DbInv`). `SchemaInv` keeps the runs in step with the schema: one that is past a
statement finds what that makes, so a run that writes has its tables. A document that is committed never goes and has a row at least
(`RowsPerDocument`), which is why a list that counts documents first shows no fewer chunks.
Scores being open, what a search recalls is bounded by `TopK` and of the rows compared.

`VisionProofs` proves of the decoder, for all widths, heights, strides and sizes of the file:

- `SamplesInPlaceHolds`, `ColoursRightHolds`.

Nothing but the arguments is kept, so the invariant is trivial and the proof is
arithmetic. A row of a plane fits the stride and the plane (`RowFits`, `Columns`), a group of
four samples fits its row (`GroupFits`) and has its samples at multiples of ten
bits (`GroupInPlace`), and so for each format. For the colours, `Near8Unclipped` and
`Near10Unclipped` bound the difference to BT.601 before both are clipped, and
`ClipNear8` and `ClipNear10` show that clipping keeps it. TLC has compared the colours
at a few levels; the theorem covers all of them.

Assumptions on the constants that these proofs use besides those of the instances' sizes:
`None` is no state of the camera monitor and no transaction (`FileAssumption`,
`TransactionAssumption`), answers are of the three kinds an object can have
(`RepliesAssumption`), texts are stripped and not empty (`ChunksAssumption`,
`KnowledgeAssumption`), calls are finitely many. TLC evaluates each in the run of its
module.

Only model-checked are the liveness properties (`EverySessionSettles`,
`RequestsAnswered`, `SlotFreed`, `FeedbackEnds`), which need fairness. Every other
property of the passing runs is a theorem, the invariants without exception.

## Not modelled, and why

- Cancellation of an HTTP handler whose client has disconnected, and shutdown of
  the application: the framework decides when they happen.
- Parsing of the vendor's memory tool and of the YAML configuration.
- The plugin's session stash and dashboard turns: which hooks OpenClaw calls, and in
  which order, is not in this repository, and a property would rest on a guess.
- The merging of the routers' decisions: a choice over one prompt without state.
- One-shot tools (ASR, TTS, adb, benchmark), the dashboard's UI and packaging: device
  and network I/O; the only state between calls is the profile file of
  `adb_helper.py`.

## Plan

1. *(done)* hub: `HubStore`, `ModelHub`, `SessionLifecycle`, `HubProperties`,
   their runs; type correctness, the slot invariants and the accounting proved.
2. *(done)* skills: `MeetingWatcher` composed with `HubStore`, `VisionWatch`,
   `KnowledgeBase`; their safety proved. `ImageDecoder`, proved.
3. *(done)* plugin: `RoutingMemory`; its safety proved.
4. *(done)* proofs: locks, sessions, results, restores and live slots of the hub, the
   step simulation of `SessionLifecycle`, the exact count and the shown services under their
   conditions; the camera monitor and what it reports; the knowledge base and its
   chunker, by induction over the text; `OneSlot`; `NoOvercommit`.
5. Models left: the hooks' stash against the order in which the host calls them, and
   the merging of router decisions against a reference definition; the profile file
   of `adb_helper.py` and the wrapper it generates.
