# jusi: TLA+ models, TLC runs and TLAPS proofs

jusi runs notebooks in Neovim against a service on the machine where the code
lives. The service owns one Jupyter kernel, the plugin workers and terminals
that belong to it, and an event log; the Neovim side talks to it over HTTP and
follows the log over SSE. This directory models the parts of that system whose
correctness depends on the order in which threads, processes and messages act.

## 1. Inventory

### The service (`src/src/jusi`)

| Component | State it keeps | Operations | What is hard |
|---|---|---|---|
| **Supervisor, kernel lane** (`application/supervisor.py`) | current kernel, handle, runtime; active execution, interrupt and teardown marks, pending prompt | start, execute, submit_input, interrupt, complete, stop, restart, poll, close | two locks (`_operation_lock` is held for a whole operation, `_state_lock` for a section); interrupt and input go around the first; events are appended after locks are released; stop escalates when the lane is not given up |
| **Kernel adapter** (`infrastructure/jupyter_kernel.py`) | process, `_closed`, `_executing`, `_interrupt_requested`, the reply slot of `input()` | start, execute, submit_input, interrupt, stop, terminate, check_alive | the process dies at any moment; the execution, the interrupting and the answering thread share the slot |
| **Service process, HTTP** (`service.py`, `interfaces/http.py`) | the polling task, open streams | one thread per request, poll every quarter second, close on a signal | requests outlive the loop that accepted them |
| **Client operations** (`supervisor.py` 1123-1391, 2136-2246) | clients, surfaces, `_client_operations`, `_closing_clients` | followup, complete, editor action, interrupt_client, close_client, retirement | one operation per client beside the lane; fences that a refused restart leaves behind |
| **Plugin workers** (`application/plugin_workers.py`, `infrastructure/plugin_worker*.py`) | worker table, one runtime, per worker a request and a control channel | activate, start, request, interrupt, stop, teardown | pop-and-restore against snapshot; interrupt racing an answer; EOF of the owner |
| **Terminal surfaces** (`application/terminal_surfaces.py`, `infrastructure/terminal_*.py`) | replay window, cursor, one attachment with a bounded queue, a reader thread | prepare, attach, detach, write, resize, drain, close | slow readers, reconnect with a cursor, process exit against close |
| **Event log** (`application/events.py`, `EventsHandler`) | bounded deque, sequence | append, events_after, wait_after | a reader that falls behind the window |
| **Editor actions** (`application/editor_actions.py`, socket, `editor_client.py`) | registered actions, connections, results | register, connect, disconnect, deliver, expire | delivery racing disconnect |
| **Discovery, configuration** | none between calls | discover, load | one bounded subprocess |

### The Neovim side (`src/lua/jusi`)

| Component | State it keeps | What is hard |
|---|---|---|
| **Controller** (`controller.lua`) | last known kernel, runtime, executions, clients; `event_sequence`, connection generation | answers and events of one change arrive on two connections; inspection, gap detection and resynchronisation after a lost stream |
| **Cell lifecycle** (`cell_lifecycle.lua`, `marks.lua`) | per cell, its execution and status | events of a replaced execution |
| **Notebook model and parser** (`notebook/`) | lines, fences, cell identities | identity over edits and broken fences |
| **Editor delivery** (`editor_delivery.lua`, `editor_actions.lua`) | queued actions, fetched content | retry after reconnect, one buffer per action |
| **Local service** (`service/local.lua`, `transport/process.lua`) | the process this Neovim owns | readiness timeout, exit while starting |
| History, completion, presentation, palette, statusline | view state | stale answers to completion |

### How they interact

A request is a POST that the service runs in a worker thread: it calls one
method of `Supervisor`, which takes the lane, calls the adapter, the worker
manager and the terminal manager, and appends events. The SSE handler reads the
log in another thread. The service's own task polls the kernel and, at the end,
closes the supervisor. The controller inspects `GET /v1/health`, then follows
the events after the sequence it was told.

### What makes each part correct

* Kernel lane: no kernel process is left behind and no two run at once; health
  is truthful; a stop takes effect; a death is observed, ends the execution and
  retires what belonged to the kernel; an interrupt and a reply reach the work
  they name; the event feed loses no change; identities are never reused.
* Client operations: at most one operation per client, none starts after the
  closing fence, a client that is kept can be used again.
* Workers: no worker outlives its runtime; an interrupt is answered once and
  never stops a later request.
* Terminal stream: the bytes a reader sees are a contiguous run of the bytes the
  process wrote; a slow reader is told.
* Event stream: the controller's view equals the fold of the log up to its
  sequence; a gap is noticed; it catches up when the stream is up.
* Editor actions: each is delivered to one editor at most once and is answered
  or expires.

## 2. Modules

| Module | Models |
|---|---|
| `Supervisor` | the kernel lane and the adapter: state, one action per step of each handler, the properties |
| `KernelGenerations` | what the supervisor promises about kernels: the abstract specification |
| `SupervisorInvariant` | the inductive invariants, stated by the place a thread is at |
| `SupervisorTyping` | lemmas: every action preserves types (TLAPS) |
| `SupervisorProofs` | lemmas per part of the lane's invariant, its theorems, the refinement (TLAPS) |
| `SupervisorSafetyProofs` | events, prompts, signals and processes: an invariant and a theorem each (TLAPS) |
| `MCSupervisor` | symmetry, request mixes and a bound beside a close, for TLC; each `MCSupervisor*.cfg` is one question |
| `EventStream` | the event log, the SSE handler and the controller that inspects, follows and resynchronises |
| `EventStreamProofs` | its inductive invariants and the theorems, that of `MCEventStream` included (TLAPS) |
| `MCEventStream`, `MCEventStreamReconnect` | a history variable each, for the runs `stream` and `reconnect_runtime` |
| `ClientOperations` | plugin clients, the table of their workers, and the teardowns that take whole runtimes down |
| `ClientOperationsProofs` | its inductive invariant and the theorems (TLAPS) |
| `MCClientOperations` | a bound on the threads at work, for TLC |
| `WorkerChannel` | the private channel of one worker: the handle, both pipes, the worker's threads |
| `WorkerChannelProofs` | its inductive invariants and the theorems (TLAPS) |
| `TerminalStream` | one terminal surface: its program, reader, replay window and attachment, the WebSocket and the bridge |
| `MCTerminalStream` | a bound on what is written while a surface closes, for TLC |
| `TerminalStreamProofs` | the invariants of ownership and of the stream, and the theorems (TLAPS) |
| `EditorActions` | one action of an application, from its submission to its application in an editor |
| `EditorActionsProofs` | its inductive invariant and the theorems (TLAPS) |

The modules meet where one of them abstracts what another has step by step:

| In | is | of |
|---|---|---|
| `ClientOperations` | the kernel, a generation that is on or off; `Execute`, which takes the lane | `Supervisor` |
| `ClientOperations` | a worker that is stopped and is dead either way; the lock a request holds | `WorkerChannel` (`FencedIsDead`, `CallsEnd`) |
| `ClientOperations` | a surface that closes or does not | `TerminalStream` |
| `Supervisor` | `deps`, which a cleanup removes or leaves | `ClientOperations` |
| `EventStream` | the changes of the lane and the events it owes | `Supervisor` |
| `EditorActions` | a link of an editor | `EventStream`, the connection |

No refinement between them is checked, as they share no variable at the same
grain; what the one assumes is a property of the other, named in the table.

### Supervisor and the code

A thread's `pc` names the next step of the handler it is in; `idle` is a thread
that serves nobody. A step is what the thread does between two points where
another can see or disturb it: taking or leaving `_operation_lock` (variable
`lane`), one section under `_state_lock`, one call of the adapter, one append of
an event after a lock was released. `op`, `kern`, `exe` and `res` are the
handler's locals.

| Code | Variables |
|---|---|
| `_operation_lock` | `lane` |
| `_current_kernel`, its state, `_kernel_handle`, `_current_runtime` | `kernel`, `on`, `handle`, `runtime` |
| `_known_kernel_ids` | `lastKernel` (identities are allocated in order, so a number names one) |
| clients, workers, surfaces of a runtime | `deps` (they exist or they do not) |
| `_active_kernel_execution`, `_pending_input` | `active`, `pendingInput` |
| `_interrupt_requested`, `_input_teardown` | the same names |
| adapter: `_closed`, `_executing`, `_interrupt_requested`, `_pending_input`, `_input_value` | `closed`, `executing`, `signalled`, `prompt`, `reply` |
| the kernel process | `proc` |
| `kernel.state_changed` events | `ons`, `offs` |

`signals`, `sent`, `outcome` and `down` are history: what a property needs to
relate a step to a later one. No guard but `down` (the service is gone) reads
them. `signals` says of each execution what was tried on it while it ran: a
signal that was `sent`, one that `failed`, or `none`.

An interrupt whose signal fails is four steps, as in the code: the adapter sets
its mark under `_control_lock` and leaves the lock by the error (`IntSendFails`),
clears the mark without the lock (`IntClear`), the supervisor discards the
identity (`IntDiscard`), then turns the kernel off (`IntDied`) and tells of it.
Between the first two the thread of the execution may read the mark and report
the execution as interrupted although no signal reached it, and the clearing may
wipe the mark of a later interrupt. A teardown does the same with `_state_lock`
in hand (`CancelFails`): its window is open to the adapter alone, so every
section under that lock has the guard `StateFree`.

Handlers that end where they began, changing nothing, are not actions: a start
while the kernel is on, an interrupt of something that does not execute, a poll
of a healthy kernel, a stop of a kernel whose start failed, a restart that does
not name the current runtime or gives the new notebook the old one's identity.

Abstractions:

* The clients, workers and surfaces of one runtime come and go together. How
  they do in detail is the subject of `ClientOperations`; here a cleanup works,
  or leaves them behind.
* The reply of the kernel, good or bad, time limit and protocol errors
  included, is "replied"; what a reply contains decides nothing in this module.
* A start whose kernel does not become ready shuts the process down; if that
  fails too, a live process remains that nobody knows of (`ShutdownMayFail`).
* The operations of plugin clients do not take the lane: see `ClientOperations`.
* An error of `activate_runtime` between spawn and publication is left to
  `ClientOperations`, which has the worker that causes it (`Activate`).
* The adapter's own `_lock` is only ever taken by the lane holder.
* `ExecAcquire` looks at the kernel and at its handle in one step. The code reads
  the handle a second time without `_state_lock`; an interrupt that turns the
  kernel off in between leaves the execution with none, and with an
  `AttributeError` after it was published.

### EventStream and the code

One controller and all the services it may meet, one after the other. The lane
of the supervisor appears as the changes it makes and the events it still owes
for them (`doing`, `owes`): it changes its state under `_state_lock` and appends
afterwards, so that an inspection may find the change without the event.
`Supervisor` has the same changes step by step (`ExecOff`, `RestartPublish`,
`RestartAnnounce`, ...); a restart is here a stop followed by a start.

| Code | Variables |
|---|---|
| `supervisor_id`, `EventLog` | `epoch`, `logs` (all events; the deque holds the last `Capacity`) |
| what `health()` shows | `kernel`, `on`, `runtime`, `active` |
| `EventsHandler.get`: `cursor`, `pending` | `stream.cursor`, `stream.until` (the last event of the batch) |
| bytes and scheduled callbacks of one connection | `wire` |
| `event_connection`, `transport_state` | `link`, `transport` |
| `_connect_generation`, the requests to `/v1/health` | `generation`, `inspections` |
| `supervisor_id`, `event_sequence`, kernel, runtime and running executions of the controller | `sup`, `seq`, `view` |
| requests to start and stop, and their answers | `startAsked`, `startAnswer`, `stopAsked`, `stopAnswer` |

`base` and `received` are history: where the last resynchronisation left the
cursor, and what was handled since. An event is the kernel or execution it is
about and its kind; everything else that is appended is `other`. Keepalives,
invalid events, events of other notebooks, input, clients and surfaces are left
out. The off event that `interrupt_execution` appends beside the lane is left to
`Supervisor`: it may overtake later events of the lane, and then it is the log,
not the stream, that misleads.

### ClientOperations and the code

Three threads per client (an operation, a close, an interrupt), one for the death
of its surface, one for the lifecycle requests, which come one at a time, and one
that takes the lane for executions. `at` says where each is.

| Code | Variables |
|---|---|
| `_operation_lock` | `lane` |
| `_current_kernel`, its state, `_current_runtime` | `kernel`, `on`, `runtime` |
| `_clients`, the kernel of a client and of its worker | `client`, `home` |
| `_closing_clients`, `_client_operations` | `fenced`, `recorded` |
| `PluginWorkerManager._workers`, `_runtime` | `workers`, `active` |
| the worker process of a client, its terminal surface | `process`, `surface` |
| `execute` between the hand-off and the client it makes | `handoff` |
| locals of the teardown and of `teardown_runtime` | `request`, `target`, `todo`, `stopped`, `failed` |

`stop` of the manager pops a worker, stops its handle and puts it back if that
raised, while `teardown_runtime` stops first and pops afterwards, from a
snapshot: both are step by step, with everybody else in between. The handle's
lock is `Holds`. Followup and complete are one operation; what a plugin can do
(`Terminal`, `Working`, `Interruptible`) is a set of clients. Results that the
supervisor rejects end the client although the worker lives (`OpInvalid`).
Observing code is left out: deltas, descriptions, events.

The kernel goes off in four ways. A stop or restart tears down first
(`StopBegin`, `StopGivesUp`); the kernel may then refuse to stop, and stays on
with its workers gone (`KernelOff`, `KernelStarts`). The poll and an execution
that find it dead tear down what belonged to it (`PollFindsDeath`,
`ExecFindsDeath`). complete() and an interrupt that fails turn it off and tear
down nothing (`CompleteTurnsOff`, `InterruptTurnsOff`). The last may happen with
the lane held by anybody, and is not tied to an execution, which may have ended
when the failure is dealt with. `untorn` is history: the kernel was turned off
that way and nothing was torn down since. `target` is the teardown's: an
execution that finds its kernel dead does its teardown in its own thread with the
lane it has, which is shown as the one `Lifecycle` thread taking over (and so
only while no lifecycle request waits for the lane).

### WorkerChannel and the code

| Code | Variables |
|---|---|
| the service, the outcome of the wait for readiness | `owner`, `start` |
| `_fenced`; `_MessageReader._pending`, its failure, the channels it fills | `fenced`; `pending`, `failure`, `box` |
| `request()`, `interrupt()`, `stop()` | `request`, `interrupt`, `stop` with `lastRequest`, `lastInterrupt` |
| the pipes | `toChild`, `toParent` |
| the process, its receive thread, its main thread and queue | `alive`, `receiver`, `main`, `task`, `tasks` |
| `active` of the child | `active`, `interrupted` |
| the thread that ends a worker whose owner is lost | `watchdog` |

`hooked` and `answered` are history. A frame is a kind and an identity; limits,
malformed frames and the tail of stderr are left out. A plugin answers, refuses,
fails, hangs (in its import, its handler, its interrupt hook and its close), or
brings the process down. The pipes break when either side dies,
and with it the receive thread may crash (`ReceiverCrashes`, a listed hazard).

### TerminalStream and the code

A byte is its position in what the program wrote, a chunk an interval.

| Code | Variables |
|---|---|
| the PTY and its program | `app`, `written` |
| `_drain`: where it is, what it has read; `aftercursor`; `replay` | `reader`, `taken`; `next`; `replay` |
| the attachment and the queue each had | `attachment`, `queue` |
| `closing`, `fatal_reported`; `close()` in progress | `closing`, `reported`; `closer` |
| the manager's and the supervisor's table | `listed`, `known` |
| the WebSocket handler, its `_pump`, its socket | `handler`, `pump`, `socket`, `inbox`, `wire` |
| the bridge, its connection, `_last_cursor`, why it ended | `bridge`, `conn`, `shown`, `verdict` |

`sent` is history. Geometry, the raw mode of the terminal and the launcher are
left out; input and resizing are messages without effect on the stream, and of a
resize's acknowledgement only its failure is kept.

A message to a socket that is gone is lost, and raises `WebSocketClosedError` in
whoever sends it. The pump and `_failure` catch it. The answer to an attach and
the acknowledgement of a resize do not: the handler then raises out of
`on_message` (state `raised`), has no pump if it was attaching, and its
`on_close` is never called. That `on_close` does not follow is what Tornado's
receive loop does, which is not under `src/`; the model takes it as given.
Nothing detaches such a connection, and its surface is busy until it is closed,
or until a full queue ends the attachment.

A full queue ends the attachment, and the notice that says so goes to the same
queue: it is lost, unless the pump made room between the two (`NotifyLate`). So a
slow viewer is told only if it was not slow any more, and no property says that
it is told.

### EditorActions and the code

| Code | Variables |
|---|---|
| `_clients`, `_owners`, `_connections` | `registered`, `owner`, `connections` |
| an action: `editor_id`, outcome, what was fetched, its deadline | `editor`, `result`, `fetched`, `complete`, `due` |
| the thread in `submit()` | `waiter` |
| an editor's event stream and its number | `up`, `link` |
| `Delivery`: `seen`, its records and their requests, the acknowledgement | `record`, `current`, `offset`, `call`, `ack` |
| does the notebook have the client and its cell | `owns` |

`news` is an action on its way to Delivery, `applied` history. A chunk is a
number below `Size`. Left out: the limit of 32 pending actions and the pruning of
finished ones, the check of the service's identity, the third retry, actions
whose text comes with the event, and the framing of the socket.

### What fails, and when

`Die` kills a process between any two steps. The constants say which calls may
fail: `SignalMayFail` (a signal to a process that lives), `ShutdownMayFail`
(graceful and forced shutdown), `CleanupMayFail`. A thread is never lost: the
code has no way to kill one. In `ClientOperations` a worker dies at any moment, a
stop may end in a kill (`StopMayFail`) and a surface may not close
(`SurfaceMayFail`). In `WorkerChannel` worker and service die at any moment, and
each timeout may come before, with or after its answer. In `TerminalStream`
sockets are lost at any moment and a program may survive its stop
(`StopMayFail`). In `EditorActions` answers are lost, links break and are found
gone early or late, and the deadline passes at any moment.

## 3. Runs

| Run | Shows | Instance | States |
|---|---|---|---|
| `lane` | `LaneInvariant` (which has `TypeOK`), `ActiveHasRunner`, `NoStateEventLost`, `RepliesReachTheirPrompt`, `InterruptedGotSignal`, `RuntimesDoNotOverlap` | all requests, 2 request threads and the service, 1 kernel, 2 executions, 2 prompts (beside a close 2 together, `FewBesideClose`); everything may fail; threads are symmetric | 0.78 M |
| `liveness` | `NoOrphan`, `OneProcess`, `ImplementsKernelGenerations`, `TeardownTakesEffect`, `DeathIsObserved`, `DeathEndsExecution` | 2 request threads and the service, 2 kernels, 1 execution, 1 prompt; no close, no symmetry, nothing fails | |
| `stream` | `StreamInvariant` (which has `TypeOK`), `NothingLostOrRepeated`, `TruthUnlessAnswered`, `CursorNeverGoesBack`, `CatchesUp` | an editor that also starts and stops; 2 services, a log of 2 of 4 events, 1 kernel, 1 execution, 2 connections | 0.65 M |
| `clients` | `TypeOK`, `NoWorkerEscapes`, `RetiredIsDead`, `WorkersGoWithKernel`, `CloseCutsWork` | 2 clients, of which one has a terminal and long, interruptible operations; 2 kernels; 3 threads at work at a time, fewer beside a long execution or once the kernel is off beside every teardown (`FewAtOnce`); stops and surfaces may fail | 2.0 M |
| `worker` | `TypeOK`, `InterruptHitsItsTarget`, `WorkerIsFree`, `AnswersAreExpected`, `FencedIsDead`, `CallsEnd`, `OwnerLossEndsWorker` | 3 requests, 2 interrupts | 0.28 M |
| `terminal` | `TypeOK`, `StreamContiguous`, `BridgeNeverConfused`, `NoProcessAfterClose`, `AttachmentHasOwner`, `ExitIsNoticed` | 3 bytes, a window of 2, a queue and a wire of 1, 2 connections; a close meets 2 of the bytes (`FewAtClose`); a stop may fail | 2.1 M |
| `editor` | `TypeOK`, `OutcomeIsHonest`, `AppliedOnce`, `ConnectedIsReachable`, `SubmitIsAnswered` | 1 editor, 2 chunks, 3 links, 2 records | 0.58 M |
| `late_interrupt`, `refused_stop`, `death_cleanup`, `late_orphan`, `reconnect_runtime` | a disagreement each, section 6 | the smallest instance that shows it | |

### What the properties say

* `NoStateEventLost`, `RepliesReachTheirPrompt`, `InterruptedGotSignal`: each
  change of the kernel's state is in the feed or owed to it by a thread; a reply
  is given to the prompt it names; an execution that ends as interrupted had a
  signal while it ran. Where signals may fail (`SignalMayFail`) one that was tried
  on that execution and failed is enough, and all the code gives: an execution
  nobody tried to interrupt is never reported as interrupted, and where signals do
  not fail the one reported had its signal. Both halves are proved.
* `TruthUnlessAnswered`: a controller that has caught up shows what the service
  has, unless an answer to a command of its own has changed its view. An answer
  carries no sequence: one that comes after the off event of the same kernel
  shows it as on. Nothing in the documents promises otherwise; it is listed as a
  hazard.
* `NoWorkerEscapes`: a worker that runs is in the manager's table, or a thread
  that will stop it has it in hand. `WorkersGoWithKernel`: a worker that nobody is
  about to stop belongs to the kernel there is, never to an earlier one; and when
  a stop, or the cleanup of a dead kernel, is over and the kernel is off, no
  worker goes on. The exception is the kernel that complete() or a failed
  interrupt turned off (`untorn`): its workers do go on, until the next teardown,
  which reaches them all the same. `CloseCutsWork`: a close does not wait for the
  lane with its client's operation going on behind it.
* `InterruptHitsItsTarget`: the plugin's interrupt hook never runs for a request
  that was answered. `AnswersAreExpected`: an answer that comes after its caller
  gave up does not break the channel for others. `OwnerLossEndsWorker`: a worker
  whose plugin was imported ends once the service is gone, even if the handler
  never returns, unless the plugin's interrupt hook holds the receive thread for
  ever, that thread crashed, or the worker is closing after a shutdown. Of a worker
  whose import hangs nothing is claimed: import and factory run before there is a
  receive thread or a watchdog, and it outlives the service.
* `StreamContiguous`: window, queue, wire and screen have the stream without a
  gap or a repetition, over attachments and lost sockets; of what the program
  wrote between the reader's last empty read and its look at the process the
  stream has nothing (`DrainLook`, a listed hazard). `BridgeNeverConfused`: the
  bridge never ends for an error of the protocol. `AttachmentHasOwner`: an
  attachment is given back when its connection is lost, unless the handler raised
  over an answer to a socket that was gone already.
* `OutcomeIsHonest`: what an application is told of its action is true, then and
  later. `AppliedOnce`: and happened once at most.

### Why the bounds are enough

Every handler works on the current kernel and at most one it replaces, so two
generations show every meeting of an old and a new kernel; at most one execution
runs, so two show what reaches the next one; two prompts show a reply to the
earlier. Two request threads beside the service give the lane holder, one that
waits for it, and one that goes around it; the `lane` run, which has them all and
every failure, has one kernel (a restart fails to start its second), the
`liveness` run two. Beside a close there are two executions, or one and its
prompt: a state with more is checked and not gone on from (`FewBesideClose`), since
a close meets the execution that runs, its prompt, and the one that is queued.

For the stream: a window smaller than the log makes cursors expire before the
stream is opened and while it is served; two connections let a superseded
inspection be answered late; two services let a cursor of the one be used on the
log of the other; the bounds on kernels and executions are of both services
together.

For the clients: two of them, one busy and one not, show a snapshot that has one
that another thread is stopping, and a table that changes in between; the second
kernel meets the workers and fences the first one left. A state with more than
three threads at work is checked and not gone on from (`FewAtOnce`): any three
of operation, close, interrupt, surface, execution and teardown meet, which is
what each of the listed races takes. Fewer do beside an execution that holds the
lane without a hand-off, and on a kernel that is off while its workers go on: no
operation begins on it. For the worker: three requests are one before, one at,
and one after an interrupt; the second interrupt meets the first one's late
answer. For the terminal: three bytes in a window of two drop the first, cut a
chunk in half and expire a cursor; a queue of one is full at once. A close
empties nothing and begins nothing: of a surface that closes, states with more
than two bytes are checked and not gone on from. The editor's three links are
two that overlap and one that comes after; its two records are a fetch that was
lost and the one that repeats it.

What is proved does not depend on any of these bounds.

Deadlock is checked in every run of the supervisor: `Exit` is the only step of a
service that has closed, and the environment may always make a request
otherwise, until the bounds are used up; a thread that waits for the lane can
give up. The other modules stop for good, once their bounds are used up, where
the system rests: nobody is obliged to connect, to write or to ask. Their runs
say `CHECK_DEADLOCK FALSE`.

### Fairness

In `EventStream`, `FairSpec` is weak fairness of the handler's loop (it wakes
when an event is appended, and every second) and of the callbacks Neovim's event
loop runs. Nothing obliges anyone to connect or to stay connected: `CatchesUp`
says that a controller that stays connected gets each event, or is told that the
stream ended.

In `Supervisor`, `FairSpec` adds weak fairness of the steps each thread's handler takes
(`ThreadStep`) and of the service's poll. The operating system schedules
runnable threads; the lane is requested with a timeout by the one kind of waiter
that matters (stop, restart, close), so weak fairness of "get the lane, or time
out, or give up" is what the code guarantees, and no waiter is assumed to win
the lane against others. `poll_kernel` runs four times a second and gives up at
once if the lane is held: weak fairness of `PollAcquire` says that it finds a
lane that stays free, and nothing about one that is never free when it looks.
Nothing obliges anyone to make a request, the code in a kernel to reply, or a
process to die (`WorkerChannel`, `EditorActions`: nor a plugin to answer or an
editor to come back). The liveness run makes no close request: a restart that runs
after close() publishes a kernel that nobody polls (section 6).

In `WorkerChannel`, `FairSpec` lets the threads run that wait for nobody's good
will: the reader of the pipe and the callers it wakes, the sends, the receive
thread outside the plugin's interrupt hook (`~AtHook`), and the watchdog. A call
of `request()` has no timeout in the code for some operations, and is given none
here: `CallsEnd` rests on the reader noticing that the process is dead. An
interrupt has one. Nothing of the plugin's own need end: not its import, its
factory, its handler, its hook, nor its close.

In `EditorActions`, time passes (`Lapse`) and the thread of `submit()` wakes
(`Answer`). Each chunk that is fetched renews the lease: `due` is still false
after it. That the deadline passes at last is fair because the fetches are
finitely many (`Size` chunks for each of `MaxRecord` records); an editor that
begins to fetch over and over is the hazard listed at `editor_actions.py:131`, and
no property is claimed of it.

`TerminalStream` and `ClientOperations` state no fairness and claim no liveness:
a close waits for the lane without a limit, and for the work of others, so that
whether it ends depends on code of users that may run for ever.

## 4. Proofs

All for any set of threads, any bounds, and failing signals, shutdowns and
cleanups; the assumptions are the named ASSUMEs of `Supervisor`: the service is
not a request thread, nobody (`NoThread`) is not a thread, the bounds are
natural numbers, the switches are Booleans.

| Theorem | Says |
|---|---|
| `LaneInvariantHolds` | `Spec => []LaneInvariant` |
| `TypeCorrect` | `Spec => []TypeOK` |
| `LaneExclusive` | a thread is inside a handler that needs the lane exactly when it holds it |
| `ActiveExecution` | `ActiveHasRunner`: what health() shows as active is the lane holder's execution, and the prompt is its prompt |
| `OneRuntime` | `RuntimesDoNotOverlap` |
| `KernelRefinement` | `ImplementsKernelGenerations` |

`TypeOK` is not inductive: `ExecFencePrompt` marks the thread's execution as one
that is asked to stop, and that a thread at that place has one its type does not
say; `Publish` needs the thread's kernel to be a fresh generation. So the invariant
says, by the place a thread is at, what it may rely on:

* `LaneIsExclusive`: places inside the lane belong to its holder. It makes every
  other statement about "the thread at this place" a statement about one thread.
* `KernelInvariant`: the lane holder's kernel is the current one, except during a
  replacement, when the kernel is off and the thread's is newer than any.
* `DependentsInvariant`: what is left of clients belongs to the current runtime,
  and it is gone where the runtime is about to be forgotten.
* `ExecutionInvariant`: an execution is published exactly where a thread runs it.

`SupervisorTyping` proves for each action that it keeps the types,
given what the thread at its place refers to (`References`, `ActiveReferences`).
`SupervisorProofs` proves the other four groups one at a time, each with one
step per action, then `StepInvariant` joins them and the theorems follow with
PTL. The refinement needs `QuietIsOff` and `FreshIsNew` at the one step that
turns a kernel on, and stutters or turns off everywhere else.

`SupervisorSafetyProofs` adds four invariants that are inductive beside
`LaneInvariant`:

| Theorem | Says |
|---|---|
| `StateEvents` | `Spec => []NoStateEventLost` |
| `Replies` | `Spec => []RepliesReachTheirPrompt` |
| `Interrupts` | `Spec => []InterruptedGotSignal`, whether or not signals may fail |
| `ProcessInvariantHolds` | `Spec => [](LaneInvariant /\ ProcessInvariant)`, if signals and shutdowns succeed |
| `ProcessesReached` | `Spec => []NoOrphan`, if signals and shutdowns succeed |
| `ProcessesAlone` | `Spec => []OneProcess`, if signals and shutdowns succeed |

* `EventInvariant`: an off event, appended or about to be, is of a kernel that is
  off (`ToldIsOff`, `TellerIsOff`), and until a new kernel is announced it is on
  and nobody interrupts it (`AnnouncedIsOn`, `InterruptedIsOld`). Without the
  last two an interrupt that finds its kernel dead could tell of its end before
  the lane tells of its beginning.
* `PromptInvariant`: prompts are numbered in the order they are made, so that the
  slot of a kernel names one prompt (`PromptIsUnique`), a reply in the slot is to
  that prompt, and what was sent is to prompts that are closed (`SentIsClosed`).
* `SignalInvariant`: an adapter that executes has a thread inside it, and one
  that was signalled since was signalled by someone who tried it on that thread's
  execution (`SignalIsDelivered`); a result is only held by the thread that runs.
* `ProcessInvariant`: a live process is the current kernel's, which is on, or
  that of the thread that started it (`AliveIsReached`). It needs what each
  thread knows of the kernel it captured, perhaps long ago (`ThreadKnows`): that
  it existed, and is dead where it was seen dead, also for the interrupting
  threads, which are not in the lane.

The proofs go by what a step may do, not by step: a lemma per kind of change (of
a kernel, an event, a prompt, a process), a lemma that says which actions make
it, and one that the kind keeps the invariant.

The last three theorems assume `~SignalMayFail` and `~ShutdownMayFail`. They are
false without: a kernel whose forced shutdown fails lives on with its adapter
closed (a listed hazard), and nothing in the code would find it again. They are
about the ordinary case, in which the owner of a process can signal and kill it;
failing cleanups and starts, and kernels that die at any moment, are not excluded.

### The event stream

For any capacity of the log and any number of services, events, kernels,
executions and connections, from `CapacityAssumption`, `BoundsAssumption` and
`SwitchAssumption`:

| Theorem | Says |
|---|---|
| `StreamInvariantHolds` | `Spec => []StreamInvariant` |
| `EventsHandledOnce` | `Spec => []NothingLostOrRepeated` |
| `CursorMovesForward` | `Spec => CursorNeverGoesBack` |
| `FollowersSeeTruth` | `MCSpec => []TruthUnlessAnswered` |

`NothingLostOrRepeated` alone is not inductive: that the next event on the wire
is the next event of the log needs `CarriesItsLog` (what a stream carries is in
the log of the service that wrote it, logs only grow, and one that has not begun
is empty). That the cursor never goes back needs `OneAuthority`: at most one
inspection may change the view, only while nothing is followed, and what it was
told of the followed service is not older than the cursor. The proof treats
together all steps that leave the controller alone (`SupervisorStep`,
`RestingController`), and then each step of the stream and of the controller.

That a controller which has caught up shows the truth seems to need the fold of
the whole log. `TruthInvariant` does without: a picture of the service as of its
n-th event, be it a snapshot under way or the view, is wrong about those things
alone of which an event is still to come, appended after n, owed, or sure to be
owed (`PictureIsTrue`, `KernelToCome`, `ExecToCome`). A snapshot that was taken
ahead of its event is covered: its event is to come. What the lane owes, and what
it told last about a kernel or an execution, is the case (`OwedIsTrue`,
`LastIsTrue`), so that the view is right about what it has just been told.
`Tells` says of each step of the service that what it changes is then to come.

### Client operations

For any clients, whatever their plugins can do, any number of kernels, and stops
and surfaces that may fail (`ClientAssumption`, `PluginAssumption`,
`BoundsAssumption`, `SwitchAssumption`):

| Theorem | Says |
|---|---|
| `ClientInvariantHolds` | `Spec => []ClientInvariant` |
| `TypeCorrect` | `Spec => []TypeOK` |
| `WorkersAreReachable` | `Spec => []NoWorkerEscapes` |
| `RetiredClientsAreDead` | `Spec => []RetiredIsDead` |
| `WorkersEndWithKernel` | `Spec => []WorkersGoWithKernel` |
| `ClosesCutWork` | `Spec => []CloseCutsWork` |

None of the properties is inductive. `RetiredIsDead` needs that whoever is about
to retire a client has been through the stop of its worker (`RetireIsLast`,
`SurfaceStopsFirst`), and that a worker which left the table is dead or being
stopped (`RetiredIsGone`). `WorkersGoWithKernel` needs `TeardownReachesAll`: a
worker that runs during a teardown is in what is left of the snapshot, or was
put back by a stop that killed it, and nobody can start one, since the lane is
held (`LaneHeld`). Where the kernel was turned off beside every teardown it
needs more: the workers that go on are of the kernel there still is
(`LooseAtHome`), and a new one is published only where none is left.
`CloseCutsWork` needs that who fences a client sees the operation that was
recorded before (`OperationRecorded`, `CloseFences`). The proof takes these
groups one at a time, each with one step per action.

### The worker's channel

For any number of requests and interrupts (`BoundsAssumption`):

| Theorem | Says |
|---|---|
| `ChannelInvariantHolds` | `Spec => []ChannelInvariant` |
| `TypeCorrect` | `Spec => []TypeOK` |
| `InterruptsHit` | `Spec => []InterruptHitsItsTarget` |
| `WorkerIsNeverBusy` | `Spec => []WorkerIsFree` |
| `FencedWorkersAreDead` | `Spec => []FencedIsDead` |
| `LateAnswersAreExpected` | `Spec => []AnswersAreExpected` |

`WorkerIsFree` relates the handle to a process that is two pipes away. It follows
from `WaitsForIt`: while the worker is on a request, or its answer is under way,
the handle waits for that request; and a request is sent once (`SentOnce`), is
answered once and as the history says (`AnswersAreTrue`), and is the only one in
the worker (`OneActive`).

`AnswersAreExpected` is about an identity that travels: through the call that
registers it, the pipe to the worker, the queue between the worker's threads, its
hands, and the pipe back. `AnswerInvariant` says that an identity is in one of
these places at a time, and there once (`Apart`, `Once`), and that from the first
to the last the reader waits for it (`Expected`), whether or not the caller has
given up.

### The terminal

For any number of bytes and connections and any limits (`BoundsAssumption`):

| Theorem | Says |
|---|---|
| `OwnerInvariantHolds` | `Spec => []OwnerInvariant` |
| `NoProcessIsLeft` | `Spec => []NoProcessAfterClose` |
| `AttachmentIsOwned` | `Spec => []AttachmentHasOwner` |
| `ExitsAreNoticed` | `Spec => []ExitIsNoticed` |
| `StreamInvariantHolds` | `Spec => []StreamInvariant` |
| `TypeCorrect` | `Spec => []TypeOK` |
| `StreamIsContiguous` | `Spec => []StreamContiguous` |
| `BridgeIsNeverConfused` | `Spec => []BridgeNeverConfused` |

A surface that closes has no attachment and gets none; it is given up only after
its program was stopped (`ClosedForGood`). The reader begins with the program and
leaves its loop only for a surface that is closed or is to be closed
(`ReaderOutlivesProgram`).

The stream is four sequences of intervals, each of which goes on where the next
one ends: window, queue, wire, and what the terminal has shown. `StreamInvariant`
says of each that it is linked and in order and what it borders on
(`WindowInvariant`, `QueueInvariant`, `WireInvariant`, `BridgeInvariant`), and
that what the reader still holds comes after all of them. `BridgeNeverConfused`
needs in addition that the answer to an attach is the first thing on the wire,
and stays so until the bridge has read it. The lemmas about sequences of messages
(a message added, the first one taken, a chunk cut at the cursor) are proved
first and cited at each step.

### Editor actions

For any editors, chunks, links and records, without fairness:

| Theorem | Says |
|---|---|
| `ActionInvariantHolds` | `Spec => []ActionInvariant` |
| `TypeCorrect` | `Spec => []TypeOK` |
| `OutcomesHonest` | `Spec => []OutcomeIsHonest` |
| `AppliedAtMostOnce` | `Spec => []AppliedOnce` |
| `ConnectedReachable` | `Spec => []ConnectedIsReachable` |

`AppliedOnce` rests on `OneFetch`: only the current record can have a request
that matters, and a record once dropped never becomes current again.
`OutcomeIsHonest` joins the service's view to the editor's: an outcome without an
acknowledgement is decided by `fetched`, and nothing is applied that was not
fetched (`ResultIsTrue`, `RecordIsTrue`).

## 5. Model-checked only

* Liveness (`TeardownTakesEffect`, `DeathIsObserved`, `DeathEndsExecution`,
  `CatchesUp`, `CallsEnd`, `OwnerLossEndsWorker`, `SubmitIsAnswered`): out of the
  prover's reach.
* The five disagreements of section 6, which are counterexamples.

Every invariant and every action property that a passing run checks, and the
refinement, is proved as well. `NoOrphan` and `OneProcess` are proved where
signals and shutdowns succeed, which is also where they are checked.

## 6. Where the code and its documents disagree

1. `late_interrupt`. The identity of the execution to interrupt is checked under
   `_state_lock`; the signal is sent after it was released, to whatever the
   adapter executes then. Invariant 60 of `docs/1.0/invariants.md` says that an
   interrupt never falls through to newer work.
2. `refused_stop`. A stop or restart interrupts the active execution first, and
   an error of that interrupt is the answer: in the moments between publishing
   an execution and the adapter beginning it, and between its return and the
   retirement, the request is refused with a conflict and the kernel stays on.
   ADR 0043 says that teardown escalates and retries. The execution also stays
   marked: its later prompts are answered with an interrupt.
3. `death_cleanup`. A completion request that finds the kernel dead turns it off
   without retiring what belonged to it, and the poll looks only at kernels that
   are on. `docs/1.0/architecture/lifecycle-reliability.md` says that clients,
   surfaces and active work retire. `ClientOperations` has the same step
   (`CompleteTurnsOff`), and the like of a failed interrupt; how long workers may go
   on then is what `WorkersGoWithKernel` says.
4. `late_orphan`. close() waits for a start in progress, so as to leave no late
   orphan, but a restart or start that waits for the lane at that time runs
   after it.
5. `reconnect_runtime`. A connection that ends kills the requests in flight. If
   one of them was a start that succeeded, the controller reconnects, keeps its
   view because its cursor can be replayed, and replays that the kernel is on;
   the runtime is in the snapshot it read and in no event, so it stays unknown,
   and a restart is refused for want of it. The same document as in 3 says that a
   reconnect restores truth.

## 7. Plan

`Supervisor`, `EventStream`, `ClientOperations`, `WorkerChannel`,
`TerminalStream` and `EditorActions` are done. What is left, in this order:

1. Proofs: the modules assume of each other what is a property of the other
   (the table of section 2). The lemmas that would join them, first of all that a
   worker's end in `ClientOperations` is what `FencedIsDead` promises.
2. `CellLifecycle`: requests, events and marks of a cell, with the controller's
   events as its input.
3. `NotebookModel`: the parser's line automaton as an operator, checked against a
   reference definition over all short inputs.
4. The local service: start, readiness, crash and stop of the process a Neovim
   owns.
5. `EventStream` with the events of clients and surfaces.

A hazard in `PROJECT.json` that no property covers has a note that says why: most
are faults the code does not handle, so that a property about them would only
restate that it does not.

## 8. Not modelled, and why

Protocol validation, conversion, skill installation and the bundled VisiData
provider are sequential transformations without shared state. Presentation is
Neovim drawing. Discovery and configuration are one bounded subprocess each and
appear in `Supervisor` as a step that may fail. History, completion and marks are
bounded data structures of one thread of callbacks. Cell lifecycle, notebook
model and the local service are in the plan and not modelled yet. What the
modelled parts leave out is said in section 2 with each of them; of the frontend
transport only the connection states are modelled, not the assembly of curl's
arguments nor the framing of SSE, and of the HTTP interface neither routing nor
validation.
