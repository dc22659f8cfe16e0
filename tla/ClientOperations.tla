--------------------------- MODULE ClientOperations ---------------------------
(***************************************************************************)
(* The plugin clients of the service (supervisor.py) and the manager of    *)
(* their workers (plugin_workers.py): operations and interrupts of a       *)
(* client, its closing, the death of its surface, and the lifecycle        *)
(* requests that take whole runtimes down, each in a thread of its own.    *)
(*                                                                         *)
(* The kernel is its generation; its process and its executions are those  *)
(* of Supervisor, its surfaces those of TerminalStream, and the handle of  *)
(* a worker that of WorkerChannel: a request holds its lock, a stop that   *)
(* finds it held kills, and after a stop the process is dead either way.   *)
(* One lifecycle request runs at a time.                                   *)
(***************************************************************************)
EXTENDS Naturals, FiniteSets

CONSTANTS
  Client,          \* identities of clients
  NoClient,
  Terminal,        \* those whose plugin is terminal_interactive
  Working,         \* those whose plugin has operations after the hand-off
  Interruptible,   \* those whose plugin can interrupt them
  MaxKernel,       \* kernels (bound)
  StopMayFail,     \* may a worker that is asked to stop need to be killed?
  SurfaceMayFail   \* may a surface outlast its close?

ASSUME ClientAssumption == NoClient \notin Client
ASSUME PluginAssumption ==
  Terminal \subseteq Client /\ Working \subseteq Client /\ Interruptible \subseteq Working
ASSUME BoundsAssumption == MaxKernel \in Nat
ASSUME SwitchAssumption == StopMayFail \in BOOLEAN /\ SurfaceMayFail \in BOOLEAN

\* Threads: three per client and two of the service; one more takes the lane for
\* the executions.
Op(c)        == <<"op", c>>
Close(c)     == <<"close", c>>
Interrupt(c) == <<"interrupt", c>>
Surface(c)   == <<"surface", c>>
Lifecycle    == <<"lifecycle", NoClient>>
Execute      == <<"execute", NoClient>>
Threads      == ({"op", "close", "interrupt", "surface"} \X Client) \cup {Lifecycle, Execute}
Nobody       == <<"nobody", NoClient>>

VARIABLES
  kernel, on,    \* _current_kernel: its generation and its state
  runtime,       \* _current_runtime, by its kernel; 0 for none
  active,        \* the manager's _runtime
  untorn,        \* history: the kernel was turned off beside every teardown, with none since
  lane,          \* who holds _operation_lock
  client,        \* per client: "none", "live" (in _clients) or "retired"
  home,          \* its kernel_id, and that of its worker
  fenced,        \* _closing_clients
  recorded,      \* clients with an entry in _client_operations
  workers,       \* the manager's _workers, by their clients
  process,       \* the worker: "none", "alive" or "dead"
  surface,       \* "open" while the supervisor knows it and its manager has it, or "none"
  at,            \* where each thread is
  handoff,       \* the client Execute makes
  target,        \* the client Lifecycle is at
  request,       \* what Lifecycle does: "start", "stop", "restart" or "poll"
  todo,          \* clients or workers Lifecycle still has to see to
  stopped,       \* workers its teardown has stopped
  failed         \* has its cleanup failed somewhere?

kernelVars    == <<kernel, on, runtime, active, handoff, untorn>>
clientVars    == <<client, home>>
workerVars    == <<workers, process>>
lifecycleVars == <<target, request, todo, stopped, failed>>
vars == <<kernelVars, lane, clientVars, fenced, recorded, workerVars, surface, at,
          lifecycleVars>>

Init ==
  /\ kernel = 0 /\ on = FALSE /\ runtime = 0 /\ active = 0 /\ untorn = FALSE
  /\ lane = Nobody
  /\ client = [c \in Client |-> "none"] /\ home = [c \in Client |-> 0]
  /\ fenced = {} /\ recorded = {} /\ workers = {}
  /\ process = [c \in Client |-> "none"] /\ surface = [c \in Client |-> "none"]
  /\ at = [t \in Threads |-> "idle"]
  /\ handoff = NoClient /\ target = NoClient
  /\ request = "start" /\ todo = {} /\ stopped = {} /\ failed = FALSE

Subject(t) == IF t = Lifecycle THEN target ELSE t[2]
Goes(t, place) == at' = [at EXCEPT ![t] = place]
Kill(c) == process' = [process EXCEPT ![c] = "dead"]
Free == lane = Nobody /\ UNCHANGED lane

-----------------------------------------------------------------------------
(* PluginWorkerManager.stop and the handle's stop, in the thread t.  Where  *)
(* it goes on depends on whether it holds the lane (_close_client) or not. *)

\* Who holds the lock of a worker's handle.
Holds(t, c) ==
  \/ t = Op(c) /\ at[t] = "working"
  \/ Subject(t) = c /\ at[t] \in {"stopping", "stopping item"}
HeldByAnother(t) == \E u \in Threads \ {t} : Holds(u, Subject(t))

\* What follows a call of _close_client that returned; after one that raised the
\* thread answers with the failure.
Returned(t) == IF t = Lifecycle THEN "each" ELSE "idle"

Stopped(t) == Goes(t, IF lane = t THEN "retire" ELSE "wait")

\* Only the thread of a surface's death goes on after a stop that raised.
StopRaises(t) ==
  IF lane = t
  THEN lane' = Nobody /\ Goes(t, "idle")
  ELSE Goes(t, IF t[1] = "surface" THEN "wait" ELSE "idle") /\ UNCHANGED lane

\* A worker that is not in the table is absent already.
StopPop(t) ==
  /\ at[t] = "pop"
  /\ IF Subject(t) \in workers
     THEN workers' = workers \ {Subject(t)} /\ Goes(t, "popped")
     ELSE Stopped(t) /\ UNCHANGED workers
  /\ UNCHANGED <<kernelVars, lane, clientVars, fenced, recorded, process, surface, lifecycleVars>>

\* The handle: a dead worker is absent, a busy one is killed, another is asked.
StopAtOnce(t) ==
  /\ at[t] = "popped"
  /\ process[Subject(t)] = "dead" \/ HeldByAnother(t)
  /\ Kill(Subject(t)) /\ Stopped(t)
  /\ UNCHANGED <<kernelVars, lane, clientVars, fenced, recorded, workers, surface, lifecycleVars>>

StopAsk(t) ==
  /\ at[t] = "popped"
  /\ process[Subject(t)] = "alive" /\ ~HeldByAnother(t)
  /\ Goes(t, "stopping")
  /\ UNCHANGED <<kernelVars, lane, clientVars, fenced, recorded, workerVars, surface, lifecycleVars>>

\* It has left, or it did not, was killed, and its entry comes back.
StopEnds(t) ==
  /\ at[t] = "stopping"
  /\ Kill(Subject(t))
  /\ \/ Stopped(t) /\ UNCHANGED <<lane, workers>>
     \/ /\ StopMayFail \/ process[Subject(t)] = "dead"
        /\ workers' = workers \cup {Subject(t)} /\ StopRaises(t)
  /\ UNCHANGED <<kernelVars, clientVars, fenced, recorded, surface, lifecycleVars>>

-----------------------------------------------------------------------------
(* _close_client, in whatever thread: it holds the lane to its end.        *)

Leave(t) == lane' = Nobody /\ Goes(t, Returned(t))

TakeLaneFor(t, first) ==
  /\ at[t] = "wait" /\ lane = Nobody
  /\ IF client[Subject(t)] # "live"
     THEN Goes(t, Returned(t)) /\ UNCHANGED lane
     ELSE lane' = t /\ Goes(t, IF t[1] = "surface" THEN "retire" ELSE first)
  /\ UNCHANGED <<kernelVars, clientVars, fenced, recorded, workerVars, surface, lifecycleVars>>

\* Mutant: the client is retired first thing.
TakeLaneToRetire(t) == TakeLaneFor(t, "retire")
TakeLane(t) == TakeLaneFor(t, "surfaces")

CloseSurfaces(t) ==
  LET c == Subject(t) IN
  /\ at[t] = "surfaces"
  /\ \/ surface' = [surface EXCEPT ![c] = "none"]
        /\ Goes(t, "pop") /\ UNCHANGED lane
     \/ /\ SurfaceMayFail /\ surface[c] = "open"
        /\ lane' = Nobody /\ Goes(t, "idle") /\ UNCHANGED surface
  /\ UNCHANGED <<kernelVars, clientVars, fenced, recorded, workerVars, lifecycleVars>>

\* _retire_client of each of cs: a surface is forgotten even if it does not close.
RetireAll(cs) ==
  /\ client' = [c \in Client |-> IF c \in cs THEN "retired" ELSE client[c]]
  /\ surface' = [c \in Client |-> IF c \in cs THEN "none" ELSE surface[c]]
  /\ UNCHANGED home

Retire(t) ==
  /\ at[t] = "retire"
  /\ RetireAll({Subject(t)})
  /\ Leave(t)
  /\ UNCHANGED <<kernelVars, fenced, recorded, workerVars, lifecycleVars>>

Closing(t) ==
  \/ StopPop(t) \/ StopAtOnce(t) \/ StopAsk(t) \/ StopEnds(t)
  \/ TakeLane(t) \/ CloseSurfaces(t) \/ Retire(t)

-----------------------------------------------------------------------------
(* _client_operation.                                                      *)

OpAdmit(c) ==
  /\ at[Op(c)] = "idle" /\ c \in Working \ recorded
  /\ client[c] = "live" /\ c \notin fenced
  /\ on /\ home[c] = kernel
  /\ recorded' = recorded \cup {c} /\ Goes(Op(c), "admitted")
  /\ UNCHANGED <<kernelVars, lane, clientVars, fenced, workerVars, surface, lifecycleVars>>

\* The manager's table; a worker that is not in it any more is a conflict.
OpLookUp(c) ==
  /\ at[Op(c)] = "admitted"
  /\ IF c \in workers
     THEN Goes(Op(c), "called") /\ UNCHANGED recorded
     ELSE Goes(Op(c), "idle") /\ recorded' = recorded \ {c}
  /\ UNCHANGED <<kernelVars, lane, clientVars, fenced, workerVars, surface, lifecycleVars>>

\* The handle's lock; a worker that was stopped under it answers nobody.
OpBegin(c) ==
  /\ at[Op(c)] = "called" /\ ~HeldByAnother(Op(c))
  /\ IF process[c] = "alive"
     THEN Goes(Op(c), "working") /\ UNCHANGED workers
     ELSE Goes(Op(c), "cut off") /\ workers' = workers \ {c}
  /\ UNCHANGED <<kernelVars, lane, clientVars, fenced, recorded, process, surface, lifecycleVars>>

\* A result, or a refusal, which costs nobody anything.
OpAnswer(c) ==
  /\ at[Op(c)] = "working" /\ process[c] = "alive"
  /\ Goes(Op(c), "idle") /\ recorded' = recorded \ {c}
  /\ UNCHANGED <<kernelVars, lane, clientVars, fenced, workerVars, surface, lifecycleVars>>

\* The worker is gone, or fails, or gives no answer in time: it is dead after
\* that, and out of the table.
OpBreakLeaving(c, left) ==
  /\ at[Op(c)] = "working"
  /\ IF process[c] = "dead"
     THEN Goes(Op(c), "cut off") /\ UNCHANGED process
     ELSE Goes(Op(c), "failed") /\ process' = [process EXCEPT ![c] = left]
  /\ workers' = workers \ {c}
  /\ UNCHANGED <<kernelVars, lane, clientVars, fenced, recorded, surface, lifecycleVars>>

\* Mutant: a worker that failed is forgotten, not terminated.
OpBreakForgets(c) == OpBreakLeaving(c, "alive")
\* Mutant: it is fenced, and that is all.
OpBreakFences(c) == OpBreakLeaving(c, "fenced")
OpBreak(c) == OpBreakLeaving(c, "dead")

\* The supervisor rejects the result: the worker lives, and its client ends.
OpInvalid(c) ==
  /\ at[Op(c)] = "working" /\ process[c] = "alive"
  /\ Goes(Op(c), "failed")
  /\ UNCHANGED <<kernelVars, lane, clientVars, fenced, recorded, workerVars, surface, lifecycleVars>>

\* An operation that was cut off by the closing of its client is cancelled.
OpError(c) ==
  /\ at[Op(c)] \in {"cut off", "failed"}
  /\ fenced' = fenced \cup {c} /\ recorded' = recorded \ {c}
  /\ Goes(Op(c), IF at[Op(c)] = "cut off" /\ c \in fenced THEN "idle" ELSE "wait")
  /\ UNCHANGED <<kernelVars, lane, clientVars, workerVars, surface, lifecycleVars>>

Operation(c) ==
  \/ OpLookUp(c) \/ OpBegin(c) \/ OpBreak(c) \/ OpError(c)

-----------------------------------------------------------------------------
(* close_client, interrupt_client and terminal_surface_failed.             *)

\* A client that works is stopped before the lane is asked for.
CloseBeginAt(c, busy) ==
  /\ at[Close(c)] = "idle" /\ client[c] = "live"
  /\ fenced' = fenced \cup {c}
  /\ Goes(Close(c), IF c \in recorded THEN busy ELSE "wait")
  /\ UNCHANGED <<kernelVars, lane, clientVars, recorded, workerVars, surface, lifecycleVars>>

\* Mutant: it waits for the lane like any other.
CloseBeginWaits(c) == CloseBeginAt(c, "wait")
CloseBegin(c) == CloseBeginAt(c, "pop")

\* The record and the manager's table; what comes between the two looks only
\* refuses it.
InterruptBegin(c) ==
  /\ at[Interrupt(c)] = "idle" /\ client[c] = "live" /\ c \in recorded
  /\ c \in workers /\ c \in Interruptible
  /\ Goes(Interrupt(c), "sent")
  /\ UNCHANGED <<kernelVars, lane, clientVars, fenced, recorded, workerVars, surface, lifecycleVars>>

\* An answer, a refusal or none in time; or the channel is broken, the worker
\* terminated and the client closed, without a fence.
InterruptEnds(c) ==
  /\ at[Interrupt(c)] = "sent"
  /\ \/ Goes(Interrupt(c), "idle") /\ UNCHANGED process
     \/ Goes(Interrupt(c), "wait") /\ Kill(c)
  /\ UNCHANGED <<kernelVars, lane, clientVars, fenced, recorded, workers, surface, lifecycleVars>>

SurfaceDies(c) ==
  /\ at[Surface(c)] = "idle" /\ client[c] = "live" /\ surface[c] = "open"
  /\ fenced' = fenced \cup {c} /\ Goes(Surface(c), "pop")
  /\ UNCHANGED <<kernelVars, lane, clientVars, recorded, workerVars, surface, lifecycleVars>>

WorkerDies(c) ==
  /\ process[c] = "alive" /\ Kill(c)
  /\ UNCHANGED <<kernelVars, lane, clientVars, fenced, recorded, workers, surface, at, lifecycleVars>>

-----------------------------------------------------------------------------
(* execute, as far as a client comes of it.                                *)

ExecBegin ==
  /\ at[Execute] = "idle" /\ lane = Nobody /\ on
  /\ lane' = Execute /\ Goes(Execute, "executing")
  /\ UNCHANGED <<kernelVars, clientVars, fenced, recorded, workerVars, surface, lifecycleVars>>

\* No hand-off, or one that nothing comes of.
ExecEnds ==
  /\ at[Execute] = "executing"
  /\ lane' = Nobody /\ Goes(Execute, "idle")
  /\ UNCHANGED <<kernelVars, clientVars, fenced, recorded, workerVars, surface, lifecycleVars>>

\* The kernel's code has handed off to a plugin, whose worker is started under the
\* manager's lock, whether or not the kernel is on still.
ExecHandsOff ==
  /\ at[Execute] = "executing" /\ active = runtime
  /\ \E c \in Client :
       /\ process[c] = "none"
       /\ process' = [process EXCEPT ![c] = "alive"]
       /\ workers' = workers \cup {c}
       /\ home' = [home EXCEPT ![c] = kernel]
       /\ handoff' = c
  /\ Goes(Execute, "handoff")
  /\ UNCHANGED <<kernel, on, runtime, active, untorn, lane, client, fenced, recorded, surface,
                 lifecycleVars>>

ExecLeave == lane' = Nobody /\ Goes(Execute, "idle") /\ handoff' = NoClient

\* The worker's answer to the hand-off makes it a client's, with a surface if its
\* plugin is one for terminals.  Refused, it is left as it is; one that fails is
\* dead and out of the table; and one whose surface is missing, uncalled for or not
\* to be had is stopped, whatever comes of that.
ExecClient ==
  LET c == handoff IN
  /\ at[Execute] = "handoff" /\ ExecLeave
  /\ \/ /\ process[c] = "alive"
        /\ client' = [client EXCEPT ![c] = "live"] /\ UNCHANGED home
        /\ surface' = IF c \in Terminal THEN [surface EXCEPT ![c] = "open"] ELSE surface
        /\ UNCHANGED workerVars
     \/ /\ process[c] = "alive" /\ UNCHANGED <<clientVars, workerVars, surface>>
     \/ /\ Kill(c)
        /\ \/ workers' = workers \ {c}
           \/ process[c] = "alive" /\ StopMayFail /\ UNCHANGED workers
        /\ UNCHANGED <<clientVars, surface>>
  /\ UNCHANGED <<kernel, on, runtime, active, untorn, fenced, recorded, lifecycleVars>>

-----------------------------------------------------------------------------
(* start, stop and restart, and the poll and the execution that find the   *)
(* kernel dead; complete and an execution's interrupt only turn it off.    *)

Rests ==
  /\ Goes(Lifecycle, "idle")
  /\ request' = "start" /\ target' = NoClient /\ todo' = {} /\ stopped' = {} /\ failed' = FALSE
Ends == lane' = Nobody /\ Rests

OfRuntime(r) == {c \in Client : client[c] = "live" /\ home[c] = r}

\* _stop_client_work_for_teardown: the fence, then the busy ones.
StopBegin ==
  /\ at[Lifecycle] = "idle" /\ runtime # 0
  /\ request' \in {"stop", "restart"}
  /\ fenced' = fenced \cup OfRuntime(runtime)
  /\ todo' = OfRuntime(runtime) \cap recorded
  /\ Goes(Lifecycle, "each")
  /\ UNCHANGED <<kernelVars, lane, clientVars, recorded, workerVars, surface, target, stopped, failed>>

\* close_client of one of them; then the lane.
CloseEach ==
  /\ at[Lifecycle] = "each" /\ todo # {}
  /\ \E c \in todo :
       /\ todo' = todo \ {c}
       /\ IF client[c] # "live"
          THEN UNCHANGED <<target, at>>
          ELSE /\ target' = c
               /\ Goes(Lifecycle, IF c \in recorded THEN "pop" ELSE "wait")
  /\ UNCHANGED <<kernelVars, lane, clientVars, fenced, recorded, workerVars, surface, request,
                 stopped, failed>>

\* _teardown_lane gives up when the lane stays taken.
StopGivesUp ==
  /\ at[Lifecycle] = "each" /\ todo = {} /\ lane # Nobody
  /\ Rests /\ UNCHANGED lane
  /\ UNCHANGED <<kernelVars, clientVars, fenced, recorded, workerVars, surface>>

EnterTeardown ==
  /\ lane' = Lifecycle
  /\ stopped' = {} /\ failed' = FALSE
  /\ UNCHANGED <<handoff, kernel, runtime, active, untorn, clientVars, fenced, recorded,
                 workerVars, surface, target, todo>>

\* A stop finds the kernel off already, or takes it down; a restart does not mind.
StopEnters ==
  /\ at[Lifecycle] = "each" /\ todo = {} /\ lane = Nobody
  /\ IF request = "stop" /\ ~on
     THEN Ends /\ UNCHANGED <<kernelVars, clientVars, fenced, recorded, workerVars, surface>>
     ELSE EnterTeardown /\ Goes(Lifecycle, "teardown") /\ UNCHANGED <<on, request>>

StartEnters ==
  /\ at[Lifecycle] = "idle" /\ lane = Nobody /\ ~on
  /\ request' = "start" /\ EnterTeardown /\ Goes(Lifecycle, "teardown") /\ UNCHANGED on

PollFindsDeath ==
  /\ at[Lifecycle] = "idle" /\ lane = Nobody /\ on
  /\ request' = "poll" /\ on' = FALSE /\ EnterTeardown /\ Goes(Lifecycle, "teardown")

\* Its thread does, in its own lane, what the poll would do; the state comes last.
ExecFindsDeath ==
  /\ at[Lifecycle] = "idle" /\ at[Execute] = "executing"
  /\ request' = "poll" /\ EnterTeardown
  /\ at' = [at EXCEPT ![Execute] = "idle", ![Lifecycle] = "teardown"]
  /\ UNCHANGED on

\* Nobody is retired, and no worker is stopped.
TurnsOff ==
  /\ on /\ on' = FALSE /\ untorn' = TRUE
  /\ UNCHANGED <<kernel, runtime, active, handoff, lane, clientVars, fenced, recorded, workerVars,
                 surface, at, lifecycleVars>>

\* complete has the lane, and its kernel turns out to be dead.
CompleteTurnsOff == lane = Nobody /\ TurnsOff

\* An execution's signal cannot be sent; the lane does not matter, and the execution
\* may have ended.
InterruptTurnsOff == TurnsOff

\* Does an incomplete cleanup end the request?
Strict == request \in {"start", "restart"}

\* _close_runtime_terminal_surfaces, and the snapshot of teardown_runtime.
TeardownSurfacesOf(listed) ==
  /\ at[Lifecycle] = "teardown"
  /\ \E survivors \in SUBSET {c \in OfRuntime(runtime) : surface[c] = "open"} :
       /\ survivors # {} => SurfaceMayFail
       /\ surface' = [c \in Client |->
            IF c \in OfRuntime(runtime) \ survivors THEN "none" ELSE surface[c]]
       /\ IF Strict /\ survivors # {}
          THEN Ends
          ELSE /\ todo' = IF runtime # 0 /\ active # 0 THEN listed ELSE {}
               /\ Goes(Lifecycle, "items")
               /\ UNCHANGED <<lane, target, request, stopped, failed>>
  /\ UNCHANGED <<kernelVars, clientVars, fenced, recorded, workerVars>>

\* Mutant: the snapshot has the workers of known clients only.
TeardownSurfacesOfClients == TeardownSurfacesOf(workers \cap OfRuntime(runtime))
TeardownSurfaces == TeardownSurfacesOf(workers)

\* teardown_runtime goes through its snapshot: the handle is stopped first, and the
\* entry is popped after that.
TeardownItem ==
  /\ at[Lifecycle] = "items" /\ todo # {}
  /\ \E c \in todo :
       /\ todo' = todo \ {c}
       /\ target' = c
       /\ IF process[c] = "dead" \/ \E u \in Threads : Holds(u, c)
          THEN /\ Kill(c) /\ workers' = workers \ {c} /\ stopped' = stopped \cup {c}
               /\ UNCHANGED at
          ELSE Goes(Lifecycle, "stopping item") /\ UNCHANGED <<workerVars, stopped>>
  /\ UNCHANGED <<kernelVars, lane, clientVars, fenced, recorded, surface, request, failed>>

TeardownStopped ==
  LET c == target IN
  /\ at[Lifecycle] = "stopping item" /\ Goes(Lifecycle, "items")
  /\ Kill(c)
  /\ \/ workers' = workers \ {c} /\ stopped' = stopped \cup {c} /\ UNCHANGED failed
     \/ /\ StopMayFail \/ process[c] = "dead"
        /\ failed' = TRUE /\ UNCHANGED <<workers, stopped>>
  /\ UNCHANGED <<kernelVars, lane, clientVars, fenced, recorded, surface, target, request, todo>>

\* The end of teardown_runtime, and _retire_cleaned_clients.
TeardownEnds ==
  /\ at[Lifecycle] = "items" /\ todo = {}
  /\ active' = IF runtime # 0 /\ workers = {} THEN 0 ELSE active
  /\ RetireAll({c \in stopped : client[c] = "live"})
  /\ IF Strict /\ failed
     THEN Ends
     ELSE Goes(Lifecycle, "cleaned") /\ UNCHANGED <<lane, lifecycleVars>>
  /\ untorn' = FALSE
  /\ UNCHANGED <<handoff, kernel, on, runtime, fenced, recorded, workerVars>>

\* The kernel is stopped, and that is all for a stop and for a dead kernel.  A live one
\* that cannot be stopped stays on.
KernelOff ==
  /\ at[Lifecycle] = "cleaned" /\ ~Strict
  /\ \/ on' = FALSE
     \/ request = "stop" /\ UNCHANGED on
  /\ Ends
  /\ UNCHANGED <<handoff, kernel, runtime, active, untorn, clientVars, fenced, recorded,
                 workerVars, surface>>

\* A new kernel is started; discovery and its start may fail, and before them the
\* stop of the old one.
KernelStarts ==
  /\ at[Lifecycle] = "cleaned" /\ Strict
  /\ \/ request = "restart" /\ on /\ Ends /\ UNCHANGED <<kernel, on, runtime>>
     \/ on' = FALSE /\ runtime' = 0 /\ Ends /\ UNCHANGED kernel
     \/ /\ kernel < MaxKernel /\ kernel' = kernel + 1
        /\ on' = FALSE /\ runtime' = 0
        /\ Goes(Lifecycle, "activating") /\ UNCHANGED <<lane, lifecycleVars>>
  /\ UNCHANGED <<handoff, active, untorn, clientVars, fenced, recorded, workerVars, surface>>

\* activate_runtime raises over a worker that is left, with the process of the
\* kernel running; otherwise the kernel is published.
Activate ==
  /\ at[Lifecycle] = "activating" /\ Ends
  /\ IF workers # {}
     THEN UNCHANGED kernelVars
     ELSE on' = TRUE /\ runtime' = kernel /\ active' = kernel /\ UNCHANGED <<kernel, handoff, untorn>>
  /\ UNCHANGED <<clientVars, fenced, recorded, workerVars, surface>>

-----------------------------------------------------------------------------
Teardown ==
  \/ CloseEach \/ StopEnters \/ TeardownSurfaces \/ TeardownItem \/ TeardownStopped
  \/ TeardownEnds \/ KernelOff \/ KernelStarts \/ Activate

Next ==
  \/ \E t \in Threads \ {Execute} : Closing(t)
  \/ \E c \in Client :
       \/ OpAdmit(c) \/ Operation(c) \/ OpAnswer(c) \/ OpInvalid(c)
       \/ CloseBegin(c) \/ InterruptBegin(c) \/ InterruptEnds(c)
       \/ SurfaceDies(c) \/ WorkerDies(c)
  \/ ExecBegin \/ ExecEnds \/ ExecHandsOff \/ ExecClient
  \/ StopBegin \/ StopGivesUp \/ StartEnters \/ PollFindsDeath \/ ExecFindsDeath
  \/ CompleteTurnsOff \/ InterruptTurnsOff \/ Teardown

Spec == Init /\ [][Next]_vars

-----------------------------------------------------------------------------
(* Properties.                                                             *)

\* Type invariant: clients, the manager's table, and the places of the threads.
TypeOK ==
  /\ kernel \in 0 .. MaxKernel /\ on \in BOOLEAN
  /\ runtime \in 0 .. MaxKernel /\ active \in 0 .. MaxKernel /\ untorn \in BOOLEAN
  /\ lane \in Threads \cup {Nobody}
  /\ client \in [Client -> {"none", "live", "retired"}] /\ home \in [Client -> 0 .. MaxKernel]
  /\ fenced \subseteq Client /\ recorded \subseteq Client /\ workers \subseteq Client
  /\ process \in [Client -> {"none", "alive", "dead"}]
  /\ surface \in [Client -> {"none", "open"}]
  /\ at \in [Threads -> {"idle", "admitted", "called", "working", "cut off", "failed", "sent",
                         "pop", "popped", "stopping", "wait", "surfaces", "retire",
                         "executing", "handoff", "each", "teardown", "items", "stopping item",
                         "cleaned", "activating"}]
  /\ handoff \in Client \cup {NoClient} /\ target \in Client \cup {NoClient}
  /\ request \in {"start", "stop", "restart", "poll"}
  /\ todo \subseteq Client /\ stopped \subseteq Client /\ failed \in BOOLEAN

BeingStopped(c) == \E t \in Threads : Subject(t) = c /\ at[t] \in {"popped", "stopping"}

\* The manager can always reach a worker that runs: it is in the table, or a
\* thread has taken it out to stop it.
NoWorkerEscapes == \A c \in Client : process[c] = "alive" => c \in workers \/ BeingStopped(c)

\* A client that is gone has no worker, but for one that is being stopped still.
RetiredIsDead == \A c \in Client : client[c] = "retired" => process[c] # "alive" \/ BeingStopped(c)

\* A worker goes on with the kernel it was started beside, and with no later one; and
\* a teardown that leaves the kernel off leaves no worker, but for those that are being
\* stopped.  Where the kernel was turned off beside every teardown its workers do go
\* on, until the next teardown.
WorkersGoWithKernel ==
  \A c \in Client : process[c] = "alive" /\ ~BeingStopped(c) =>
    /\ home[c] = kernel
    /\ lane # Lifecycle /\ ~on => untorn

\* Whoever closes a client and waits for the lane, which an execution may keep for
\* as long as it likes, waits with its work cut off, or about to be.
CloseCutsWork ==
  \A c \in Client :
    at[Close(c)] = "wait" /\ at[Op(c)] = "working" => process[c] = "dead" \/ BeingStopped(c)
=============================================================================
