----------------------------- MODULE Supervisor -----------------------------
(***************************************************************************)
(* The kernel lane of jusi's supervisor: application/supervisor.py         *)
(* together with the adapter it drives, infrastructure/jupyter_kernel.py.  *)
(*                                                                         *)
(* Every request runs in a thread of its own.  start, execute, complete,   *)
(* stop, restart, poll and close take _operation_lock, the lane; interrupt *)
(* and submit_input never do.  An action is what one thread does between   *)
(* two points where another thread can see or disturb it: taking or        *)
(* leaving the lane, one section under _state_lock, one call of the        *)
(* adapter, one event append made after a lock was released.               *)
(*                                                                         *)
(* A kernel is named by its generation, a number; so is an execution and   *)
(* a prompt; 0 is Python's None.  A published NotebookRuntime is named by  *)
(* the kernel it was published with.  The clients, workers and surfaces of *)
(* a runtime are one thing here: they exist or they do not.                *)
(***************************************************************************)
EXTENDS Naturals, Sequences, FiniteSets

CONSTANTS
  Requesters,       \* the threads requests run in
  Service,          \* the service's own thread: it polls, and closes at the end
  NoThread,         \* nobody: the lane is free
  MaxKernel,        \* bound: kernel generations
  MaxExec,          \* bound: executions
  MaxPrompt,        \* bound: input prompts, over all executions
  Requests,         \* the kinds of request the environment makes
  SignalMayFail,    \* can interrupt_kernel() raise although the process lives?
  ShutdownMayFail,  \* can graceful and forced shutdown both raise?
  CleanupMayFail    \* can the cleanup of a runtime's dependents fail?

RequestKinds ==
  {"start", "execute", "interrupt", "input", "complete", "stop", "restart", "poll", "close"}

Threads == Requesters \cup {Service}

ASSUME ThreadAssumption == NoThread \notin Threads /\ Service \notin Requesters
ASSUME BoundAssumption ==
  MaxKernel \in Nat /\ MaxExec \in Nat /\ MaxPrompt \in Nat
ASSUME EnvironmentAssumption ==
  /\ Requests \subseteq RequestKinds
  /\ SignalMayFail \in BOOLEAN
  /\ ShutdownMayFail \in BOOLEAN
  /\ CleanupMayFail \in BOOLEAN

Kernels == 1..MaxKernel
Execs   == 1..MaxExec
Prompts == 1..MaxPrompt

VARIABLES
  lane,        \* who holds _operation_lock
  pc,          \* per thread: the next step of its handler
  op,          \* per thread: which teardown it performs
  kern,        \* per thread: the kernel (and handle) it captured
  exe,         \* per thread: the execution it runs or interrupts
  res,         \* per thread: how the adapter's execute ended

  kernel, on,  \* _current_kernel and whether its state is "on"
  handle,      \* _kernel_handle
  runtime,     \* _current_runtime
  lastKernel,  \* generations allocated so far (_known_kernel_ids)
  deps,        \* runtimes that still own clients, workers or surfaces

  active,      \* _active_kernel_execution: <<execution, kernel>>
  lastExec,    \* executions accepted so far
  interruptRequested,  \* _interrupt_requested
  inputTeardown,       \* _input_teardown
  pendingInput,        \* _pending_input: <<execution, prompt>>

  proc,        \* per generation: its process is "none", "alive" or "dead"
  closed,      \* adapters whose _closed is set
  executing,   \* adapters whose _executing is set
  signalled,   \* adapters whose _interrupt_requested event is set
  prompt,      \* per adapter: _pending_input
  reply,       \* per adapter: _input_value, named by the prompt it answers
  lastPrompt,  \* prompts asked so far

  ons, offs,   \* history: per kernel, kernel.state_changed events appended
  signals,     \* history: per execution, the signals tried on it while it ran
  sent,        \* history: <<prompt asked, prompt the reply was written for>>
  outcome,     \* history: per execution, how it was reported
  down         \* close() has returned or raised: the service is gone

locals      == <<op, kern, exe, res>>
kernelVars  == <<kernel, on, handle, runtime, lastKernel, deps>>
execVars    == <<active, lastExec, interruptRequested, inputTeardown, pendingInput>>
adapterVars == <<proc, closed, executing, signalled, prompt, reply, lastPrompt>>
eventVars   == <<ons, offs>>
ghostVars   == <<signals, sent, outcome, down>>
vars == <<lane, pc, locals, kernelVars, execVars, adapterVars, eventVars, ghostVars>>

InterruptPcs == {"int_send", "int_clear", "int_refused", "int_failed", "int_died", "int_announce"}
OffLanePcs == {"idle", "cancel_clear", "wait", "wait2"} \cup InterruptPcs
StartPcs   == {"start_clean", "start_prepare", "start_spawn", "start_publish", "start_announce"}
ExecPcs    == {"exec_activate", "exec_begin", "exec_run", "exec_prompt", "exec_finish",
               "exec_handoff", "exec_complete", "exec_kill", "exec_clean", "exec_off",
               "exec_announce"}
ProbePcs   == {"complete", "complete_off", "complete_announce",
               "poll_off", "poll_announce", "poll_kill", "poll_clean"}
StopPcs    == {"stop_clean", "stop_kill", "stop_off", "stop_announce", "close_final"}
RestartPcs == {"restart_clean", "restart_kill", "restart_off", "restart_announce_off",
               "restart_prepare", "restart_spawn", "restart_publish", "restart_announce"}
LanePcs    == StartPcs \cup ExecPcs \cup ProbePcs \cup StopPcs \cup RestartPcs

\* How the adapter's execute ended: a reply, good or bad, an interrupt, or the
\* death of the kernel.
Results == {"none", "replied", "interrupted", "died"}

\* No active execution, no pending prompt.
None == <<0, 0>>

Pcs == OffLanePcs \cup LanePcs

ThreadsOK ==
  /\ lane \in Threads \cup {NoThread}
  /\ pc \in [Threads -> Pcs]
  /\ op \in [Threads -> {"none", "stop", "restart", "close"}]
  /\ kern \in [Threads -> 0..MaxKernel]
  /\ exe \in [Threads -> 0..MaxExec]
  /\ res \in [Threads -> Results]

KernelOK ==
  /\ kernel \in 0..MaxKernel /\ on \in BOOLEAN
  /\ handle \in 0..MaxKernel /\ runtime \in 0..MaxKernel
  /\ lastKernel \in 0..MaxKernel /\ deps \subseteq Kernels

ExecOK ==
  /\ active \in (0..MaxExec) \X (0..MaxKernel)
  /\ lastExec \in 0..MaxExec
  /\ interruptRequested \subseteq Execs /\ inputTeardown \subseteq Execs
  /\ pendingInput \in (0..MaxExec) \X (0..MaxPrompt)

AdapterOK ==
  /\ proc \in [Kernels -> {"none", "alive", "dead"}]
  /\ closed \subseteq Kernels /\ executing \subseteq Kernels /\ signalled \subseteq Kernels
  /\ prompt \in [Kernels -> 0..MaxPrompt] /\ reply \in [Kernels -> 0..MaxPrompt]
  /\ lastPrompt \in 0..MaxPrompt

HistoryOK ==
  /\ ons \in [Kernels -> Nat] /\ offs \in [Kernels -> Nat]
  /\ signals \in [Execs -> {"none", "failed", "sent"}]
  /\ sent \in Seq((0..MaxPrompt) \X (0..MaxPrompt))
  /\ outcome \in [Execs -> Results]
  /\ down \in BOOLEAN

TypeOK == ThreadsOK /\ KernelOK /\ ExecOK /\ AdapterOK /\ HistoryOK

Init ==
  /\ lane = NoThread
  /\ pc = [t \in Threads |-> "idle"]
  /\ op = [t \in Threads |-> "none"]
  /\ kern = [t \in Threads |-> 0]
  /\ exe = [t \in Threads |-> 0]
  /\ res = [t \in Threads |-> "none"]
  /\ kernel = 0 /\ on = FALSE /\ handle = 0 /\ runtime = 0 /\ lastKernel = 0 /\ deps = {}
  /\ active = None /\ lastExec = 0
  /\ interruptRequested = {} /\ inputTeardown = {} /\ pendingInput = None
  /\ proc = [k \in Kernels |-> "none"]
  /\ closed = {} /\ executing = {} /\ signalled = {}
  /\ prompt = [k \in Kernels |-> 0] /\ reply = [k \in Kernels |-> 0] /\ lastPrompt = 0
  /\ ons = [k \in Kernels |-> 0] /\ offs = [k \in Kernels |-> 0]
  /\ signals = [e \in Execs |-> "none"] /\ sent = <<>> /\ outcome = [e \in Execs |-> "none"] /\ down = FALSE

-----------------------------------------------------------------------------
(* Building blocks.                                                        *)

At(t, label)   == pc[t] = label
Goto(t, label) == pc' = [pc EXCEPT ![t] = label]
Go(t, label)   == Goto(t, label) /\ UNCHANGED locals

\* The handler returns or raises, and its locals are gone.
Return(t) ==
  /\ Goto(t, "idle")
  /\ op' = [op EXCEPT ![t] = "none"]
  /\ kern' = [kern EXCEPT ![t] = 0]
  /\ exe' = [exe EXCEPT ![t] = 0]
  /\ res' = [res EXCEPT ![t] = "none"]

\* A step from one label to the next that keeps the lane as it is.
Step(t, from, to) == At(t, from) /\ Go(t, to) /\ UNCHANGED lane

\* `with self._operation_lock`: taken by an idle thread, left by a returning one.
Take(t, label) == At(t, "idle") /\ lane = NoThread /\ lane' = t /\ Goto(t, label)
Leave(t)       == lane' = NoThread /\ Return(t)

\* Nobody is between two steps of one hold of _state_lock.  Only a teardown
\* whose signal failed ever is, and then the lane holder is inside the
\* adapter: the sections of other lane holders need not look.
StateFree == \A t \in Threads : ~At(t, "cancel_clear")

Alive(k)  == k \in Kernels /\ proc[k] = "alive"
\* The adapter's own test, `not (self._closed or not self._is_alive())`.
Usable(k) == Alive(k) /\ k \notin closed

\* The kernel _require_live_kernel lets a request through to.
Live(k) == kernel = k /\ on /\ handle # 0

\* The active execution belongs to kernel k.
RunsOn(k) == active # None /\ active[2] = k

AppendOn(k)  == ons' = [ons EXCEPT ![k] = @ + 1] /\ UNCHANGED offs
AppendOff(k) == offs' = [offs EXCEPT ![k] = @ + 1] /\ UNCHANGED ons

\* interrupt_kernel() while execution e is running; one signal that got out is enough.
Tried(e, how) == signals' = [signals EXCEPT ![e] = IF @ = "sent" THEN @ ELSE how]

\* `kernel.state = "off"; self._kernel_handle = None` on the captured kernel.
TurnOff(k) ==
  /\ on' = (on /\ kernel # k)
  /\ handle' = 0
  /\ UNCHANGED <<kernel, runtime, lastKernel, deps>>

\* The same with its event, under one hold of _state_lock, if k is still on.
TurnOffAndTell(k) ==
  IF kernel = k /\ on
  THEN TurnOff(k) /\ AppendOff(k)
  ELSE UNCHANGED <<kernelVars, eventVars>>

\* Closing the surfaces, stopping the workers and retiring the clients of the
\* current runtime; what cannot be stopped stays behind.
Cleaned    == deps' = deps \ {runtime}
CleanFails == CleanupMayFail /\ runtime \in deps /\ UNCHANGED deps

\* ManagedJupyterKernel.stop: once closed it returns at once, whatever the
\* first call achieved.
Shutdown(k) ==
  /\ closed' = closed \cup {k}
  /\ proc' = IF k \in closed THEN proc ELSE [proc EXCEPT ![k] = "dead"]
  /\ UNCHANGED <<executing, signalled, prompt, reply, lastPrompt>>
ShutdownFails(k) ==
  /\ ShutdownMayFail
  /\ Usable(k)
  /\ closed' = closed \cup {k}
  /\ UNCHANGED <<proc, executing, signalled, prompt, reply, lastPrompt>>

-----------------------------------------------------------------------------
(* Replacement: the second half of start and restart.                      *)

\* The old runtime is forgotten; then configuration or discovery may fail, or
\* a fresh kernel generation is allocated.
PrepareAs(t, from, to, fresh) ==
  /\ At(t, from)
  /\ runtime' = 0
  /\ \/ Leave(t) /\ UNCHANGED lastKernel
     \/ /\ lastKernel < MaxKernel
        /\ lastKernel' = lastKernel + 1
        /\ kern' = [kern EXCEPT ![t] = fresh]
        /\ Goto(t, to) /\ UNCHANGED <<lane, op, exe, res>>
  /\ UNCHANGED <<kernel, on, handle, deps, execVars, adapterVars, eventVars, ghostVars>>

\* Mutant: the replacement keeps the identity of the kernel it replaces.
PrepareSameIdentity(t, from, to) ==
  PrepareAs(t, from, to, IF kernel = 0 THEN lastKernel + 1 ELSE kernel)
Prepare(t, from, to) == PrepareAs(t, from, to, lastKernel + 1)

\* KernelFactory.start: a ready process, or none: a half-started one is shut
\* down before the error is raised, and nobody learns of it if that fails too.
Spawn(t, from, to) ==
  LET k == kern[t] IN
  /\ At(t, from)
  /\ \/ Leave(t) /\ UNCHANGED proc
     \/ ShutdownMayFail /\ proc' = [proc EXCEPT ![k] = "alive"] /\ Leave(t)
     \/ proc' = [proc EXCEPT ![k] = "alive"] /\ Go(t, to) /\ UNCHANGED lane
  /\ UNCHANGED <<kernelVars, execVars, closed, executing, signalled, prompt, reply, lastPrompt,
                 eventVars, ghostVars>>

\* The one publication of kernel, handle and runtime, under _state_lock.
Publish(t, from, to) ==
  /\ Step(t, from, to)
  /\ kernel' = kern[t] /\ on' = TRUE /\ handle' = kern[t] /\ runtime' = kern[t]
  /\ UNCHANGED <<lastKernel, deps, execVars, adapterVars, eventVars, ghostVars>>

TellOn(t, from) ==
  /\ At(t, from) /\ Leave(t)
  /\ AppendOn(kern[t])
  /\ UNCHANGED <<kernelVars, execVars, adapterVars, ghostVars>>

TellOff(t, from, to) ==
  /\ Step(t, from, to)
  /\ AppendOff(kern[t])
  /\ UNCHANGED <<kernelVars, execVars, adapterVars, ghostVars>>

\* The lane holder's own `kernel.state = "off"`.
SetOff(t, from, to) ==
  /\ Step(t, from, to)
  /\ TurnOff(kern[t])
  /\ UNCHANGED <<execVars, adapterVars, eventVars, ghostVars>>

-----------------------------------------------------------------------------
(* start_kernel.                                                           *)

StartWhen(t, admitted) ==
  /\ "start" \in Requests
  /\ admitted
  /\ Take(t, "start_clean")
  /\ UNCHANGED <<locals, kernelVars, execVars, adapterVars, eventVars, ghostVars>>

\* Mutant: a start does not look whether the kernel is on.
StartAcquireWhileOn(t) == StartWhen(t, TRUE)
\* A start while the kernel is on is refused and changes nothing.
StartAcquire(t) == StartWhen(t, ~on)

\* What the previous runtime left behind goes first; if it cannot, no start.
StartCleanOr(t, Failed) ==
  /\ At(t, "start_clean")
  /\ \/ Cleaned /\ Go(t, "start_prepare") /\ UNCHANGED lane
     \/ CleanFails /\ Failed
  /\ UNCHANGED <<kernel, on, handle, runtime, lastKernel,
                 execVars, adapterVars, eventVars, ghostVars>>

\* Mutant: a failed cleanup does not keep the start from going on.
StartCleanGoesOn(t) == StartCleanOr(t, Go(t, "start_prepare") /\ UNCHANGED lane)
StartClean(t)       == StartCleanOr(t, Leave(t))

StartPrepare(t)  == Prepare(t, "start_prepare", "start_spawn")
StartSpawn(t)    == Spawn(t, "start_spawn", "start_publish")
StartPublish(t)  == Publish(t, "start_publish", "start_announce")
StartAnnounce(t) == TellOn(t, "start_announce")

-----------------------------------------------------------------------------
(* execute, with the adapter's execute and _execute_with_input.            *)

ExecAcquire(t) ==
  /\ "execute" \in Requests
  /\ Live(kernel) /\ lastExec < MaxExec
  /\ Take(t, "exec_activate")
  /\ lastExec' = lastExec + 1
  /\ exe' = [exe EXCEPT ![t] = lastExec + 1]
  /\ kern' = [kern EXCEPT ![t] = kernel]
  /\ UNCHANGED <<op, res, kernelVars, active, interruptRequested, inputTeardown, pendingInput,
                 adapterVars, eventVars, ghostVars>>

ExecActivate(t) ==
  /\ Step(t, "exec_activate", "exec_begin")
  /\ active' = <<exe[t], kern[t]>>
  /\ UNCHANGED <<kernelVars, lastExec, interruptRequested, inputTeardown, pendingInput,
                 adapterVars, eventVars, ghostVars>>

\* The adapter is asked to run: from here to its return _executing is set.
ExecBegin(t) ==
  LET k == kern[t] IN
  /\ At(t, "exec_begin")
  /\ IF Usable(k)
     THEN /\ executing' = executing \cup {k}
          /\ signalled' = signalled \ {k}
          /\ Goto(t, "exec_run")
          /\ UNCHANGED res
     ELSE /\ Goto(t, "exec_finish")
          /\ res' = [res EXCEPT ![t] = "died"]
          /\ UNCHANGED <<executing, signalled>>
  /\ UNCHANGED <<lane, op, kern, exe, kernelVars, execVars,
                 proc, closed, prompt, reply, lastPrompt, eventVars, ghostVars>>

\* The code calls input(): the adapter opens a reply slot under _control_lock.
ExecPrompt(t) ==
  LET k == kern[t] IN
  /\ Step(t, "exec_run", "exec_prompt")
  /\ lastPrompt < MaxPrompt
  /\ Alive(k) /\ k \notin signalled /\ prompt[k] = 0
  /\ lastPrompt' = lastPrompt + 1
  /\ prompt' = [prompt EXCEPT ![k] = lastPrompt + 1]
  /\ reply' = [reply EXCEPT ![k] = 0]
  /\ UNCHANGED <<kernelVars, execVars, proc, closed, executing, signalled, eventVars, ghostVars>>

\* _finish_execution.
FinishExecution(k) ==
  /\ executing' = executing \ {k}
  /\ signalled' = signalled \ {k}
  /\ prompt' = [prompt EXCEPT ![k] = 0]
  /\ reply' = [reply EXCEPT ![k] = 0]
  /\ UNCHANGED <<proc, closed, lastPrompt>>

\* publish_input, under _state_lock.
ExecPublishPrompt(t) ==
  /\ StateFree /\ exe[t] \notin inputTeardown
  /\ Step(t, "exec_prompt", "exec_run")
  /\ pendingInput' = <<exe[t], prompt[kern[t]]>>
  /\ UNCHANGED <<kernelVars, active, lastExec, interruptRequested, inputTeardown,
                 adapterVars, eventVars, ghostVars>>

\* A prompt that arrives after a teardown queued for the lane is answered with
\* an interrupt instead; the interrupt may already be under way, or may raise
\* through the adapter's loop.
ExecFencePrompt(t) ==
  LET k == kern[t]
      e == exe[t] IN
  /\ At(t, "exec_prompt") /\ StateFree /\ e \in inputTeardown
  /\ \/ /\ e \in interruptRequested
        /\ Go(t, "exec_run")
        /\ UNCHANGED <<kernelVars, interruptRequested, adapterVars, eventVars, signals>>
     \/ /\ e \notin interruptRequested /\ Usable(k)
        /\ interruptRequested' = interruptRequested \cup {e}
        /\ signalled' = signalled \cup {k}
        /\ Tried(active[1], "sent")
        /\ Go(t, "exec_run")
        /\ UNCHANGED <<kernelVars, proc, closed, executing, prompt, reply, lastPrompt, eventVars>>
     \/ /\ e \notin interruptRequested
        /\ \/ ~Usable(k) /\ UNCHANGED signals
           \/ /\ SignalMayFail /\ Usable(k)
              /\ Tried(active[1], "failed")
        /\ TurnOffAndTell(k)
        /\ FinishExecution(k)
        /\ res' = [res EXCEPT ![t] = IF Alive(k) THEN "replied" ELSE "died"]
        /\ Goto(t, "exec_finish")
        /\ UNCHANGED <<op, kern, exe, interruptRequested>>
  /\ UNCHANGED <<lane, active, lastExec, inputTeardown, pendingInput, sent, outcome, down>>

\* One turn of the adapter's loop: send the queued reply, or drop it and the
\* prompt when an interrupt was requested.
ExecSendInput(t) ==
  LET k == kern[t] IN
  /\ Step(t, "exec_run", "exec_run")
  /\ prompt[k] # 0
  /\ \/ k \in signalled /\ UNCHANGED sent
     \/ /\ k \notin signalled /\ reply[k] # 0
        /\ sent' = Append(sent, <<prompt[k], reply[k]>>)
  /\ prompt' = [prompt EXCEPT ![k] = 0]
  /\ reply' = [reply EXCEPT ![k] = 0]
  /\ UNCHANGED <<kernelVars, execVars, proc, closed, executing, signalled, lastPrompt,
                 eventVars, signals, outcome, down>>

AdapterReturns(t, result) ==
  /\ At(t, "exec_run") /\ Goto(t, "exec_finish")
  /\ res' = [res EXCEPT ![t] = result]
  /\ FinishExecution(kern[t])
  /\ UNCHANGED <<lane, op, kern, exe, kernelVars, execVars, eventVars, ghostVars>>

\* The kernel replies.  Code waiting in input() replies only when interrupted;
\* interrupted code may swallow the interrupt and succeed.
ExecReturn(t) ==
  LET k == kern[t] IN
  /\ Alive(k)
  /\ \/ prompt[k] = 0 /\ AdapterReturns(t, "replied")
     \/ k \in signalled /\ AdapterReturns(t, "replied")
     \/ k \in signalled /\ AdapterReturns(t, "interrupted")

\* Mutant: the wait for a reply to input() does not look whether the kernel lives.
ExecObserveDeathNotInInput(t) ==
  At(t, "exec_run") /\ ~Alive(kern[t]) /\ prompt[kern[t]] = 0 /\ AdapterReturns(t, "died")

ExecObserveDeath(t) == ~Alive(kern[t]) /\ AdapterReturns(t, "died")

\* The first section after the adapter returned, on either path.
Finish(t, pending, result) ==
  LET e == exe[t] IN
  /\ At(t, "exec_finish") /\ StateFree
  /\ active' = None
  /\ pendingInput' = pending
  /\ inputTeardown' = inputTeardown \ {e}
  /\ interruptRequested' = interruptRequested \ {e}
  /\ res' = [res EXCEPT ![t] = result]
  /\ Goto(t, CASE res[t] = "died" -> "exec_kill"
               [] res[t] = "interrupted" -> "exec_complete"
               [] OTHER -> "exec_handoff")
  /\ UNCHANGED <<lane, op, kern, exe, kernelVars, lastExec, adapterVars, eventVars, ghostVars>>

Requested(t) == exe[t] \in interruptRequested

\* Mutant: a request to interrupt it is enough to call an execution interrupted.
ExecFinishOnRequest(t) ==
  Finish(t, None, IF res[t] # "died" /\ Requested(t) THEN "interrupted" ELSE res[t])
\* Mutant: the prompt of the execution survives it.
ExecFinishKeepsPrompt(t) == Finish(t, pendingInput, res[t])

\* An interrupt nobody asked of this execution is reported as its failure.
ExecFinish(t) ==
  Finish(t, None,
         IF res[t] = "interrupted" /\ ~Requested(t) THEN "replied" ELSE res[t])

\* A handoff that matches the runtime's catalog creates a durable client; one
\* that does not, or whose worker or surface cannot start, creates nothing.
ExecHandoff(t) ==
  /\ Step(t, "exec_handoff", "exec_complete")
  /\ \/ UNCHANGED deps
     \/ runtime # 0 /\ deps' = deps \cup {runtime}
  /\ UNCHANGED <<kernel, on, handle, runtime, lastKernel,
                 execVars, adapterVars, eventVars, ghostVars>>

ExecComplete(t) ==
  /\ At(t, "exec_complete") /\ Leave(t)
  /\ outcome' = [outcome EXCEPT ![exe[t]] = res[t]]
  /\ UNCHANGED <<kernelVars, execVars, adapterVars, eventVars, signals, sent, down>>

\* The adapter reported the kernel dead: shut down, clean up, then off.
ExecKill(t) ==
  /\ Step(t, "exec_kill", "exec_clean")
  /\ Shutdown(kern[t]) \/ ShutdownFails(kern[t])
  /\ UNCHANGED <<kernelVars, execVars, eventVars, ghostVars>>

ExecClean(t) ==
  /\ Step(t, "exec_clean", "exec_off")
  /\ Cleaned \/ CleanFails
  /\ UNCHANGED <<kernel, on, handle, runtime, lastKernel,
                 execVars, adapterVars, eventVars, ghostVars>>

\* Mutant: the previous state is read after it was overwritten, so nothing is told.
ExecOffUntold(t) == SetOff(t, "exec_off", "exec_complete")
ExecOff(t) == SetOff(t, "exec_off", IF on THEN "exec_announce" ELSE "exec_complete")

ExecAnnounce(t) == TellOff(t, "exec_announce", "exec_complete")

-----------------------------------------------------------------------------
(* submit_input, entirely under _state_lock.                               *)

\* A client answers a prompt it was shown, which may be an old one by now.
Submit(p, asked) ==
  LET k == active[2] IN
  /\ "input" \in Requests /\ StateFree
  /\ active # None /\ pendingInput = <<active[1], asked>>
  /\ active[1] \notin interruptRequested
  /\ k \in executing /\ k \notin signalled
  /\ prompt[k] = asked /\ reply[k] = 0
  /\ reply' = [reply EXCEPT ![k] = p]
  /\ pendingInput' = None
  /\ UNCHANGED <<lane, pc, locals, kernelVars, active, lastExec, interruptRequested,
                 inputTeardown, proc, closed, executing, signalled, prompt, lastPrompt,
                 eventVars, ghostVars>>

\* Mutant: whatever prompt is pending is answered, not the one the client named.
SubmitInputUnchecked == \E p, q \in 1..lastPrompt : Submit(p, q)
SubmitInput == \E p \in 1..lastPrompt : Submit(p, p)

-----------------------------------------------------------------------------
(* interrupt_execution: a control path beside the lane.                    *)

IntRequestWhen(t, accepted) ==
  /\ "interrupt" \in Requests /\ StateFree
  /\ accepted /\ active[1] \notin interruptRequested
  /\ At(t, "idle") /\ Goto(t, "int_send")
  /\ interruptRequested' = interruptRequested \cup {active[1]}
  /\ exe' = [exe EXCEPT ![t] = active[1]]
  /\ kern' = [kern EXCEPT ![t] = active[2]]
  /\ UNCHANGED <<lane, op, res, kernelVars, active, lastExec, inputTeardown, pendingInput,
                 adapterVars, eventVars, ghostVars>>

\* Mutant: a request is accepted when nothing executes.
IntRequestUnmatched(t) == IntRequestWhen(t, TRUE)
\* Accepted only for the active execution; the second request for the same
\* one is acknowledged and changes nothing.
IntRequest(t) == IntRequestWhen(t, active # None)

\* handle.interrupt(), with _state_lock released: the adapter looks only at
\* whether it is executing, not at what.  It sets its mark and sends the signal
\* under _control_lock.
IntSignal(t, how) ==
  LET k == kern[t] IN
  /\ At(t, "int_send")
  /\ Usable(k) /\ k \in executing
  /\ signalled' = signalled \cup {k}
  /\ Tried(active[1], how)
  /\ UNCHANGED <<lane, kernelVars, execVars, proc, closed, executing, prompt, reply, lastPrompt,
                 eventVars, sent, outcome, down>>

IntSend(t) == IntSignal(t, "sent") /\ Return(t)

\* The signal could not be sent; the mark is set, and the lock left.
IntSendFails(t) == SignalMayFail /\ IntSignal(t, "failed") /\ Go(t, "int_clear")

\* Only then is the mark cleared, without the lock: it may have been read, and
\* it may be another interrupt's by now.
IntClear(t) ==
  /\ Step(t, "int_clear", "int_failed")
  /\ signalled' = signalled \ {kern[t]}
  /\ UNCHANGED <<kernelVars, execVars, proc, closed, executing, prompt, reply, lastPrompt,
                 eventVars, ghostVars>>

\* The adapter raises without a mark: a conflict when nothing executes, else a
\* failure of layer "kernel", because the process died.
IntRaise(t) ==
  /\ At(t, "int_send")
  /\ \/ Usable(kern[t]) /\ kern[t] \notin executing /\ Go(t, "int_refused")
     \/ ~Usable(kern[t]) /\ Go(t, "int_failed")
  /\ UNCHANGED <<lane, kernelVars, execVars, adapterVars, eventVars, ghostVars>>

\* Whatever was raised, the execution is no longer one asked to stop.
IntDiscard(t) ==
  /\ StateFree
  /\ \/ At(t, "int_refused") /\ Return(t)
     \/ At(t, "int_failed") /\ Go(t, "int_died")
  /\ interruptRequested' = interruptRequested \ {exe[t]}
  /\ UNCHANGED <<lane, kernelVars, active, lastExec, inputTeardown, pendingInput,
                 adapterVars, eventVars, ghostVars>>

\* A failure of the kernel turns it off if it is still the current one.
IntDied(t) ==
  LET k == kern[t] IN
  /\ At(t, "int_died") /\ StateFree
  /\ IF kernel = k THEN TurnOff(k) ELSE UNCHANGED kernelVars
  /\ IF kernel = k /\ on THEN Go(t, "int_announce") ELSE Return(t)
  /\ UNCHANGED <<lane, execVars, adapterVars, eventVars, ghostVars>>

IntAnnounce(t) ==
  /\ At(t, "int_announce") /\ Return(t)
  /\ AppendOff(kern[t])
  /\ UNCHANGED <<lane, kernelVars, execVars, adapterVars, ghostVars>>

-----------------------------------------------------------------------------
(* complete, and the service's poll_kernel: neither waits for the lane.    *)

CompleteAcquire(t) ==
  /\ "complete" \in Requests
  /\ Live(kernel)
  /\ Take(t, "complete")
  /\ kern' = [kern EXCEPT ![t] = kernel]
  /\ UNCHANGED <<op, exe, res, kernelVars, execVars, adapterVars, eventVars, ghostVars>>

CompleteReply(t) ==
  /\ At(t, "complete")
  /\ IF Usable(kern[t]) THEN Leave(t) ELSE Go(t, "complete_off") /\ UNCHANGED lane
  /\ UNCHANGED <<kernelVars, execVars, adapterVars, eventVars, ghostVars>>

CompleteOff(t) == SetOff(t, "complete_off", "complete_announce")

CompleteAnnounce(t) ==
  /\ At(t, "complete_announce") /\ Leave(t)
  /\ AppendOff(kern[t])
  /\ UNCHANGED <<kernelVars, execVars, adapterVars, ghostVars>>

PollWhen(t, lost) ==
  /\ "poll" \in Requests /\ t = Service /\ ~down
  /\ Live(kernel) /\ lost
  /\ Take(t, "poll_off")
  /\ kern' = [kern EXCEPT ![t] = kernel]
  /\ UNCHANGED <<op, exe, res, kernelVars, execVars, adapterVars, eventVars, ghostVars>>

\* Mutant: the poll asks whether the adapter was shut down, not whether its process lives.
PollAcquireClosed(t) == PollWhen(t, handle \in closed)
\* A poll that finds the kernel usable changes nothing.
PollAcquire(t) == PollWhen(t, ~Usable(handle))

PollOff(t) == SetOff(t, "poll_off", "poll_announce")

PollAnnounce(t) == TellOff(t, "poll_announce", "poll_kill")

PollKill(t) ==
  /\ Step(t, "poll_kill", "poll_clean")
  /\ Shutdown(kern[t]) \/ ShutdownFails(kern[t])
  /\ UNCHANGED <<kernelVars, execVars, eventVars, ghostVars>>

PollClean(t) ==
  /\ At(t, "poll_clean") /\ Leave(t)
  /\ Cleaned \/ CleanFails
  /\ UNCHANGED <<kernel, on, handle, runtime, lastKernel,
                 execVars, adapterVars, eventVars, ghostVars>>

-----------------------------------------------------------------------------
(* What stop, restart and close share: cancel, then wait for the lane.     *)

\* _cancel_execution_for_teardown: under _state_lock, fence the prompts of the
\* active execution of kernel k and interrupt it.  An error the interrupt
\* raises is the caller's, who is refused by it or ignores it.
CancelExecution(t, k, ignored) ==
  LET e == active[1]
      Wait == Goto(t, "wait")
      Refuse == IF ignored THEN Wait ELSE Return(t) IN
  \/ /\ ~RunsOn(k) /\ Wait
     /\ UNCHANGED <<inputTeardown, interruptRequested, signalled, signals, kernelVars, eventVars>>
  \/ /\ RunsOn(k) /\ e \in interruptRequested /\ Wait
     /\ inputTeardown' = inputTeardown \cup {e}
     /\ UNCHANGED <<interruptRequested, signalled, signals, kernelVars, eventVars>>
  \/ /\ RunsOn(k) /\ e \notin interruptRequested
     /\ inputTeardown' = inputTeardown \cup {e}
     /\ \/ /\ Usable(k) /\ k \in executing
           /\ interruptRequested' = interruptRequested \cup {e}
           /\ signalled' = signalled \cup {k}
           /\ \/ Wait /\ Tried(e, "sent")
              \/ /\ SignalMayFail /\ Goto(t, "cancel_clear")
                 /\ Tried(e, "failed")
           /\ UNCHANGED <<kernelVars, eventVars>>
        \/ /\ Usable(k) /\ k \notin executing /\ Refuse
           /\ UNCHANGED <<interruptRequested, signalled, signals, kernelVars, eventVars>>
        \/ /\ ~Usable(k) /\ TurnOffAndTell(k) /\ Refuse
           /\ UNCHANGED <<interruptRequested, signalled, signals>>

Teardown(t, kind, k, ignored) ==
  /\ At(t, "idle") /\ StateFree
  /\ CancelExecution(t, k, ignored)
  /\ IF pc'[t] \in {"wait", "cancel_clear"}
     THEN /\ op' = [op EXCEPT ![t] = kind]
          /\ kern' = [kern EXCEPT ![t] = k]
          /\ UNCHANGED <<exe, res>>
     ELSE UNCHANGED locals
  /\ UNCHANGED <<lane, active, lastExec, pendingInput,
                 proc, closed, executing, prompt, reply, lastPrompt, sent, outcome, down>>

\* Its signal could not be sent: still under _state_lock, the mark is cleared,
\* the kernel turned off, and the error raised.
CancelFails(t) ==
  LET k == kern[t] IN
  /\ At(t, "cancel_clear")
  /\ signalled' = signalled \ {k}
  /\ interruptRequested' = interruptRequested \ {active[1]}
  /\ TurnOffAndTell(k)
  /\ IF op[t] = "close" THEN Go(t, "wait") ELSE Return(t)
  /\ UNCHANGED <<lane, active, lastExec, inputTeardown, pendingInput,
                 proc, closed, executing, prompt, reply, lastPrompt, ghostVars>>

\* A client can name a kernel once it was published; stopping one whose start
\* failed changes nothing.
StopRequest(t) ==
  "stop" \in Requests /\ \E k \in 1..kernel : Teardown(t, "stop", k, FALSE)

\* A restart that does not name the current runtime cancels nothing and is
\* refused once it holds the lane: it changes nothing.
RestartRequest(t) ==
  "restart" \in Requests /\ runtime # 0 /\ Teardown(t, "restart", runtime, FALSE)

\* close() is called by the service on its way out; it ignores the error of
\* the interrupt, and cancels nothing when the kernel is off.
CloseRequest(t) ==
  /\ "close" \in Requests /\ t = Service /\ ~down
  /\ \/ on /\ Teardown(t, "close", kernel, TRUE)
     \/ /\ ~on
        /\ At(t, "idle") /\ StateFree /\ Goto(t, "wait")
        /\ op' = [op EXCEPT ![t] = "close"]
        /\ kern' = [kern EXCEPT ![t] = kernel]
        /\ UNCHANGED <<lane, exe, res, kernelVars, execVars, adapterVars, eventVars, ghostVars>>

\* An error ends the handler; one that ends close() ends the service too.
Abandon(t) == Return(t) /\ down' = (down \/ op[t] = "close")

\* Mutant: the wait for the lane does not escalate.
TeardownTimeoutSpares(t) ==
  /\ lane # NoThread
  /\ Step(t, "wait", "wait2")
  /\ UNCHANGED <<kernelVars, execVars, adapterVars, eventVars, ghostVars>>

\* _teardown_lane after the first bounded wait: the process of the handle is
\* killed, if there is a handle; an adapter already shut down has no process
\* left and raises.
TeardownTimeout(t) ==
  LET h == IF kernel = kern[t] THEN handle ELSE 0 IN
  /\ At(t, "wait") /\ lane # NoThread /\ StateFree
  /\ IF h \in closed /\ ~Alive(h) THEN Abandon(t) ELSE Go(t, "wait2") /\ UNCHANGED down
  /\ IF Alive(h) THEN proc' = [proc EXCEPT ![h] = "dead"] ELSE UNCHANGED proc
  /\ UNCHANGED <<lane, kernelVars, execVars, closed, executing, signalled, prompt, reply, lastPrompt,
                 eventVars, signals, sent, outcome>>

\* After the second it gives up.
TeardownGiveUp(t) ==
  /\ At(t, "wait2") /\ lane # NoThread
  /\ Abandon(t)
  /\ UNCHANGED <<lane, kernelVars, execVars, adapterVars, eventVars, signals, sent, outcome>>

\* The waiting teardown gets the lane, or leaves it at once when refused.
TeardownAcquire(t, kind, admitted, label) ==
  /\ At(t, "wait") \/ At(t, "wait2")
  /\ op[t] = kind
  /\ lane = NoThread
  /\ IF admitted THEN lane' = t /\ Go(t, label) ELSE Return(t) /\ UNCHANGED lane
  /\ UNCHANGED <<kernelVars, execVars, adapterVars, eventVars, ghostVars>>

-----------------------------------------------------------------------------
(* stop_kernel, and close, which stops the kernel from inside the lane.    *)

StopExit(t) ==
  IF op[t] = "close" THEN Go(t, "close_final") /\ UNCHANGED lane ELSE Leave(t)

StopAcquire(t) == TeardownAcquire(t, "stop", kernel = kern[t] /\ on, "stop_clean")

\* If an interrupt has just turned the kernel off, it is seen to be absent or
\* `assert handle is not None` fails, which ends close() as well.  What cannot
\* be cleaned up does not keep the kernel from being stopped.
StopClean(t) ==
  /\ At(t, "stop_clean")
  /\ \/ handle = 0 /\ StopExit(t) /\ UNCHANGED <<deps, down>>
     \/ handle = 0 /\ lane' = NoThread /\ Abandon(t) /\ UNCHANGED deps
     \/ /\ handle # 0
        /\ Cleaned \/ CleanFails
        /\ Go(t, "stop_kill") /\ UNCHANGED <<lane, down>>
  /\ UNCHANGED <<kernel, on, handle, runtime, lastKernel,
                 execVars, adapterVars, eventVars, signals, sent, outcome>>

StopKill(t) ==
  /\ At(t, "stop_kill")
  /\ \/ Shutdown(kern[t]) /\ Go(t, "stop_off") /\ UNCHANGED lane
     \/ ShutdownFails(kern[t]) /\ StopExit(t)
  /\ UNCHANGED <<kernelVars, execVars, eventVars, ghostVars>>

StopOff(t) == SetOff(t, "stop_off", "stop_announce")

StopAnnounce(t) ==
  /\ At(t, "stop_announce") /\ StopExit(t)
  /\ AppendOff(kern[t])
  /\ UNCHANGED <<kernelVars, execVars, adapterVars, ghostVars>>

\* _close_runtime looks at the kernel again once it holds the lane.
CloseAcquire(t) ==
  /\ At(t, "wait") \/ At(t, "wait2")
  /\ op[t] = "close"
  /\ lane = NoThread /\ lane' = t
  /\ Goto(t, IF on THEN "stop_clean" ELSE "close_final")
  /\ kern' = [kern EXCEPT ![t] = kernel]
  /\ UNCHANGED <<op, exe, res, kernelVars, execVars, adapterVars, eventVars, ghostVars>>

CloseFinal(t) ==
  /\ At(t, "close_final") /\ Leave(t)
  /\ Cleaned \/ CleanFails
  /\ down' = TRUE
  /\ UNCHANGED <<kernel, on, handle, runtime, lastKernel,
                 execVars, adapterVars, eventVars, signals, sent, outcome>>

-----------------------------------------------------------------------------
(* restart_notebook.                                                       *)

RestartAcquire(t) ==
  TeardownAcquire(t, "restart", runtime = kern[t] /\ kernel = kern[t], "restart_clean")

RestartCleanThen(t, next) ==
  /\ At(t, "restart_clean")
  /\ \/ Cleaned /\ Go(t, next) /\ UNCHANGED lane
     \/ CleanFails /\ Leave(t)
  /\ UNCHANGED <<kernel, on, handle, runtime, lastKernel,
                 execVars, adapterVars, eventVars, ghostVars>>

\* Mutant: a restart replaces a kernel that is on without shutting it down.
RestartCleanSpares(t) == RestartCleanThen(t, "restart_prepare")
RestartClean(t) == RestartCleanThen(t, IF on THEN "restart_kill" ELSE "restart_prepare")

RestartKill(t) ==
  /\ At(t, "restart_kill")
  /\ \/ handle = 0 /\ Leave(t) /\ UNCHANGED adapterVars
     \/ handle # 0 /\ Shutdown(kern[t]) /\ Go(t, "restart_off") /\ UNCHANGED lane
     \/ handle # 0 /\ ShutdownFails(kern[t]) /\ Leave(t)
  /\ UNCHANGED <<kernelVars, execVars, eventVars, ghostVars>>

RestartOff(t)         == SetOff(t, "restart_off", "restart_announce_off")
RestartAnnounceOff(t) == TellOff(t, "restart_announce_off", "restart_prepare")
RestartPrepare(t)     == Prepare(t, "restart_prepare", "restart_spawn")
RestartSpawn(t)       == Spawn(t, "restart_spawn", "restart_publish")
RestartPublish(t)     == Publish(t, "restart_publish", "restart_announce")
RestartAnnounce(t)    == TellOn(t, "restart_announce")

-----------------------------------------------------------------------------
(* A kernel process may die at any moment.                                 *)

Die(k) ==
  /\ Alive(k)
  /\ proc' = [proc EXCEPT ![k] = "dead"]
  /\ UNCHANGED <<lane, pc, locals, kernelVars, execVars,
                 closed, executing, signalled, prompt, reply, lastPrompt, eventVars, ghostVars>>

-----------------------------------------------------------------------------
(* What the environment asks for, what running code does of its own        *)
(* accord, and what a thread does next because its handler says so.        *)

Request(t) ==
  /\ t \in Requesters /\ ~down
  /\ \/ StartAcquire(t) \/ ExecAcquire(t) \/ IntRequest(t) \/ CompleteAcquire(t)
     \/ StopRequest(t) \/ RestartRequest(t)

ServiceCall(t) == PollAcquire(t) \/ CloseRequest(t)

KernelCode(t) == ExecPrompt(t) \/ ExecReturn(t)

TeardownStep(t) ==
  \/ CancelFails(t) \/ TeardownTimeout(t) \/ TeardownGiveUp(t)
  \/ StopAcquire(t) \/ CloseAcquire(t) \/ RestartAcquire(t)

StartStep(t) ==
  StartClean(t) \/ StartPrepare(t) \/ StartSpawn(t) \/ StartPublish(t) \/ StartAnnounce(t)

ExecStep(t) ==
  \/ ExecActivate(t) \/ ExecBegin(t) \/ ExecPublishPrompt(t) \/ ExecFencePrompt(t)
  \/ ExecSendInput(t) \/ ExecObserveDeath(t) \/ ExecFinish(t) \/ ExecHandoff(t) \/ ExecComplete(t)
  \/ ExecKill(t) \/ ExecClean(t) \/ ExecOff(t) \/ ExecAnnounce(t)

InterruptStep(t) ==
  \/ IntSend(t) \/ IntSendFails(t) \/ IntClear(t) \/ IntRaise(t) \/ IntDiscard(t)
  \/ IntDied(t) \/ IntAnnounce(t)

ProbeStep(t) ==
  \/ CompleteReply(t) \/ CompleteOff(t) \/ CompleteAnnounce(t)
  \/ PollOff(t) \/ PollAnnounce(t) \/ PollKill(t) \/ PollClean(t)

StopStep(t) == StopClean(t) \/ StopKill(t) \/ StopOff(t) \/ StopAnnounce(t) \/ CloseFinal(t)

RestartStep(t) ==
  \/ RestartClean(t) \/ RestartKill(t) \/ RestartOff(t) \/ RestartAnnounceOff(t)
  \/ RestartPrepare(t) \/ RestartSpawn(t) \/ RestartPublish(t) \/ RestartAnnounce(t)

ThreadStep(t) ==
  \/ TeardownStep(t) \/ StartStep(t) \/ ExecStep(t) \/ InterruptStep(t)
  \/ ProbeStep(t) \/ StopStep(t) \/ RestartStep(t)

\* The service has closed its connections and every thread is done.
Exit ==
  /\ down /\ \A t \in Threads : At(t, "idle")
  /\ UNCHANGED vars

Next ==
  \/ \E t \in Threads : Request(t) \/ ServiceCall(t) \/ KernelCode(t) \/ ThreadStep(t)
  \/ SubmitInput
  \/ \E k \in Kernels : Die(k)
  \/ Exit

Spec == Init /\ [][Next]_vars

\* A handler that can take its next step takes it, and the service polls every
\* quarter of a second.  Nothing obliges anybody to make a request, the code in
\* a kernel to return, or a process to die.
Fairness ==
  /\ \A t \in Threads : WF_vars(ThreadStep(t))
  /\ WF_vars(PollAcquire(Service))

FairSpec == Spec /\ Fairness

-----------------------------------------------------------------------------
(* Properties.                                                             *)

ExecutingPcs == {"exec_begin", "exec_run", "exec_prompt", "exec_finish"}
FreshPcs     == {"start_publish", "restart_publish"}
TellOffPcs   == {"exec_announce", "int_announce", "complete_announce", "poll_announce",
                 "stop_announce", "restart_announce_off"}

\* health() reports an execution exactly while the thread that runs it is
\* between publishing and retiring it with the lane in hand, and a prompt only
\* of that execution: neither outlives the request, however it ended.
ActiveHasRunner ==
  /\ active # None <=> (lane # NoThread /\ pc[lane] \in ExecutingPcs)
  /\ active # None => active = <<exe[lane], kern[lane]>>
  /\ pendingInput # None => active # None /\ pendingInput[1] = active[1]

\* A live kernel process is either the one the supervisor can still reach
\* through its handle, or one its starter is about to publish.  It holds when
\* a signal to a live process does not fail and a forced shutdown kills.
NoOrphan ==
  \A k \in Kernels :
    Alive(k) => \/ on /\ kernel = k /\ handle = k
                \/ lane # NoThread /\ pc[lane] \in FreshPcs /\ kern[lane] = k

\* One kernel process at a time, over starts, restarts, deaths and kills.
OneProcess == \A j, k \in Kernels : Alive(j) /\ Alive(k) => j = k

\* Clients, workers and surfaces of an earlier runtime never live beside those
\* of a later one, even when cleaning them up failed.
RuntimesDoNotOverlap == deps \subseteq ({runtime} \ {0})

\* A reply reaches the kernel only for the prompt it was written for, and a
\* prompt is answered at most once, whatever interrupts come in between.
RepliesReachTheirPrompt ==
  /\ \A i \in DOMAIN sent : sent[i][1] = sent[i][2]
  /\ \A i, j \in DOMAIN sent : sent[i][1] = sent[j][1] => i = j

\* An execution reported interrupted got a signal while it was the one running.
\* Where signals can fail, one that was tried on it and failed is enough: its
\* mark is there to be read until the interrupt clears it, without the lock.
GotSignal(e) == signals[e] = "sent" \/ (SignalMayFail /\ signals[e] = "failed")
InterruptedGotSignal == \A e \in Execs : outcome[e] = "interrupted" => GotSignal(e)

\* The feed of kernel.state_changed events loses nothing: a kernel that was
\* announced on and is off has its off event, or a thread about to append it;
\* and no kernel that is on was ever announced off.
NoStateEventLost ==
  \A k \in Kernels :
    /\ (kernel = k /\ on) => offs[k] = 0
    /\ (ons[k] > 0 /\ ~(kernel = k /\ on)) =>
         \/ offs[k] > 0
         \/ \E t \in Threads : pc[t] \in TellOffPcs /\ kern[t] = k

\* Exactly one thread is ever inside a handler that needs the lane, and it is
\* the one _operation_lock is held by.
LaneIsExclusive == \A t \in Threads : pc[t] \in LanePcs <=> lane = t

\* What health() shows of kernels implements KernelGenerations.
Generations == INSTANCE KernelGenerations WITH generation <- kernel, isOn <- on
ImplementsKernelGenerations == Generations!Spec

\* Once a stop or restart waits for the lane its kernel goes off, whatever the
\* running code does: by the interrupt, or by the kill after the first wait and
\* whoever then observes the death.
TeardownTakesEffect ==
  \A k \in Kernels :
    (\E t \in Threads : /\ op[t] \in {"stop", "restart"} /\ kern[t] = k
                        /\ pc[t] \in {"wait", "wait2"})
      ~> ~(kernel = k /\ on)

\* A kernel whose process died is reported off, busy or idle.
DeathIsObserved ==
  \A k \in Kernels : (kernel = k /\ on /\ proc[k] = "dead") ~> ~(kernel = k /\ on)

\* An execution whose kernel died ends: nobody waits for a dead kernel.
DeathEndsExecution ==
  \A e \in Execs : (active[1] = e /\ ~Alive(active[2])) ~> (outcome[e] # "none")

-----------------------------------------------------------------------------
(* What the repository says and the code does not keep.                    *)

\* docs/1.0/invariants.md, 60: an interrupt never falls through to newer work.
InterruptNeverFallsThrough ==
  [][\A t \in Threads : IntSend(t) => active[1] = exe[t]]_vars

\* docs/1.0/adr/0043: stop, restart and close interrupt active work and then
\* wait for the lane, escalating if they must; while the kernel is on they are
\* not turned away by the very work they are to end.
TeardownIsNotTurnedAway ==
  [][\/ inputTeardown' \subseteq inputTeardown
     \/ ~on'
     \/ \E t \in Threads : At(t, "idle") /\ pc'[t] = "wait"]_vars

\* docs/1.0/adr/0043: demonstrated death retires the kernel's clients, surfaces
\* and workers.
DeathRetiresDependents ==
  (~on /\ \A t \in Threads : pc[t] = "idle") => deps = {}

\* close(): the final snapshot leaves no late orphan.
NothingOutlivesClose ==
  (down /\ \A t \in Threads : pc[t] = "idle") => \A k \in Kernels : ~Alive(k)
=============================================================================
