---------------------------- MODULE WorkerChannel ----------------------------
(***************************************************************************)
(* The private channel between the service and one plugin worker:          *)
(* FreshProcessPluginWorker and its _MessageReader (plugin_worker.py) on   *)
(* the owner's side, the receive thread and the main thread of the worker  *)
(* process (plugin_worker_child.py) on the other.                          *)
(*                                                                         *)
(* A request and a stop hold the handle's _lock to their end; an interrupt *)
(* goes around it.  The plugin's own code may answer, refuse, fail, hang   *)
(* or bring the process down.                                              *)
(***************************************************************************)
EXTENDS Naturals, Sequences

CONSTANTS
  MaxRequest,    \* requests (bound)
  MaxInterrupt   \* interrupts (bound)

ASSUME BoundsAssumption == MaxRequest \in Nat /\ MaxInterrupt \in Nat

\* The identity of a message: what an answer is matched by.
Request(n)   == <<"request", n>>
Interrupt(n) == <<"interrupt", n>>
Shutdown     == <<"shutdown", 0>>
Ready        == <<"ready", 0>>
NoRequest    == Request(0)
Requests     == {Request(n) : n \in 1 .. MaxRequest}
Interrupts   == {Interrupt(n) : n \in 1 .. MaxInterrupt}
Ids          == Requests \cup Interrupts \cup {Shutdown, Ready}

Answers == {"ready", "result", "rejected", "failure", "stopped"}

VARIABLES
  owner,        \* the service lives
  start,        \* "waiting" for readiness, "running" or "failed"
  fenced,       \* _fenced
  pending,      \* _MessageReader._pending
  failure,      \* _MessageReader._failure is set, and its thread has ended
  box,          \* per identity, what its channel holds: nothing, an answer or "closed"
  request,      \* where request() is: "idle", "send" or "wait"
  lastRequest,
  interrupt,    \* where interrupt() is, likewise
  lastInterrupt,
  stop,         \* where stop() is: "idle", "send", "wait", "exit", "stopped" or "raised"
  toChild, toParent,  \* the pipes
  alive,        \* the process
  receiver,     \* its receive thread: "none", "reading", "ended" or "crashed"
  main,         \* its main thread: "importing", "idle", "handling", "closing",
                \* "quitting" or "exiting"
  task,         \* the request the main thread is at, or was at last
  tasks,        \* the queue between the two
  active,       \* active["request_id"]
  interrupted,  \* active["interrupted"]
  watchdog,     \* the owner_lost thread runs
  hooked,       \* history: <<target, what was answered to it then>>
  answered      \* history: the requests the worker has answered, and how

ownerVars   == <<owner, start, fenced>>
readerVars  == <<pending, failure, box>>
callVars    == <<request, lastRequest, interrupt, lastInterrupt, stop>>
workerVars  == <<receiver, main, task, tasks, active, interrupted, watchdog>>
historyVars == <<hooked, answered>>
vars == <<ownerVars, readerVars, callVars, toChild, toParent, alive, workerVars, historyVars>>

Init ==
  /\ owner = TRUE /\ start = "waiting" /\ fenced = FALSE
  /\ pending = {Ready} /\ failure = FALSE /\ box = [i \in Ids |-> "empty"]
  /\ request = "idle" /\ lastRequest = 0 /\ interrupt = "idle" /\ lastInterrupt = 0
  /\ stop = "idle"
  /\ toChild = <<>> /\ toParent = <<>> /\ alive = TRUE
  /\ receiver = "none" /\ main = "importing" /\ task = NoRequest /\ tasks = <<>>
  /\ active = NoRequest /\ interrupted = FALSE /\ watchdog = FALSE
  /\ hooked = {} /\ answered = [i \in Requests |-> "nothing"]

-----------------------------------------------------------------------------
(* The owner's side.                                                       *)

\* `_fenced = True; _terminate()`: the process group is dead when it returns.
Terminate == fenced' = TRUE /\ alive' = FALSE

\* register: an identity that comes after the failure gets it at once.
Register(id) ==
  /\ pending' = pending \cup {id}
  /\ box' = [box EXCEPT ![id] = IF failure THEN "closed" ELSE @]
  /\ UNCHANGED failure

\* _send: a dead process cannot be written to, and is terminated for good.
Send(message, Sent, Raised) ==
  \/ /\ alive /\ toChild' = Append(toChild, message)
     /\ Sent /\ UNCHANGED <<fenced, alive>>
  \/ /\ ~alive /\ Terminate
     /\ Raised /\ UNCHANGED toChild

\* _MessageReader.run.
ReadAnswer ==
  LET m == Head(toParent) IN
  /\ owner /\ ~failure /\ toParent # <<>> /\ m.id \in pending
  /\ toParent' = Tail(toParent)
  /\ pending' = pending \ {m.id}
  /\ box' = [box EXCEPT ![m.id] = m.kind]
  /\ UNCHANGED <<ownerVars, failure, callVars, toChild, alive, workerVars, historyVars>>

\* An answer nobody waits for, or the end of the pipe: everybody is told.
ReaderFailsFor(told) ==
  /\ owner /\ ~failure
  /\ IF toParent = <<>> THEN ~alive ELSE Head(toParent).id \notin pending
  /\ failure' = TRUE
  /\ box' = [i \in Ids |-> IF i \in told THEN "closed" ELSE box[i]]
  /\ pending' = {}
  /\ UNCHANGED <<ownerVars, callVars, toChild, toParent, alive, workerVars, historyVars>>

\* Mutant: only the calls to come are told.
ReaderFailsSilently == ReaderFailsFor({})
ReaderFails == ReaderFailsFor(pending)

\* FreshProcessPluginWorkerFactory.start, after the process is spawned.
StartEnds ==
  /\ owner /\ start = "waiting"
  /\ \/ box[Ready] = "ready" /\ start' = "running" /\ UNCHANGED <<fenced, alive>>
     \/ box[Ready] # "ready" /\ start' = "failed" /\ Terminate
  /\ UNCHANGED <<owner, readerVars, callVars, toChild, toParent, workerVars, historyVars>>

Locked == request # "idle" \/ stop \in {"send", "wait", "exit"}

RequestBegin ==
  /\ owner /\ start = "running" /\ ~Locked /\ lastRequest < MaxRequest
  /\ ~fenced /\ alive
  /\ request' = "send" /\ lastRequest' = lastRequest + 1
  /\ Register(Request(lastRequest + 1))
  /\ UNCHANGED <<ownerVars, interrupt, lastInterrupt, stop, toChild, toParent, alive,
                 workerVars, historyVars>>

RequestSend ==
  /\ owner /\ request = "send"
  /\ Send([kind |-> "request", id |-> Request(lastRequest), target |-> NoRequest],
          request' = "wait", request' = "idle")
  /\ UNCHANGED <<owner, start, readerVars, lastRequest, interrupt, lastInterrupt, stop,
                 toParent, workerVars, historyVars>>

\* A result, or a refusal of the worker, leaves it in use; anything else ends it.
RequestReturn ==
  /\ owner /\ request = "wait" /\ box[Request(lastRequest)] # "empty"
  /\ request' = "idle"
  /\ IF box[Request(lastRequest)] \in {"result", "rejected"}
     THEN UNCHANGED <<fenced, alive>>
     ELSE Terminate
  /\ UNCHANGED <<owner, start, readerVars, lastRequest, interrupt, lastInterrupt, stop,
                 toChild, toParent, workerVars, historyVars>>

\* A request may have a timeout; what it did until then is done.
RequestTimeout ==
  /\ owner /\ request = "wait" /\ box[Request(lastRequest)] = "empty"
  /\ request' = "idle" /\ Terminate
  /\ UNCHANGED <<owner, start, readerVars, lastRequest, interrupt, lastInterrupt, stop,
                 toChild, toParent, workerVars, historyVars>>

InterruptBegin ==
  /\ owner /\ start = "running" /\ interrupt = "idle" /\ lastInterrupt < MaxInterrupt
  /\ lastRequest > 0
  /\ interrupt' = "send" /\ lastInterrupt' = lastInterrupt + 1
  /\ Register(Interrupt(lastInterrupt + 1))
  /\ UNCHANGED <<ownerVars, request, lastRequest, stop, toChild, toParent, alive,
                 workerVars, historyVars>>

InterruptSend ==
  /\ owner /\ interrupt = "send"
  /\ \E n \in 1 .. lastRequest :
       Send([kind |-> "interrupt", id |-> Interrupt(lastInterrupt), target |-> Request(n)],
            interrupt' = "wait", interrupt' = "idle")
  /\ UNCHANGED <<owner, start, readerVars, request, lastRequest, lastInterrupt, stop,
                 toParent, workerVars, historyVars>>

InterruptReturn ==
  /\ owner /\ interrupt = "wait" /\ box[Interrupt(lastInterrupt)] # "empty"
  /\ interrupt' = "idle"
  /\ IF box[Interrupt(lastInterrupt)] \in {"result", "rejected"}
     THEN UNCHANGED <<fenced, alive>>
     ELSE Terminate
  /\ UNCHANGED <<owner, start, readerVars, request, lastRequest, lastInterrupt, stop,
                 toChild, toParent, workerVars, historyVars>>

InterruptTimeoutLeaving(registered) ==
  /\ owner /\ interrupt = "wait" /\ box[Interrupt(lastInterrupt)] = "empty"
  /\ interrupt' = "idle"
  /\ pending' = registered
  /\ UNCHANGED <<ownerVars, failure, box, request, lastRequest, lastInterrupt, stop,
                 toChild, toParent, alive, workerVars, historyVars>>

\* Mutant: an interrupt that gives up takes its identity back.
InterruptTimeoutForgets == InterruptTimeoutLeaving(pending \ {Interrupt(lastInterrupt)})
\* The identity stays registered, and the work goes on.
InterruptTimeout == InterruptTimeoutLeaving(pending)

\* stop() while a request holds the lock.
StopBusy ==
  /\ owner /\ start = "running" /\ stop \in {"idle", "raised"} /\ request # "idle"
  /\ Terminate /\ stop' = "stopped"
  /\ UNCHANGED <<owner, start, readerVars, request, lastRequest, interrupt, lastInterrupt,
                 toChild, toParent, workerVars, historyVars>>

StopBegin ==
  /\ owner /\ start = "running" /\ stop \in {"idle", "raised"} /\ request = "idle"
  /\ fenced' = TRUE
  /\ IF alive
     THEN stop' = "send" /\ Register(Shutdown)
     ELSE stop' = "stopped" /\ UNCHANGED readerVars
  /\ UNCHANGED <<owner, start, request, lastRequest, interrupt, lastInterrupt,
                 toChild, toParent, alive, workerVars, historyVars>>

StopSend ==
  /\ owner /\ stop = "send"
  /\ Send([kind |-> "shutdown", id |-> Shutdown, target |-> NoRequest],
          stop' = "wait", stop' = "raised")
  /\ UNCHANGED <<owner, start, readerVars, request, lastRequest, interrupt, lastInterrupt,
                 toParent, workerVars, historyVars>>

StopAnsweredGoingTo(next) ==
  /\ owner /\ stop = "wait"
  /\ IF box[Shutdown] = "stopped"
     THEN stop' = next /\ UNCHANGED <<fenced, alive>>
     ELSE box[Shutdown] # "empty" /\ stop' = "raised" /\ Terminate
  /\ UNCHANGED <<owner, start, readerVars, request, lastRequest, interrupt, lastInterrupt,
                 toChild, toParent, workerVars, historyVars>>

\* Mutant: the worker's word is taken for its exit.
StopAnsweredIsStopped == StopAnsweredGoingTo("stopped")
StopAnswered == StopAnsweredGoingTo("exit")

\* The process is gone, with status 0 or another.
StopExited ==
  /\ owner /\ stop = "exit" /\ ~alive
  /\ stop' \in {"stopped", "raised"}
  /\ UNCHANGED <<ownerVars, readerVars, request, lastRequest, interrupt, lastInterrupt,
                 toChild, toParent, alive, workerVars, historyVars>>

StopTimeout ==
  /\ owner
  /\ \/ stop = "wait" /\ box[Shutdown] = "empty"
     \/ stop = "exit" /\ alive
  /\ stop' = "raised" /\ Terminate
  /\ UNCHANGED <<owner, start, readerVars, request, lastRequest, interrupt, lastInterrupt,
                 toChild, toParent, workerVars, historyVars>>

\* The service is killed.
OwnerDies ==
  /\ owner /\ owner' = FALSE
  /\ UNCHANGED <<start, fenced, readerVars, callVars, toChild, toParent, alive, workerVars,
                 historyVars>>

-----------------------------------------------------------------------------
(* The worker process.                                                     *)

Quit == <<"quit", 0>>

Dies == alive' = FALSE /\ UNCHANGED <<toParent, workerVars, historyVars>>

\* send: without an owner the pipe is broken, and so is the thread that writes.
Reply(kind, id) == toParent' = Append(toParent, [kind |-> kind, id |-> id])
Answer(kind, id) == Reply(kind, id) /\ answered' = [answered EXCEPT ![id] = kind]

worldVars == <<ownerVars, readerVars, callVars>>

ImportEnds ==
  /\ alive /\ main = "importing"
  /\ \/ /\ owner /\ Reply("ready", Ready)
        /\ main' = "idle" /\ receiver' = "reading"
        /\ UNCHANGED <<alive, task, tasks, active, interrupted, watchdog, historyVars>>
     \/ Dies
  /\ UNCHANGED <<worldVars, toChild>>

Receives(kind) ==
  /\ alive /\ receiver = "reading" /\ toChild # <<>> /\ Head(toChild).kind = kind
  /\ toChild' = Tail(toChild)
  /\ UNCHANGED <<worldVars, alive, main, task>>

\* Nothing around the answers of this thread catches a broken pipe.
ReceiverCrashes ==
  /\ ~owner /\ receiver' = "crashed" /\ UNCHANGED <<toParent, answered>>

\* An ordinary request: one at a time.
ReceiveRequest ==
  LET id == Head(toChild).id IN
  /\ Receives("request")
  /\ IF active = NoRequest
     THEN /\ active' = id /\ tasks' = Append(tasks, id)
          /\ UNCHANGED <<toParent, receiver, answered>>
     ELSE /\ \/ owner /\ Answer("rejected", id) /\ UNCHANGED receiver
             \/ ReceiverCrashes
          /\ UNCHANGED <<active, tasks>>
  /\ UNCHANGED <<interrupted, watchdog, hooked>>

\* The plugin's hook runs for a target that is still active and was not asked
\* before; it may be missing, and it may raise.
ReceiveInterruptIf(matches) ==
  LET m == Head(toChild) IN
  /\ Receives("interrupt")
  /\ \E kind \in {"result", "rejected"} :
       /\ matches \/ kind = "rejected"
       /\ interrupted /\ matches => kind = "result"
       /\ \/ owner /\ Reply(kind, m.id) /\ UNCHANGED <<receiver, answered>>
          \/ ReceiverCrashes
       /\ interrupted' = (interrupted \/ kind = "result")
       /\ hooked' = IF kind = "result" /\ ~interrupted
                    THEN hooked \cup {<<m.target, answered[m.target]>>} ELSE hooked
  /\ UNCHANGED <<active, tasks, watchdog>>

\* Mutant: whatever runs is interrupted.
ReceiveInterruptOfAny == ReceiveInterruptIf(active # NoRequest)
ReceiveInterrupt == ReceiveInterruptIf(active # NoRequest /\ active = Head(toChild).target)

ReceiveShutdown ==
  /\ Receives("shutdown")
  /\ tasks' = Append(tasks, Shutdown) /\ receiver' = "ended"
  /\ UNCHANGED <<toParent, active, interrupted, watchdog, historyVars>>

\* The end of the pipe: the owner is gone.
OwnerLostWith(dog) ==
  /\ alive /\ receiver = "reading" /\ toChild = <<>> /\ ~owner
  /\ watchdog' = dog /\ tasks' = Append(tasks, Quit) /\ receiver' = "ended"
  /\ UNCHANGED <<worldVars, toChild, toParent, alive, main, task, active, interrupted, historyVars>>

\* Mutant: the main thread alone is asked to end.
OwnerLostNoWatchdog == OwnerLostWith(FALSE)
OwnerLost == OwnerLostWith(TRUE)

\* The main thread takes the next task.
MainTakeAsRequest(handled) ==
  /\ alive /\ main = "idle" /\ tasks # <<>>
  /\ tasks' = Tail(tasks)
  /\ task' = IF Head(tasks) \in handled THEN Head(tasks) ELSE task
  /\ main' = CASE Head(tasks) \in handled  -> "handling"
               [] Head(tasks) = Quit      -> "quitting"
               [] Head(tasks) = Shutdown  -> "closing"
  /\ UNCHANGED <<worldVars, toChild, toParent, alive, receiver, active, interrupted, watchdog,
                 historyVars>>

\* Mutant: a shutdown goes to the plugin's handler.
MainTakeAny == MainTakeAsRequest(Requests \cup {Shutdown})
MainTake == MainTakeAsRequest(Requests)

\* handle: a result and a refusal are sent, and the request is retired, in one hold
\* of active_lock; a failure retires nothing.
MainAnswerRetiring(retired) ==
  /\ alive /\ main = "handling"
  /\ \/ /\ owner
        /\ \E kind \in {"result", "rejected", "failure"} :
             /\ Answer(kind, task)
             /\ IF kind \in retired
                THEN active' = NoRequest /\ interrupted' = FALSE
                ELSE UNCHANGED <<active, interrupted>>
        /\ main' = "idle"
        /\ UNCHANGED <<alive, receiver, task, tasks, watchdog, hooked>>
     \/ ~owner /\ Dies
  /\ UNCHANGED <<worldVars, toChild>>

\* Mutant: a refused request stays active.
MainAnswerKeepsRefused == MainAnswerRetiring({"result"})
MainAnswer == MainAnswerRetiring({"result", "rejected"})

\* The plugin's close, and the answer to the shutdown.
MainClose ==
  /\ alive /\ main = "closing"
  /\ \/ /\ owner /\ Reply("stopped", Shutdown) /\ main' = "exiting"
        /\ UNCHANGED <<alive, receiver, task, tasks, active, interrupted, watchdog, historyVars>>
     \/ Dies
  /\ UNCHANGED <<worldVars, toChild>>

MainExits  == alive /\ main = "exiting" /\ Dies /\ UNCHANGED <<worldVars, toChild>>
MainQuits  == alive /\ main = "quitting" /\ Dies /\ UNCHANGED <<worldVars, toChild>>
Watchdog   == alive /\ watchdog /\ Dies /\ UNCHANGED <<worldVars, toChild>>
\* The plugin brings the process down, or somebody kills it.
Crash      == alive /\ Dies /\ UNCHANGED <<worldVars, toChild>>

-----------------------------------------------------------------------------
Handle ==
  \/ StartEnds \/ RequestBegin \/ RequestSend \/ RequestReturn \/ RequestTimeout
  \/ InterruptBegin \/ InterruptSend \/ InterruptReturn \/ InterruptTimeout
  \/ StopBusy \/ StopBegin \/ StopSend \/ StopAnswered \/ StopExited \/ StopTimeout

Receive == ReceiveRequest \/ ReceiveInterrupt \/ ReceiveShutdown \/ OwnerLost

Next ==
  \/ Handle \/ ReadAnswer \/ ReaderFails \/ OwnerDies
  \/ ImportEnds \/ Receive \/ MainTake \/ MainAnswer \/ MainClose \/ MainExits \/ MainQuits
  \/ Watchdog \/ Crash

Spec == Init /\ [][Next]_vars

\* The receive thread is to call, or is in, the plugin's interrupt hook.
AtHook ==
  /\ receiver = "reading" /\ toChild # <<>> /\ Head(toChild).kind = "interrupt"
  /\ active # NoRequest /\ active = Head(toChild).target /\ ~interrupted

\* Threads run and timeouts expire, but a request need not have one.  The plugin's own
\* code may hang wherever it runs: its import, its handler, its hook and its close.
FairSpec ==
  /\ Spec
  /\ WF_vars(ReadAnswer) /\ WF_vars(ReaderFails)
  /\ WF_vars(RequestSend) /\ WF_vars(RequestReturn)
  /\ WF_vars(InterruptSend) /\ WF_vars(InterruptReturn \/ InterruptTimeout)
  /\ WF_vars(Receive /\ ~AtHook) /\ WF_vars(MainTake) /\ WF_vars(Watchdog)

-----------------------------------------------------------------------------
(* Properties.                                                             *)

\* Type invariant: the handle, the pipes, and the threads of the worker.
TypeOK ==
  /\ owner \in BOOLEAN /\ start \in {"waiting", "running", "failed"} /\ fenced \in BOOLEAN
  /\ pending \subseteq Ids /\ failure \in BOOLEAN
  /\ box \in [Ids -> Answers \cup {"empty", "closed"}]
  /\ request \in {"idle", "send", "wait"} /\ interrupt \in {"idle", "send", "wait"}
  /\ lastRequest \in 0 .. MaxRequest /\ lastInterrupt \in 0 .. MaxInterrupt
  /\ stop \in {"idle", "send", "wait", "exit", "stopped", "raised"}
  /\ toChild \in Seq([kind : {"request", "interrupt", "shutdown"}, id : Ids,
                      target : Requests \cup {NoRequest}])
  /\ toParent \in Seq([kind : Answers, id : Ids]) /\ alive \in BOOLEAN
  /\ receiver \in {"none", "reading", "ended", "crashed"}
  /\ main \in {"importing", "idle", "handling", "closing", "quitting", "exiting"}
  /\ task \in Requests \cup {NoRequest} /\ tasks \in Seq(Requests \cup {Shutdown, Quit})
  /\ active \in Requests \cup {NoRequest}
  /\ interrupted \in BOOLEAN /\ watchdog \in BOOLEAN
  /\ hooked \subseteq Requests \X (Answers \cup {"nothing"})
  /\ answered \in [Requests -> Answers \cup {"nothing"}]

\* An interrupt never reaches the plugin for work that was done already, nor for
\* the work that came after it: not after a result or a refusal was sent.
InterruptHitsItsTarget ==
  \A h \in hooked : h[2] \in {"nothing", "failure"}

\* The service, which asks for one thing at a time, is never told that its worker
\* is busy: when an answer can be read its request is retired already.
WorkerIsFree ==
  alive /\ ~fenced /\ request \in {"idle", "send"} => active = NoRequest

\* Every answer on its way is expected, however late: no answer to a call that gave
\* up makes the reader declare the channel broken and cost the client its worker.
AnswersAreExpected ==
  owner /\ ~failure =>
    \A i \in 1 .. Len(toParent) :
      /\ toParent[i].id \in pending
      /\ \A j \in 1 .. i - 1 : toParent[j].id # toParent[i].id

\* A handle that was stopped, or that gave up on its worker, has no process.
FencedIsDead ==
  /\ stop \in {"stopped", "raised"} => ~alive
  /\ fenced => ~alive \/ stop \in {"send", "wait", "exit"}

\* Nobody waits for an answer of a dead worker, with a timeout or without.
CallsEnd == ~alive ~> (~owner \/ (request = "idle" /\ interrupt = "idle"))

\* A worker that was imported does not outlive the service, even if its plugin's
\* handler never returns: unless the receive thread crashed before it could notice,
\* is held for ever by the plugin's hook, or has done its work with a shutdown that
\* the plugin does not come to the end of.
OwnerLossEndsWorker ==
  \/ <>[]AtHook
  \/ ~owner /\ main # "importing" ~>
       (~alive \/ receiver = "crashed" \/ main \in {"closing", "exiting"})
=============================================================================
