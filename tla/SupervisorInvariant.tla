------------------------ MODULE SupervisorInvariant ------------------------
(***************************************************************************)
(* The inductive invariants of Supervisor: what is true between any two    *)
(* steps of the handlers, stated by the place a thread is at.              *)
(* LaneInvariant is about the lane, the kernel and its execution; the four *)
(* after it hold beside it, ProcessInvariant only when signals and         *)
(* shutdowns do not fail.                                                  *)
(***************************************************************************)
EXTENDS Supervisor

\* Places where the lane holder works on the current kernel: nobody else
\* publishes another one meanwhile.
CurrentPcs ==
  ExecPcs \cup ProbePcs \cup
  {"start_announce", "stop_clean", "stop_kill", "stop_off", "stop_announce",
   "restart_clean", "restart_kill", "restart_off", "restart_announce_off",
   "restart_prepare", "restart_announce"}

\* Places of a replacement, before and after its generation is allocated: the
\* kernel is off, and nobody can turn one on.
QuietPcs == {"start_clean", "start_prepare", "restart_announce_off", "restart_prepare"}
NewPcs   == {"start_spawn", "start_publish", "restart_spawn", "restart_publish"}

\* Places reached only once the dependents of the current runtime are gone.
EmptyPcs == {"start_prepare", "restart_kill", "restart_off",
             "restart_announce_off", "restart_prepare"}

\* The lane holder and the kernel resource.
HoldsCurrent == \A t \in Threads : pc[t] \in CurrentPcs => kern[t] = kernel /\ kernel # 0
HandleOfOn   == on => kernel # 0 /\ handle = kernel
QuietIsOff   == \A t \in Threads : pc[t] \in QuietPcs \cup NewPcs => ~on
FreshIsNew   == \A t \in Threads :
                  pc[t] \in NewPcs => kern[t] = lastKernel /\ kernel < lastKernel /\ runtime = 0
KernelIsOld  == kernel <= lastKernel

\* The dependents: gone before the runtime is forgotten.
EmptyIsEmpty == \A t \in Threads : pc[t] \in EmptyPcs => deps = {}

\* The active execution and the thread that runs it.
RunnerHasExecution == \A t \in Threads : pc[t] \in ExecPcs => exe[t] # 0
InterrupterHasExecution == \A t \in Threads : At(t, "int_send") => exe[t] # 0
RestartHasRuntime       == \A t \in Threads : op[t] = "restart" => kern[t] # 0
RunnerIsActive     == \A t \in Threads :
                        pc[t] \in ExecutingPcs => active = <<exe[t], kern[t]>>
ActiveIsRun        == active # None => \E t \in Threads : pc[t] \in ExecutingPcs
CancelledIsActive  == \A t \in Threads :
                        At(t, "cancel_clear") => active # None /\ active[2] = kern[t]
PromptIsOfActive   == pendingInput # None => active # None /\ pendingInput[1] = active[1]

KernelInvariant     == HoldsCurrent /\ HandleOfOn /\ QuietIsOff /\ FreshIsNew /\ KernelIsOld
DependentsInvariant == RuntimesDoNotOverlap /\ EmptyIsEmpty
ExecutionInvariant  ==
  /\ RunnerHasExecution /\ InterrupterHasExecution /\ RestartHasRuntime
  /\ RunnerIsActive /\ ActiveIsRun /\ CancelledIsActive /\ PromptIsOfActive

LaneInvariant ==
  /\ TypeOK
  /\ LaneIsExclusive
  /\ KernelInvariant
  /\ DependentsInvariant
  /\ ExecutionInvariant

-----------------------------------------------------------------------------
(* The feed of kernel.state_changed events.                                *)

TellOnPcs    == {"start_announce", "restart_announce"}

\* An off event is only ever of a kernel that is off, and about to be appended
\* only for one; what was once published is never above the current kernel.
ToldIsOff     == \A k \in Kernels : offs[k] > 0 => k <= kernel /\ ~(kernel = k /\ on)
TellerIsOff   == \A t \in Threads :
                   pc[t] \in TellOffPcs => kern[t] <= kernel /\ ~(kernel = kern[t] /\ on)
\* Until a new kernel is announced nobody interrupts it, and it stays on.
AnnouncedIsOn == \A t \in Threads : pc[t] \in TellOnPcs => on
InterruptedIsOld ==
  \A u \in Threads :
    pc[u] \in InterruptPcs => /\ kern[u] <= kernel
                              /\ (\E t \in Threads : pc[t] \in TellOnPcs) => kern[u] < kernel

EventInvariant ==
  ToldIsOff /\ TellerIsOff /\ AnnouncedIsOn /\ InterruptedIsOld /\ NoStateEventLost

-----------------------------------------------------------------------------
(* Prompts and replies.                                                    *)

PromptIsAsked  == \A k \in Kernels : prompt[k] <= lastPrompt
PromptIsUnique == \A j, k \in Kernels : prompt[j] = prompt[k] /\ prompt[j] # 0 => j = k
ReplyIsToPrompt == \A k \in Kernels : reply[k] # 0 => reply[k] = prompt[k]
SentIsAsked    == \A i \in DOMAIN sent : sent[i][1] <= lastPrompt
SentIsClosed   == \A i \in DOMAIN sent : \A k \in Kernels :
                    prompt[k] # 0 => sent[i][1] # prompt[k]

PromptInvariant ==
  /\ PromptIsAsked /\ PromptIsUnique /\ ReplyIsToPrompt /\ SentIsAsked /\ SentIsClosed
  /\ RepliesReachTheirPrompt

-----------------------------------------------------------------------------
(* Signals and the executions they reach.                                  *)

\* The runner is inside the adapter's execute.
RunPcs == {"exec_run", "exec_prompt"}

ExecutingIsRun     == \A k \in executing : \E t \in Threads : pc[t] \in RunPcs /\ kern[t] = k
SignalIsDelivered  == \A t \in Threads :
                        pc[t] \in RunPcs /\ kern[t] \in signalled => GotSignal(exe[t])
ResultIsOfRunner   == \A t \in Threads : res[t] # "none" => pc[t] \in ExecPcs
InterruptIsReal    == \A t \in Threads : res[t] = "interrupted" => GotSignal(exe[t])

SignalInvariant ==
  /\ ExecutingIsRun /\ SignalIsDelivered /\ ResultIsOfRunner /\ InterruptIsReal
  /\ InterruptedGotSignal

-----------------------------------------------------------------------------
(* Processes, when signals and shutdowns do not fail.                      *)

\* Places reached only when a signal to a live process failed.
NoSignalFailed == \A t \in Threads : pc[t] \notin {"int_clear", "cancel_clear"}

SpawnPcs == {"start_spawn", "restart_spawn"}
\* Threads that captured a kernel that had been published.
StartedPcs == (CurrentPcs \ {"restart_clean", "restart_prepare", "restart_announce_off"})
                \cup InterruptPcs
\* Places where the captured kernel was seen dead or shut down.
DeadPcs    == {"int_failed", "int_died", "exec_clean", "exec_off", "complete_off", "poll_off",
               "stop_off", "restart_off"}

\* What a thread may rely on where it is: the process it is to start does not
\* exist, the one it started or captured did, the one it saw dead is.
ThreadKnows(t) ==
  /\ pc[t] \in SpawnPcs => proc[kern[t]] = "none"
  /\ pc[t] \in FreshPcs => proc[kern[t]] # "none"
  /\ pc[t] \in StartedPcs => kern[t] \in Kernels /\ proc[kern[t]] # "none"
  /\ pc[t] \in DeadPcs => ~Alive(kern[t])

ClosedIsDead   == \A k \in closed : proc[k] = "dead"
FutureIsUnborn == \A k \in Kernels : k > lastKernel => proc[k] = "none"
OnIsBorn       == on => proc[kernel] # "none"
AliveIsReached ==
  \A k \in Kernels :
    Alive(k) => (on /\ kernel = k) \/ \E t \in Threads : pc[t] \in FreshPcs /\ kern[t] = k

ProcessInvariant ==
  /\ ClosedIsDead /\ FutureIsUnborn /\ OnIsBorn /\ AliveIsReached
  /\ \A t \in Threads : ThreadKnows(t)
=============================================================================
