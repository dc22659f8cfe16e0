----------------------- MODULE SupervisorSafetyProofs -----------------------
(***************************************************************************)
(* The safety properties of the kernel lane that need more than            *)
(* LaneInvariant, for every number of threads, kernels, executions and     *)
(* prompts: no state event is lost, replies reach their prompt, an         *)
(* execution called interrupted got a signal, no process is orphaned.      *)
(*                                                                         *)
(* Each has an invariant of its own in SupervisorInvariant, inductive      *)
(* beside LaneInvariant.  A section says what a step may do to the state   *)
(* the invariant relates, which handlers take which kind of step, and that *)
(* every kind keeps the invariant.                                         *)
(***************************************************************************)
EXTENDS SupervisorProofs

-----------------------------------------------------------------------------
(* Prompts and replies.                                                    *)

\* What a step may do to the prompts of an adapter and to what was sent.
Opens(k) ==
  /\ lastPrompt' = lastPrompt + 1
  /\ prompt' = [prompt EXCEPT ![k] = lastPrompt + 1]
  /\ reply' = [reply EXCEPT ![k] = 0]
  /\ UNCHANGED sent
Closes(k) ==
  /\ prompt' = [prompt EXCEPT ![k] = 0]
  /\ reply' = [reply EXCEPT ![k] = 0]
  /\ UNCHANGED <<lastPrompt, sent>>
Sends(k) ==
  /\ prompt[k] # 0 /\ reply[k] # 0
  /\ sent' = Append(sent, <<prompt[k], reply[k]>>)
  /\ prompt' = [prompt EXCEPT ![k] = 0]
  /\ reply' = [reply EXCEPT ![k] = 0]
  /\ UNCHANGED lastPrompt
Queues(k) ==
  /\ reply' = [reply EXCEPT ![k] = prompt[k]]
  /\ UNCHANGED <<prompt, lastPrompt, sent>>
KeepsPrompts == UNCHANGED <<prompt, reply, lastPrompt, sent>>

\* Only the runner of an execution and submit_input do anything to a prompt.
LEMMA PromptSteps ==
  ASSUME LaneInvariant, [Next]_vars
  PROVE  KeepsPrompts \/ \E k \in Kernels : Opens(k) \/ Closes(k) \/ Sends(k) \/ Queues(k)
<1> USE DEF KeepsPrompts, adapterVars, ghostVars
<1>1. ASSUME NEW t \in Threads,
             \/ ExecPrompt(t) \/ ExecFencePrompt(t) \/ ExecSendInput(t) \/ ExecReturn(t)
             \/ ExecObserveDeath(t)
      PROVE  KeepsPrompts \/ \E k \in Kernels : Opens(k) \/ Closes(k) \/ Sends(k)
  <2>1. pc[t] \in CurrentPcs
    BY <1>1 DEF ExecPrompt, ExecFencePrompt, ExecSendInput, ExecReturn, ExecObserveDeath,
                AdapterReturns, Step, At, CurrentPcs, ExecPcs
  <2>2. kern[t] \in Kernels
    BY <2>1, References
  <2>3. CASE ExecPrompt(t)
    BY <2>2, <2>3 DEF ExecPrompt, Opens
  <2>4. CASE ExecFencePrompt(t)
    BY <2>2, <2>4 DEF ExecFencePrompt, FinishExecution, Closes
  <2>5. CASE ExecSendInput(t)
    BY <2>2, <2>5 DEF ExecSendInput, Closes, Sends
  <2>6. CASE ExecReturn(t) \/ ExecObserveDeath(t)
    BY <2>2, <2>6 DEF ExecReturn, ExecObserveDeath, AdapterReturns, FinishExecution, Closes
  <2> QED BY <1>1, <2>3, <2>4, <2>5, <2>6
<1>2. ASSUME NEW t \in Threads,
             \/ StartAcquire(t) \/ StartStep(t)
             \/ ExecAcquire(t) \/ ExecActivate(t) \/ ExecBegin(t) \/ ExecPublishPrompt(t)
             \/ ExecFinish(t) \/ ExecHandoff(t) \/ ExecComplete(t) \/ ExecKill(t) \/ ExecClean(t)
             \/ ExecOff(t) \/ ExecAnnounce(t)
      PROVE  KeepsPrompts
  BY <1>2 DEF StartAcquire, StartWhen, StartStep, StartClean, StartCleanOr, StartPrepare, Prepare,
              PrepareAs, StartSpawn, Spawn, StartPublish, Publish, StartAnnounce, TellOn,
              ExecAcquire, ExecActivate, ExecBegin, ExecPublishPrompt, ExecFinish, Finish,
              ExecHandoff, ExecComplete, ExecKill, Shutdown, ShutdownFails, ExecClean, ExecOff,
              SetOff, ExecAnnounce, TellOff
<1>3. ASSUME NEW t \in Threads,
             \/ IntRequest(t) \/ InterruptStep(t) \/ CompleteAcquire(t) \/ PollAcquire(t)
             \/ ProbeStep(t)
      PROVE  KeepsPrompts
  BY <1>3 DEF IntRequest, IntRequestWhen, InterruptStep, IntSend, IntSendFails, IntSignal, IntClear,
              IntRaise, IntDiscard, IntDied, IntAnnounce, CompleteAcquire, PollAcquire, PollWhen, ProbeStep,
              CompleteReply, CompleteOff, CompleteAnnounce, PollOff, PollAnnounce, PollKill, PollClean, SetOff, TellOff,
              Shutdown, ShutdownFails
<1>4. ASSUME NEW t \in Threads,
             \/ StopRequest(t) \/ RestartRequest(t) \/ CloseRequest(t) \/ TeardownStep(t)
             \/ StopStep(t) \/ RestartStep(t)
      PROVE  KeepsPrompts
  BY <1>4 DEF StopRequest, RestartRequest, CloseRequest, Teardown, TeardownStep, CancelFails,
              TeardownTimeout, TeardownGiveUp, StopAcquire, CloseAcquire, RestartAcquire,
              TeardownAcquire, StopStep, StopClean, StopKill, StopOff, StopAnnounce, CloseFinal,
              RestartStep, RestartClean, RestartCleanThen, RestartKill, RestartOff,
              RestartAnnounceOff, RestartPrepare, Prepare, PrepareAs, RestartSpawn, Spawn,
              RestartPublish, Publish, RestartAnnounce, TellOn, SetOff, TellOff,
              Shutdown, ShutdownFails
<1>5. ASSUME SubmitInput
      PROVE  \E k \in Kernels : Queues(k)
  BY <1>5, ActiveReferences DEF SubmitInput, Submit, Queues
<1>6. ASSUME (\E k \in Kernels : Die(k)) \/ UNCHANGED vars
      PROVE  KeepsPrompts
  BY <1>6 DEF Die, vars
<1> QED BY <1>1, <1>2, <1>3, <1>4, <1>5, <1>6
        DEF Next, Exit, Request, ServiceCall, KernelCode, ThreadStep, ExecStep

\* A prompt number is used once, and what is sent names the prompt it was
\* written for.
LEMMA KeepsPromptInvariant ==
  ASSUME LaneInvariant, PromptInvariant, [Next]_vars
  PROVE  PromptInvariant'
<1> USE DEF PromptInvariant, PromptIsAsked, PromptIsUnique, ReplyIsToPrompt, SentIsAsked,
            SentIsClosed, RepliesReachTheirPrompt
<1>1. /\ prompt \in [Kernels -> Nat] /\ reply \in [Kernels -> Nat] /\ lastPrompt \in Nat
      /\ sent \in Seq((0..MaxPrompt) \X (0..MaxPrompt))
  BY BoundAssumption DEF LaneInvariant, TypeOK, AdapterOK, HistoryOK
<1>0. \A i \in DOMAIN sent : sent[i][1] \in Nat
  BY <1>1, BoundAssumption
<1>2. CASE KeepsPrompts
  BY <1>2 DEF KeepsPrompts
<1>3. ASSUME NEW k \in Kernels, Opens(k)
      PROVE  PromptInvariant'
  BY <1>0, <1>1, <1>3 DEF Opens
<1>4. ASSUME NEW k \in Kernels, Closes(k)
      PROVE  PromptInvariant'
  BY <1>1, <1>4 DEF Closes
<1>5. ASSUME NEW k \in Kernels, Sends(k)
      PROVE  PromptInvariant'
  <2>1. DOMAIN sent' = DOMAIN sent \cup {Len(sent) + 1} /\ Len(sent) \in Nat
        /\ \A i \in DOMAIN sent : sent'[i] = sent[i]
        /\ sent'[Len(sent) + 1] = <<prompt[k], prompt[k]>>
        /\ Len(sent) + 1 \notin DOMAIN sent
    BY <1>1, <1>5 DEF Sends
  <2> QED BY <1>1, <1>5, <2>1 DEF Sends
<1>6. ASSUME NEW k \in Kernels, Queues(k)
      PROVE  PromptInvariant'
  BY <1>1, <1>6 DEF Queues
<1> QED BY <1>2, <1>3, <1>4, <1>5, <1>6, PromptSteps

-----------------------------------------------------------------------------
(* The feed of kernel.state_changed events.                                *)

\* A step that tells nothing and turns nothing on or off.
Untold(t) ==
  /\ UNCHANGED <<kernel, on, ons, offs>>
  /\ pc[t] \notin TellOffPcs
  /\ \A u \in Threads \ {t} : pc'[u] = pc[u] /\ kern'[u] = kern[u]

\* Its thread ends at a place that is about to tell nothing either.
LEMMA UntoldKeepsEvents ==
  ASSUME EventInvariant, NEW t \in Threads, Untold(t),
         pc'[t] \notin TellOffPcs \cup TellOnPcs \cup InterruptPcs
  PROVE  EventInvariant'
<1> USE DEF EventInvariant, Untold
<1>1. ToldIsOff' /\ AnnouncedIsOn'
  BY DEF ToldIsOff, AnnouncedIsOn
<1>2. TellerIsOff'
  BY DEF TellerIsOff
<1>3. InterruptedIsOld'
  BY DEF InterruptedIsOld
<1>4. NoStateEventLost'
  BY DEF NoStateEventLost
<1> QED BY <1>1, <1>2, <1>3, <1>4

\* Handlers that tell nothing where they are, and go on to such a place.
LEMMA UntoldSteps ==
  ASSUME LaneInvariant, NEW t \in Threads,
         \/ StartAcquire(t) \/ StartClean(t) \/ StartPrepare(t) \/ StartSpawn(t)
         \/ ExecAcquire(t) \/ ExecActivate(t) \/ ExecBegin(t) \/ ExecPrompt(t)
         \/ ExecPublishPrompt(t) \/ ExecSendInput(t) \/ ExecReturn(t) \/ ExecObserveDeath(t)
         \/ ExecFinish(t) \/ ExecHandoff(t) \/ ExecComplete(t) \/ ExecKill(t) \/ ExecClean(t)
         \/ CompleteAcquire(t) \/ CompleteReply(t)
         \/ PollAcquire(t) \/ PollKill(t) \/ PollClean(t)
         \/ TeardownTimeout(t) \/ TeardownGiveUp(t)
         \/ StopAcquire(t) \/ CloseAcquire(t) \/ RestartAcquire(t)
         \/ StopClean(t) \/ StopKill(t) \/ CloseFinal(t)
         \/ RestartClean(t) \/ RestartKill(t) \/ RestartPrepare(t) \/ RestartSpawn(t)
  PROVE  Untold(t) /\ pc'[t] \notin TellOffPcs \cup TellOnPcs \cup InterruptPcs
<1> USE DEF LaneInvariant, TypeOK, ThreadsOK, Untold, kernelVars, eventVars, locals, At, Goto, Go,
            Step, Take, Leave, Return, TellOffPcs, TellOnPcs, InterruptPcs
<1>1. CASE StartAcquire(t) \/ StartClean(t) \/ StartPrepare(t) \/ StartSpawn(t)
  BY <1>1 DEF StartAcquire, StartWhen, StartClean, StartCleanOr, StartPrepare, Prepare, PrepareAs,
              StartSpawn, Spawn
<1>2. CASE \/ ExecAcquire(t) \/ ExecActivate(t) \/ ExecBegin(t) \/ ExecPrompt(t)
           \/ ExecPublishPrompt(t) \/ ExecSendInput(t)
  BY <1>2 DEF ExecAcquire, ExecActivate, ExecBegin, ExecPrompt, ExecPublishPrompt, ExecSendInput
<1>3. CASE \/ ExecReturn(t) \/ ExecObserveDeath(t) \/ ExecFinish(t)
  BY <1>3 DEF ExecReturn, ExecObserveDeath, AdapterReturns, ExecFinish, Finish
<1>4. CASE ExecHandoff(t) \/ ExecComplete(t) \/ ExecKill(t) \/ ExecClean(t)
  BY <1>4 DEF ExecHandoff, ExecComplete, ExecKill, ExecClean
<1>5. CASE \/ CompleteAcquire(t) \/ CompleteReply(t)
           \/ PollAcquire(t) \/ PollKill(t) \/ PollClean(t)
  BY <1>5 DEF CompleteAcquire, CompleteReply, PollAcquire, PollWhen, PollKill, PollClean
<1>6. CASE \/ TeardownTimeout(t) \/ TeardownGiveUp(t)
           \/ StopAcquire(t) \/ CloseAcquire(t) \/ RestartAcquire(t)
  BY <1>6 DEF TeardownTimeout, TeardownGiveUp, Abandon, StopAcquire, CloseAcquire, RestartAcquire,
              TeardownAcquire
<1>7. CASE StopClean(t) \/ StopKill(t) \/ CloseFinal(t)
  BY <1>7 DEF StopClean, StopKill, StopExit, Abandon, CloseFinal
<1>8. CASE RestartClean(t) \/ RestartKill(t) \/ RestartPrepare(t) \/ RestartSpawn(t)
  BY <1>8 DEF RestartClean, RestartCleanThen, RestartKill, RestartPrepare, Prepare, PrepareAs,
              RestartSpawn, Spawn
<1> QED BY <1>1, <1>2, <1>3, <1>4, <1>5, <1>6, <1>7, <1>8

\* While a thread executes nobody announces a new kernel: both need the lane.
LEMMA RunnerExcludesStarter ==
  ASSUME LaneInvariant, NEW t \in Threads, pc[t] \in ExecutingPcs
  PROVE  /\ \A u \in Threads : pc[u] \notin TellOnPcs
         /\ kern[t] = kernel /\ active = <<exe[t], kern[t]>>
<1>1. lane = t /\ pc[t] \in CurrentPcs
  BY DEF LaneInvariant, LaneIsExclusive, ExecutingPcs, LanePcs, ExecPcs, CurrentPcs
<1>2. \A u \in Threads : pc[u] \in TellOnPcs => lane = u
  BY DEF LaneInvariant, LaneIsExclusive, TellOnPcs, LanePcs, StartPcs, RestartPcs
<1> QED BY <1>1, <1>2 DEF LaneInvariant, KernelInvariant, HoldsCurrent, ExecutionInvariant,
                          RunnerIsActive, ExecutingPcs, TellOnPcs

\* The kernel that is published is newer than everything told or captured.
LEMMA PublishKeepsEvents ==
  ASSUME LaneInvariant, EventInvariant, NEW t \in Threads, StartPublish(t) \/ RestartPublish(t)
  PROVE  EventInvariant'
<1> DEFINE k == kern[t]
<1>1. /\ pc[t] \in NewPcs /\ pc'[t] \in TellOnPcs /\ kernel' = k /\ on'
      /\ UNCHANGED <<kern, ons, offs>>
      /\ \A u \in Threads \ {t} : pc'[u] = pc[u]
  BY DEF StartPublish, RestartPublish, Publish, Step, Go, Goto, At, NewPcs, TellOnPcs, locals,
         eventVars, LaneInvariant, TypeOK, ThreadsOK
<1>2. ~on /\ kernel < k /\ k \in Nat /\ kernel \in Nat
  BY <1>1, BoundAssumption
     DEF LaneInvariant, TypeOK, ThreadsOK, KernelOK, KernelInvariant, QuietIsOff, FreshIsNew
<1>3. pc[t] \notin TellOffPcs \cup InterruptPcs /\ pc'[t] \notin TellOffPcs \cup InterruptPcs
  BY <1>1 DEF NewPcs, TellOnPcs, TellOffPcs, InterruptPcs
<1>4. \A u \in Threads : kern[u] \in Nat
  BY BoundAssumption DEF LaneInvariant, TypeOK, ThreadsOK
<1> HIDE DEF k
<1>5. ToldIsOff'
  BY <1>1, <1>2 DEF EventInvariant, ToldIsOff, Kernels
<1>6. TellerIsOff'
  BY <1>1, <1>2, <1>3, <1>4 DEF EventInvariant, TellerIsOff
<1>7. AnnouncedIsOn'
  BY <1>1 DEF AnnouncedIsOn
<1>8. InterruptedIsOld'
  BY <1>1, <1>2, <1>3, <1>4 DEF EventInvariant, InterruptedIsOld
<1>9. NoStateEventLost'
  <2>1. offs[k] = 0 \/ k \notin Kernels
    BY <1>2 DEF EventInvariant, ToldIsOff, Kernels, LaneInvariant, TypeOK, HistoryOK
  <2> QED BY <1>1, <1>2, <1>3, <2>1 DEF EventInvariant, NoStateEventLost
<1> QED BY <1>5, <1>6, <1>7, <1>8, <1>9 DEF EventInvariant

\* Its on event is appended while it still is on.
LEMMA TellOnKeepsEvents ==
  ASSUME LaneInvariant, EventInvariant, NEW t \in Threads, StartAnnounce(t) \/ RestartAnnounce(t)
  PROVE  EventInvariant'
<1>1. /\ pc[t] \in TellOnPcs /\ pc'[t] = "idle"
      /\ ons' = [ons EXCEPT ![kern[t]] = @ + 1]
      /\ UNCHANGED <<kernel, on, offs>>
      /\ \A u \in Threads \ {t} : pc'[u] = pc[u] /\ kern'[u] = kern[u]
  BY DEF StartAnnounce, RestartAnnounce, TellOn, AppendOn, Leave, Return, Goto, At, TellOnPcs,
         kernelVars, LaneInvariant, TypeOK, ThreadsOK
<1>2. kern[t] = kernel /\ on
  BY <1>1 DEF LaneInvariant, KernelInvariant, HoldsCurrent, CurrentPcs, TellOnPcs,
              EventInvariant, AnnouncedIsOn
<1>3. pc[t] \notin TellOffPcs /\ pc'[t] \notin TellOffPcs \cup TellOnPcs \cup InterruptPcs
  BY <1>1 DEF TellOffPcs, TellOnPcs, InterruptPcs
<1>4. ToldIsOff' /\ TellerIsOff' /\ AnnouncedIsOn'
  BY <1>1, <1>3 DEF EventInvariant, ToldIsOff, TellerIsOff, AnnouncedIsOn
<1>5. InterruptedIsOld'
  BY <1>1, <1>3 DEF EventInvariant, InterruptedIsOld
<1>6. NoStateEventLost'
  <2>1. \A k \in Kernels : k # kernel => ons'[k] = ons[k]
    BY <1>1, <1>2 DEF LaneInvariant, TypeOK, HistoryOK
  <2> QED BY <1>1, <1>2, <1>3, <2>1 DEF EventInvariant, NoStateEventLost
<1> QED BY <1>4, <1>5, <1>6 DEF EventInvariant

\* Who turns the kernel off is about to say so.
LEMMA TurnOffKeepsEvents ==
  ASSUME LaneInvariant, EventInvariant, NEW t \in Threads,
         kern[t] = kernel, on' = FALSE, UNCHANGED <<kernel, ons, offs, kern>>,
         pc[t] \notin TellOffPcs, pc'[t] \in TellOffPcs,
         \A u \in Threads \ {t} : pc'[u] = pc[u],
         \A u \in Threads : pc[u] \notin TellOnPcs
  PROVE  EventInvariant'
<1>1. \A u \in Threads : pc'[u] \notin TellOnPcs
  BY DEF TellOffPcs, TellOnPcs
<1>2. kernel \in Nat
  BY BoundAssumption DEF LaneInvariant, TypeOK, KernelOK
<1>3. ToldIsOff' /\ TellerIsOff' /\ AnnouncedIsOn'
  BY <1>1, <1>2 DEF EventInvariant, ToldIsOff, TellerIsOff, AnnouncedIsOn
<1>4. InterruptedIsOld'
  BY <1>1, <1>2 DEF EventInvariant, InterruptedIsOld
<1>5. NoStateEventLost'
  BY DEF EventInvariant, NoStateEventLost
<1> QED BY <1>3, <1>4, <1>5 DEF EventInvariant

\* Who told it is done, and the kernel it told of is off.
LEMMA TellOffKeepsEvents ==
  ASSUME LaneInvariant, EventInvariant, NEW t \in Threads,
         \/ ExecAnnounce(t) \/ IntAnnounce(t) \/ CompleteAnnounce(t) \/ PollAnnounce(t)
         \/ StopAnnounce(t) \/ RestartAnnounceOff(t)
  PROVE  EventInvariant'
<1>1. /\ pc[t] \in TellOffPcs /\ pc'[t] \notin TellOffPcs \cup TellOnPcs \cup InterruptPcs
      /\ offs' = [offs EXCEPT ![kern[t]] = @ + 1]
      /\ UNCHANGED <<kernel, on, ons>>
      /\ \A u \in Threads \ {t} : pc'[u] = pc[u] /\ kern'[u] = kern[u]
  BY DEF ExecAnnounce, IntAnnounce, CompleteAnnounce, PollAnnounce, StopAnnounce, StopExit,
         RestartAnnounceOff, TellOff, AppendOff, Step, Leave, Return, Go, Goto, At, locals, TellOffPcs,
         TellOnPcs, InterruptPcs, kernelVars, LaneInvariant, TypeOK, ThreadsOK
<1>2. kern[t] <= kernel /\ ~(kernel = kern[t] /\ on)
  BY <1>1 DEF EventInvariant, TellerIsOff
<1>3. ToldIsOff'
  BY <1>1, <1>2 DEF EventInvariant, ToldIsOff, LaneInvariant, TypeOK, HistoryOK
<1>4. TellerIsOff' /\ AnnouncedIsOn'
  BY <1>1 DEF EventInvariant, TellerIsOff, AnnouncedIsOn
<1>5. InterruptedIsOld'
  BY <1>1 DEF EventInvariant, InterruptedIsOld
<1>6. NoStateEventLost'
  <2>1. \A k \in Kernels : offs'[k] \in Nat /\ offs'[k] >= offs[k]
                           /\ (k = kern[t] => offs'[k] > 0) /\ (k # kern[t] => offs'[k] = offs[k])
    BY <1>1 DEF LaneInvariant, TypeOK, HistoryOK
  <2>2. \A k \in Kernels : offs[k] \in Nat
    BY DEF LaneInvariant, TypeOK, HistoryOK
  <2>3. ASSUME NEW k \in Kernels, kernel = k, on
        PROVE  offs'[k] = 0
    BY <1>2, <2>1, <2>3 DEF EventInvariant, NoStateEventLost
  <2>4. ASSUME NEW k \in Kernels, ons[k] > 0, ~(kernel = k /\ on)
        PROVE  offs'[k] > 0 \/ \E u \in Threads : pc'[u] \in TellOffPcs /\ kern'[u] = k
    <3>1. CASE offs[k] > 0
      BY <2>1, <2>2, <3>1
    <3>2. ASSUME NEW u \in Threads, pc[u] \in TellOffPcs, kern[u] = k
          PROVE  offs'[k] > 0 \/ (pc'[u] \in TellOffPcs /\ kern'[u] = k)
      BY <1>1, <2>1, <3>2
    <3> QED BY <2>4, <3>1, <3>2 DEF EventInvariant, NoStateEventLost
  <2> QED BY <1>1, <2>3, <2>4 DEF NoStateEventLost
<1> QED BY <1>3, <1>4, <1>5, <1>6 DEF EventInvariant

\* A kernel turned off and told of in one section, or left as it is, while an
\* execution runs: no new kernel is about to be announced.
LEMMA TurnOffAndTellKeepsEvents ==
  ASSUME LaneInvariant, EventInvariant, NEW t \in Threads, NEW k,
         TurnOffAndTell(k),
         pc[t] \notin TellOffPcs, pc'[t] \notin TellOffPcs \cup TellOnPcs \cup InterruptPcs,
         \A u \in Threads \ {t} : pc'[u] = pc[u] /\ kern'[u] = kern[u],
         \A u \in Threads : pc[u] \notin TellOnPcs
  PROVE  EventInvariant'
<1>1. CASE kernel = k /\ on
  <2>1. on' = FALSE /\ kernel' = kernel /\ UNCHANGED ons /\ offs' = [offs EXCEPT ![kernel] = @ + 1]
    BY <1>1 DEF TurnOffAndTell, TurnOff, AppendOff, LaneInvariant, TypeOK, KernelOK
  <2>2. kernel \in Nat /\ \A j \in Kernels : offs[j] \in Nat /\ offs'[j] \in Nat
                             /\ (j = kernel => offs'[j] > 0) /\ (j # kernel => offs'[j] = offs[j])
    BY <2>1, BoundAssumption DEF LaneInvariant, TypeOK, KernelOK, HistoryOK
  <2>3. ToldIsOff'
    BY <2>1, <2>2 DEF EventInvariant, ToldIsOff
  <2>4. TellerIsOff' /\ AnnouncedIsOn' /\ InterruptedIsOld'
    BY <2>1 DEF EventInvariant, TellerIsOff, AnnouncedIsOn, InterruptedIsOld
  <2>5. NoStateEventLost'
    BY <2>1, <2>2 DEF EventInvariant, NoStateEventLost
  <2> QED BY <2>3, <2>4, <2>5 DEF EventInvariant
<1>2. CASE ~(kernel = k /\ on)
  <2>1. Untold(t)
    BY <1>2 DEF TurnOffAndTell, Untold, kernelVars, eventVars
  <2> QED BY <2>1, UntoldKeepsEvents
<1> QED BY <1>1, <1>2

\* The sections that do that: a fenced prompt, and a teardown that cancels,
\* at once or after its signal failed.
LEMMA CancelKeepsEvents ==
  ASSUME LaneInvariant, EventInvariant, NEW t \in Threads,
         \/ ExecFencePrompt(t) \/ StopRequest(t) \/ RestartRequest(t) \/ CloseRequest(t)
         \/ CancelFails(t)
  PROVE  EventInvariant'
<1>1. /\ pc[t] \notin TellOffPcs /\ pc'[t] \notin TellOffPcs \cup TellOnPcs \cup InterruptPcs
      /\ \A u \in Threads \ {t} : pc'[u] = pc[u] /\ kern'[u] = kern[u]
  BY DEF ExecFencePrompt, StopRequest, RestartRequest, CloseRequest, Teardown, CancelExecution,
         CancelFails, Return, Go, Goto, At, locals, TellOffPcs, TellOnPcs, InterruptPcs,
         LaneInvariant, TypeOK, ThreadsOK
<1>2. CASE UNCHANGED <<kernel, on, ons, offs>>
  BY <1>1, <1>2, UntoldKeepsEvents DEF Untold
<1>3. ASSUME NEW k, TurnOffAndTell(k), NEW u \in Threads, pc[u] \in ExecutingPcs
      PROVE  EventInvariant'
  BY <1>1, <1>3, RunnerExcludesStarter, TurnOffAndTellKeepsEvents
<1>4. ASSUME NEW k, CancelExecution(t, k, TRUE) \/ CancelExecution(t, k, FALSE)
      PROVE  \/ UNCHANGED <<kernel, on, ons, offs>>
             \/ TurnOffAndTell(k) /\ \E u \in Threads : pc[u] \in ExecutingPcs
  BY <1>4 DEF CancelExecution, RunsOn, kernelVars, eventVars, LaneInvariant, ExecutionInvariant,
              ActiveIsRun
<1>5. CASE ExecFencePrompt(t)
  <2>1. pc[t] \in ExecutingPcs
    BY <1>5 DEF ExecFencePrompt, At, ExecutingPcs
  <2>2. UNCHANGED <<kernel, on, ons, offs>> \/ TurnOffAndTell(kern[t])
    BY <1>5 DEF ExecFencePrompt, kernelVars, eventVars
  <2> QED BY <1>2, <1>3, <2>1, <2>2
<1>6. CASE StopRequest(t) \/ RestartRequest(t) \/ CloseRequest(t)
  <2>1. \/ UNCHANGED <<kernel, on, ons, offs>>
        \/ \E k : CancelExecution(t, k, TRUE) \/ CancelExecution(t, k, FALSE)
    BY <1>6 DEF StopRequest, RestartRequest, CloseRequest, Teardown, kernelVars, eventVars
  <2> QED BY <1>2, <1>3, <1>4, <2>1
<1>7. CASE CancelFails(t)
  <2>1. \E u \in Threads : pc[u] \in ExecutingPcs
    BY <1>7 DEF CancelFails, LaneInvariant, ExecutionInvariant, CancelledIsActive, ActiveIsRun
  <2>2. TurnOffAndTell(kern[t])
    BY <1>7 DEF CancelFails
  <2> QED BY <1>3, <2>1, <2>2
<1> QED BY <1>5, <1>6, <1>7

\* The lane holder turns its kernel off.
LEMMA SetOffKeepsEvents ==
  ASSUME LaneInvariant, EventInvariant, NEW t \in Threads,
         ExecOff(t) \/ CompleteOff(t) \/ PollOff(t) \/ StopOff(t) \/ RestartOff(t)
  PROVE  EventInvariant'
<1>1. /\ pc[t] \in {"exec_off", "complete_off", "poll_off", "stop_off", "restart_off"}
      /\ pc'[t] \in TellOffPcs \/ (~on /\ pc'[t] = "exec_complete")
      /\ on' = (on /\ kernel # kern[t])
      /\ UNCHANGED <<kernel, kern, ons, offs>>
      /\ \A u \in Threads \ {t} : pc'[u] = pc[u]
  BY DEF ExecOff, CompleteOff, PollOff, StopOff, RestartOff, SetOff, TurnOff, Step, Go, Goto, At,
         TellOffPcs, locals, eventVars, LaneInvariant, TypeOK, ThreadsOK
<1>2. kern[t] = kernel /\ on' = FALSE /\ pc[t] \notin TellOffPcs
  BY <1>1 DEF LaneInvariant, KernelInvariant, HoldsCurrent, CurrentPcs, ExecPcs, ProbePcs,
              TellOffPcs
<1>3. \A u \in Threads : pc[u] \notin TellOnPcs
  BY <1>1 DEF LaneInvariant, LaneIsExclusive, TellOnPcs, LanePcs, StartPcs, ExecPcs, ProbePcs,
              StopPcs, RestartPcs
<1>4. CASE pc'[t] \in TellOffPcs
  BY <1>1, <1>2, <1>3, <1>4, TurnOffKeepsEvents
<1>5. CASE ~on /\ pc'[t] = "exec_complete"
  <2>1. Untold(t)
    BY <1>1, <1>2, <1>5 DEF Untold, LaneInvariant, TypeOK, KernelOK
  <2> QED BY <1>5, <2>1, UntoldKeepsEvents DEF TellOffPcs, TellOnPcs, InterruptPcs
<1> QED BY <1>1, <1>4, <1>5

\* interrupt_execution, beside the lane: what it captured is the kernel of the
\* active execution, and it turns that kernel off only while it is current.
LEMMA InterruptKeepsEvents ==
  ASSUME LaneInvariant, EventInvariant, NEW t \in Threads,
         \/ IntRequest(t) \/ IntSend(t) \/ IntSendFails(t) \/ IntClear(t) \/ IntRaise(t)
         \/ IntDiscard(t) \/ IntDied(t)
  PROVE  EventInvariant'
<1> USE DEF LaneInvariant, TypeOK, ThreadsOK, KernelOK, Goto, Go, Return, At, locals, kernelVars, eventVars
<1>1. CASE IntRequest(t)
  <2>1. PICK u \in Threads : pc[u] \in ExecutingPcs
    BY <1>1 DEF IntRequest, IntRequestWhen, ExecutionInvariant, ActiveIsRun
  <2>2. active[2] = kernel /\ \A v \in Threads : pc[v] \notin TellOnPcs
    BY <2>1, RunnerExcludesStarter
  <2>3. /\ pc[t] = "idle" /\ pc'[t] = "int_send" /\ kern'[t] = kernel
        /\ UNCHANGED <<kernel, on, ons, offs>>
        /\ \A v \in Threads \ {t} : pc'[v] = pc[v] /\ kern'[v] = kern[v]
    BY <1>1, <2>2 DEF IntRequest, IntRequestWhen
  <2>4. kernel \in Nat
    BY BoundAssumption
  <2>5. ToldIsOff' /\ TellerIsOff' /\ AnnouncedIsOn'
    BY <2>3 DEF EventInvariant, ToldIsOff, TellerIsOff, AnnouncedIsOn, TellOffPcs, TellOnPcs
  <2>6. InterruptedIsOld'
    BY <2>2, <2>3, <2>4 DEF EventInvariant, InterruptedIsOld, TellOnPcs, InterruptPcs
  <2>7. NoStateEventLost'
    BY <2>3 DEF EventInvariant, NoStateEventLost, TellOffPcs
  <2> QED BY <2>5, <2>6, <2>7 DEF EventInvariant
<1>2. CASE IntSend(t) \/ (IntDiscard(t) /\ At(t, "int_refused"))
  <2>1. Untold(t) /\ pc'[t] = "idle"
    BY <1>2 DEF IntSend, IntSignal, IntDiscard, Untold, TellOffPcs
  <2> QED BY <2>1, UntoldKeepsEvents DEF TellOffPcs, TellOnPcs, InterruptPcs
<1>3. CASE \/ IntSendFails(t) \/ IntClear(t) \/ IntRaise(t)
           \/ IntDiscard(t) /\ At(t, "int_failed")
  <2>1. /\ pc[t] \in InterruptPcs \ TellOffPcs /\ pc'[t] \in InterruptPcs \ TellOffPcs
        /\ UNCHANGED <<kern, kernel, on, ons, offs>>
        /\ \A v \in Threads \ {t} : pc'[v] = pc[v]
    BY <1>3 DEF IntSendFails, IntSignal, IntClear, IntRaise, IntDiscard, Step, InterruptPcs,
                TellOffPcs
  <2>2. pc[t] \notin TellOnPcs /\ pc'[t] \notin TellOnPcs
    BY <2>1 DEF InterruptPcs, TellOnPcs
  <2>3. ToldIsOff' /\ TellerIsOff' /\ AnnouncedIsOn'
    BY <2>1, <2>2 DEF EventInvariant, ToldIsOff, TellerIsOff, AnnouncedIsOn
  <2>4. InterruptedIsOld'
    BY <2>1, <2>2 DEF EventInvariant, InterruptedIsOld
  <2>5. NoStateEventLost'
    BY <2>1 DEF EventInvariant, NoStateEventLost
  <2> QED BY <2>3, <2>4, <2>5 DEF EventInvariant
<1>4. CASE IntDied(t)
  <2>1. pc[t] = "int_died" /\ pc[t] \notin TellOffPcs
    BY <1>4 DEF IntDied, TellOffPcs
  <2>2. CASE kernel = kern[t] /\ on
    <3>1. /\ pc'[t] = "int_announce" /\ on' = FALSE /\ UNCHANGED <<kernel, ons, offs, kern>>
          /\ \A u \in Threads \ {t} : pc'[u] = pc[u]
      BY <1>4, <2>2 DEF IntDied, TurnOff
    <3>2. \A u \in Threads : pc[u] \notin TellOnPcs
      BY <2>1, <2>2, BoundAssumption DEF EventInvariant, InterruptedIsOld, InterruptPcs
    <3> QED BY <2>1, <2>2, <3>1, <3>2, TurnOffKeepsEvents DEF TellOffPcs
  <2>3. CASE ~(kernel = kern[t] /\ on)
    <3>1. Untold(t) /\ pc'[t] = "idle"
      BY <1>4, <2>1, <2>3 DEF IntDied, TurnOff, Untold
    <3> QED BY <3>1, UntoldKeepsEvents DEF TellOffPcs, TellOnPcs, InterruptPcs
  <2> QED BY <2>2, <2>3
<1> QED BY <1>1, <1>2, <1>3, <1>4 DEF IntDiscard

\* No state event is lost, whatever thread steps.
LEMMA KeepsEventInvariant ==
  ASSUME LaneInvariant, EventInvariant, [Next]_vars
  PROVE  EventInvariant'
<1>1. ASSUME NEW t \in Threads, Request(t) \/ ServiceCall(t) \/ KernelCode(t) \/ ThreadStep(t)
      PROVE  EventInvariant'
  BY <1>1, UntoldSteps, UntoldKeepsEvents, PublishKeepsEvents, TellOnKeepsEvents,
     TellOffKeepsEvents, CancelKeepsEvents, SetOffKeepsEvents, InterruptKeepsEvents
     DEF Request, ServiceCall, KernelCode, ThreadStep, StartStep, ExecStep, InterruptStep,
         ProbeStep, TeardownStep, StopStep, RestartStep
<1>2. ASSUME SubmitInput \/ (\E k \in Kernels : Die(k)) \/ UNCHANGED vars
      PROVE  EventInvariant'
  <2>1. UNCHANGED <<pc, kern, kernel, on, ons, offs>>
    BY <1>2 DEF SubmitInput, Submit, Die, vars, locals, kernelVars, eventVars
  <2> QED BY <2>1 DEF EventInvariant, ToldIsOff, TellerIsOff, AnnouncedIsOn, InterruptedIsOld,
                      NoStateEventLost
<1> QED BY <1>1, <1>2 DEF Next, Exit

-----------------------------------------------------------------------------
(* Signals and the executions they reach.                                  *)

OthersStay(t) ==
  \A u \in Threads \ {t} : /\ pc'[u] = pc[u] /\ kern'[u] = kern[u]
                           /\ exe'[u] = exe[u] /\ res'[u] = res[u]

\* A step outside the adapter's execute that signals nobody: the result of the
\* execution is kept, weakened to a reply, or forgotten with the handler.
Unsignalled(t) ==
  /\ OthersStay(t)
  /\ UNCHANGED <<executing, signals, outcome>> /\ signalled' \subseteq signalled
  /\ pc[t] \notin RunPcs /\ pc'[t] \notin RunPcs
  /\ \/ res'[t] = "none"
     \/ res'[t] = res[t] /\ pc[t] \notin ExecPcs
     \/ res'[t] \in {res[t], "replied"} /\ exe'[t] = exe[t] /\ pc'[t] \in ExecPcs

LEMMA UnsignalledKeepsSignals ==
  ASSUME SignalInvariant, NEW t \in Threads, Unsignalled(t)
  PROVE  SignalInvariant'
<1> USE DEF SignalInvariant, Unsignalled, OthersStay, GotSignal
<1>1. ExecutingIsRun'
  BY DEF ExecutingIsRun
<1>2. SignalIsDelivered'
  BY DEF SignalIsDelivered
<1>3. ResultIsOfRunner'
  BY DEF ResultIsOfRunner
<1>4. InterruptIsReal'
  BY DEF InterruptIsReal, ResultIsOfRunner
<1>5. InterruptedGotSignal'
  BY DEF InterruptedGotSignal
<1> QED BY <1>1, <1>2, <1>3, <1>4, <1>5

\* The handlers that take such steps.
LEMMA UnsignalledSteps ==
  ASSUME LaneInvariant, NEW t \in Threads,
         \/ StartAcquire(t) \/ StartStep(t)
         \/ ExecAcquire(t) \/ ExecActivate(t) \/ ExecFinish(t) \/ ExecHandoff(t) \/ ExecKill(t)
         \/ ExecClean(t) \/ ExecOff(t) \/ ExecAnnounce(t)
         \/ IntRequest(t) \/ IntClear(t) \/ IntRaise(t) \/ IntDiscard(t) \/ IntDied(t)
         \/ IntAnnounce(t) \/ CompleteAcquire(t) \/ PollAcquire(t) \/ ProbeStep(t)
         \/ TeardownStep(t) \/ StopStep(t) \/ RestartStep(t)
  PROVE  Unsignalled(t)
<1> USE DEF LaneInvariant, TypeOK, ThreadsOK, Unsignalled, OthersStay, RunPcs, ExecPcs, adapterVars,
            ghostVars, locals, At, Goto, Go, Step, Take, Leave, Return
<1>1. CASE StartAcquire(t) \/ StartStep(t)
  BY <1>1 DEF StartAcquire, StartWhen, StartStep, StartClean, StartCleanOr, StartPrepare, Prepare,
              PrepareAs, StartSpawn, Spawn, StartPublish, Publish, StartAnnounce, TellOn
<1>2. CASE ExecAcquire(t) \/ ExecActivate(t)
  BY <1>2 DEF ExecAcquire, ExecActivate
<1>3. CASE ExecFinish(t)
  BY <1>3 DEF ExecFinish, Finish, Requested
<1>4. CASE ExecHandoff(t) \/ ExecKill(t) \/ ExecClean(t) \/ ExecOff(t) \/ ExecAnnounce(t)
  BY <1>4 DEF ExecHandoff, ExecKill, Shutdown, ShutdownFails, ExecClean, ExecOff, SetOff,
              ExecAnnounce, TellOff
<1>5. CASE \/ IntRequest(t) \/ IntClear(t) \/ IntRaise(t) \/ IntDiscard(t) \/ IntDied(t)
           \/ IntAnnounce(t)
  BY <1>5 DEF IntRequest, IntRequestWhen, IntClear, IntRaise, IntDiscard, IntDied, IntAnnounce
<1>6. CASE CompleteAcquire(t) \/ PollAcquire(t)
  BY <1>6 DEF CompleteAcquire, PollAcquire, PollWhen
<1>7. CASE ProbeStep(t)
  BY <1>7 DEF ProbeStep, CompleteReply, CompleteOff, CompleteAnnounce, PollOff, PollAnnounce,
              PollKill, PollClean, SetOff, TellOff, Shutdown, ShutdownFails
<1>8. CASE TeardownStep(t)
  BY <1>8 DEF TeardownStep, CancelFails, TeardownTimeout, TeardownGiveUp, Abandon, StopAcquire,
              CloseAcquire, RestartAcquire, TeardownAcquire
<1>9. CASE StopStep(t)
  BY <1>9 DEF StopStep, StopClean, StopKill, StopOff, StopAnnounce, StopExit, CloseFinal, Abandon,
              SetOff, Shutdown, ShutdownFails
<1>10. CASE RestartClean(t) \/ RestartKill(t) \/ RestartOff(t) \/ RestartAnnounceOff(t)
  BY <1>10 DEF RestartClean, RestartCleanThen, RestartKill, RestartOff, RestartAnnounceOff,
               SetOff, TellOff, Shutdown, ShutdownFails
<1>11. CASE RestartPrepare(t) \/ RestartSpawn(t) \/ RestartPublish(t) \/ RestartAnnounce(t)
  BY <1>11 DEF RestartPrepare, Prepare, PrepareAs, RestartSpawn, Spawn, RestartPublish, Publish,
               RestartAnnounce, TellOn
<1> QED BY <1>1, <1>2, <1>3, <1>4, <1>5, <1>6, <1>7, <1>8, <1>9, <1>10, <1>11 DEF RestartStep

\* A signal that was sent, or tried where signals may fail, is remembered.
LEMMA TriedIsRemembered ==
  ASSUME HistoryOK, NEW e, NEW how, Tried(e, how),
         how = "sent" \/ (SignalMayFail /\ how = "failed")
  PROVE  /\ \A x \in Execs : GotSignal(x) => GotSignal(x)'
         /\ e \in Execs => GotSignal(e)'
<1>1. \A x \in Execs :
        signals'[x] = IF x = e /\ signals[x] # "sent" THEN how ELSE signals[x]
  BY DEF HistoryOK, Tried
<1> QED BY <1>1 DEF GotSignal

\* Whose results and signals are at stake has an execution.
LEMMA RunnersHaveExecutions ==
  ASSUME LaneInvariant, SignalInvariant
  PROVE  \A u \in Threads : pc[u] \in ExecPcs \cup RunPcs \/ res[u] # "none" => exe[u] \in Execs
  BY BoundAssumption
     DEF LaneInvariant, TypeOK, ThreadsOK, ExecutionInvariant, RunnerHasExecution, SignalInvariant,
         ResultIsOfRunner, RunPcs, ExecPcs, Execs

\* A signal is meant for the active execution, and that is the one whose runner
\* is inside the adapter.
LEMMA SignalReachesRunner ==
  ASSUME LaneInvariant, SignalInvariant, NEW k, NEW how,
         UNCHANGED <<executing, outcome>>, signalled' = signalled \cup {k},
         Tried(active[1], how), how = "sent" \/ (SignalMayFail /\ how = "failed"),
         \A u \in Threads : /\ pc'[u] \in RunPcs <=> pc[u] \in RunPcs
                            /\ pc[u] \in RunPcs => kern'[u] = kern[u] /\ exe'[u] = exe[u]
                            /\ \/ res'[u] = "none"
                               \/ res'[u] = res[u] /\ pc[u] \notin ExecPcs
                               \/ res'[u] = res[u] /\ exe'[u] = exe[u] /\ pc'[u] \in ExecPcs
  PROVE  SignalInvariant'
<1> USE DEF SignalInvariant
<1>e. PICK e : e = active[1]
  OBVIOUS
<1>t. Tried(e, how)
  BY <1>e
<1>0. /\ \A x \in Execs : GotSignal(x) => GotSignal(x)'
      /\ e \in Execs => GotSignal(e)'
  BY <1>t, TriedIsRemembered DEF LaneInvariant, TypeOK
<1>1. ExecutingIsRun'
  BY DEF ExecutingIsRun
<1>2. SignalIsDelivered'
  <2>1. \A u \in Threads : pc[u] \in RunPcs => exe[u] = active[1] /\ exe[u] \in Execs
    BY RunnersHaveExecutions
       DEF LaneInvariant, ExecutionInvariant, RunnerIsActive, RunPcs, ExecutingPcs
  <2>2. ASSUME NEW u \in Threads, pc'[u] \in RunPcs
        PROVE  GotSignal(exe[u])'
    <3>1. exe'[u] = e /\ e \in Execs
      BY <1>e, <2>1, <2>2
    <3> QED BY <1>0, <3>1 DEF GotSignal
  <2> QED BY <2>2 DEF SignalIsDelivered
<1>3. ResultIsOfRunner'
  BY DEF ResultIsOfRunner
<1>4. InterruptIsReal'
  <2>1. ASSUME NEW u \in Threads, res'[u] = "interrupted"
        PROVE  GotSignal(exe[u])'
    <3>1. res[u] = "interrupted" /\ exe'[u] = exe[u] /\ exe[u] \in Execs
      BY <2>1, RunnersHaveExecutions DEF ResultIsOfRunner
    <3>2. GotSignal(exe[u])
      BY <3>1 DEF InterruptIsReal
    <3> QED BY <1>0, <3>1, <3>2 DEF GotSignal
  <2> QED BY <2>1 DEF InterruptIsReal
<1>5. InterruptedGotSignal'
  BY <1>0 DEF InterruptedGotSignal
<1> QED BY <1>1, <1>2, <1>3, <1>4, <1>5

\* interrupt_execution's signal, and that of a teardown that cancels.
LEMMA RequestsKeepSignals ==
  ASSUME LaneInvariant, SignalInvariant, NEW t \in Threads,
         \/ IntSend(t) \/ IntSendFails(t)
         \/ StopRequest(t) \/ RestartRequest(t) \/ CloseRequest(t)
  PROVE  SignalInvariant'
<1> USE DEF LaneInvariant, TypeOK, ThreadsOK, RunPcs, ExecPcs, adapterVars, ghostVars, locals, At,
            Goto, Go, Return
<1>1. CASE IntSend(t) \/ IntSendFails(t)
  <2>1. PICK how : /\ IntSignal(t, how)
                   /\ how = "sent" \/ (SignalMayFail /\ how = "failed")
    BY <1>1 DEF IntSend, IntSendFails
  <2>2. /\ UNCHANGED <<executing, outcome>> /\ signalled' = signalled \cup {kern[t]}
        /\ Tried(active[1], how)
    BY <2>1 DEF IntSignal
  <2>3. /\ pc[t] = "int_send" /\ pc'[t] \in {"idle", "int_clear"} /\ OthersStay(t)
        /\ res'[t] \in {"none", res[t]}
    BY <1>1 DEF IntSend, IntSendFails, IntSignal, OthersStay
  <2>4. ASSUME NEW u \in Threads
        PROVE  /\ pc'[u] \in RunPcs <=> pc[u] \in RunPcs
               /\ pc[u] \in RunPcs => kern'[u] = kern[u] /\ exe'[u] = exe[u]
               /\ \/ res'[u] = "none"
                  \/ res'[u] = res[u] /\ pc[u] \notin ExecPcs
                  \/ res'[u] = res[u] /\ exe'[u] = exe[u] /\ pc'[u] \in ExecPcs
    BY <2>3, SMT DEF OthersStay, SignalInvariant, ResultIsOfRunner
  <2> QED BY <2>1, <2>2, <2>4, SignalReachesRunner
<1>2. CASE StopRequest(t) \/ RestartRequest(t) \/ CloseRequest(t)
  <2>1. /\ pc[t] = "idle" /\ pc'[t] \in {"idle", "wait", "cancel_clear"} /\ OthersStay(t)
        /\ res'[t] \in {"none", res[t]}
        /\ UNCHANGED <<executing, outcome>>
    BY <1>2 DEF StopRequest, RestartRequest, CloseRequest, Teardown, CancelExecution, OthersStay
  <2>2. \/ UNCHANGED <<signalled, signals>>
        \/ \E k, how : /\ signalled' = signalled \cup {k}
                       /\ Tried(active[1], how)
                       /\ how = "sent" \/ (SignalMayFail /\ how = "failed")
    BY <1>2 DEF StopRequest, RestartRequest, CloseRequest, Teardown, CancelExecution
  <2>3. CASE UNCHANGED <<signalled, signals>>
    <3>1. Unsignalled(t)
      BY <2>1, <2>3 DEF Unsignalled
    <3> QED BY <3>1, UnsignalledKeepsSignals
  <2>4. ASSUME NEW k, NEW how, signalled' = signalled \cup {k}, Tried(active[1], how),
               how = "sent" \/ (SignalMayFail /\ how = "failed")
        PROVE  SignalInvariant'
    <3>1. ASSUME NEW u \in Threads
          PROVE  /\ pc'[u] \in RunPcs <=> pc[u] \in RunPcs
                 /\ pc[u] \in RunPcs => kern'[u] = kern[u] /\ exe'[u] = exe[u]
                 /\ \/ res'[u] = "none"
                    \/ res'[u] = res[u] /\ pc[u] \notin ExecPcs
                    \/ res'[u] = res[u] /\ exe'[u] = exe[u] /\ pc'[u] \in ExecPcs
      BY <2>1, SMT DEF OthersStay, SignalInvariant, ResultIsOfRunner
    <3> QED BY <2>1, <2>4, <3>1, SignalReachesRunner
  <2> QED BY <2>2, <2>3, <2>4
<1> QED BY <1>1, <1>2

\* The adapter starts to run: it forgets the signals of earlier executions.
LEMMA BeginKeepsSignals ==
  ASSUME LaneInvariant, SignalInvariant, NEW t \in Threads, ExecBegin(t)
  PROVE  SignalInvariant'
<1> USE DEF LaneInvariant, TypeOK, ThreadsOK, SignalInvariant, GotSignal, RunPcs, ExecPcs
<1>1. /\ pc[t] = "exec_begin" /\ UNCHANGED <<kern, exe, signals, outcome>>
      /\ \A u \in Threads \ {t} : pc'[u] = pc[u] /\ res'[u] = res[u]
  BY DEF ExecBegin, At, Goto, ghostVars
<1>2. \/ /\ executing' = executing \cup {kern[t]} /\ signalled' = signalled \ {kern[t]}
         /\ pc'[t] = "exec_run" /\ res'[t] = res[t]
      \/ UNCHANGED <<executing, signalled>> /\ pc'[t] = "exec_finish" /\ res'[t] = "died"
  BY DEF ExecBegin, Goto
<1>3. ExecutingIsRun'
  BY <1>1, <1>2 DEF ExecutingIsRun
<1>4. SignalIsDelivered'
  BY <1>1, <1>2 DEF SignalIsDelivered
<1>5. ResultIsOfRunner'
  BY <1>1, <1>2 DEF ResultIsOfRunner
<1>6. InterruptIsReal'
  BY <1>1, <1>2 DEF InterruptIsReal
<1>7. InterruptedGotSignal'
  BY <1>1 DEF InterruptedGotSignal
<1> QED BY <1>3, <1>4, <1>5, <1>6, <1>7

\* It is left: the result is an interrupt only if there had been a signal.
LEMMA ReturnKeepsSignals ==
  ASSUME LaneInvariant, SignalInvariant, NEW t \in Threads, NEW result,
         At(t, "exec_run") \/ At(t, "exec_prompt"), Goto(t, "exec_finish"),
         res' = [res EXCEPT ![t] = result],
         result = "interrupted" => kern[t] \in signalled,
         FinishExecution(kern[t]), UNCHANGED <<kern, exe, outcome>>,
         \A e \in Execs : GotSignal(e) => GotSignal(e)'
  PROVE  SignalInvariant'
<1> USE DEF LaneInvariant, TypeOK, ThreadsOK, SignalInvariant, RunPcs, ExecPcs
<1>0. ASSUME NEW u \in Threads, GotSignal(exe[u]), exe[u] \in Execs
      PROVE  GotSignal(exe[u])'
  BY <1>0 DEF GotSignal
<1>1. /\ pc[t] \in RunPcs /\ pc'[t] = "exec_finish" /\ res'[t] = result
      /\ \A u \in Threads \ {t} : pc'[u] = pc[u] /\ res'[u] = res[u]
      /\ executing' = executing \ {kern[t]} /\ signalled' = signalled \ {kern[t]}
  BY DEF At, Goto, FinishExecution
<1>2. ExecutingIsRun'
  BY <1>1 DEF ExecutingIsRun
<1>3. SignalIsDelivered'
  BY <1>0, <1>1, RunnersHaveExecutions DEF SignalIsDelivered
<1>4. ResultIsOfRunner'
  BY <1>1 DEF ResultIsOfRunner
<1>5. InterruptIsReal'
  BY <1>0, <1>1, RunnersHaveExecutions DEF InterruptIsReal, SignalIsDelivered
<1>6. InterruptedGotSignal'
  BY DEF InterruptedGotSignal
<1> QED BY <1>2, <1>3, <1>4, <1>5, <1>6

\* What the runner does inside the adapter's execute.
LEMMA RunKeepsSignals ==
  ASSUME LaneInvariant, SignalInvariant, NEW t \in Threads,
         \/ ExecPrompt(t) \/ ExecPublishPrompt(t) \/ ExecFencePrompt(t) \/ ExecSendInput(t)
         \/ ExecReturn(t) \/ ExecObserveDeath(t)
  PROVE  SignalInvariant'
<1> DEFINE Runs ==
      /\ pc[t] \in RunPcs /\ pc'[t] \in RunPcs
      /\ \A u \in Threads \ {t} : pc'[u] = pc[u]
      /\ UNCHANGED <<kern, exe, res, executing, outcome>>
<1>1. ASSUME Runs, UNCHANGED <<signalled, signals>>
      PROVE  SignalInvariant'
  <2>1. \A u \in Threads : /\ pc'[u] \in RunPcs <=> pc[u] \in RunPcs
                           /\ pc'[u] \in ExecPcs <=> pc[u] \in ExecPcs
    BY <1>1 DEF RunPcs, ExecPcs
  <2> QED BY <1>1, <2>1 DEF SignalInvariant, ExecutingIsRun, SignalIsDelivered, ResultIsOfRunner,
                            InterruptIsReal, InterruptedGotSignal, GotSignal
<1>2. ASSUME Runs, signalled' = signalled \cup {kern[t]},
             Tried(active[1], "sent")
      PROVE  SignalInvariant'
  <2>1. ASSUME NEW u \in Threads
        PROVE  /\ pc'[u] \in RunPcs <=> pc[u] \in RunPcs
               /\ pc[u] \in RunPcs => kern'[u] = kern[u] /\ exe'[u] = exe[u]
               /\ \/ res'[u] = "none"
                  \/ res'[u] = res[u] /\ pc[u] \notin ExecPcs
                  \/ res'[u] = res[u] /\ exe'[u] = exe[u] /\ pc'[u] \in ExecPcs
    BY <1>2 DEF RunPcs, ExecPcs
  <2> QED BY <1>2, <2>1, SignalReachesRunner
<1>3. CASE ExecPrompt(t) \/ ExecPublishPrompt(t) \/ ExecSendInput(t)
  <2>1. Runs /\ UNCHANGED <<signalled, signals>>
    BY <1>3 DEF ExecPrompt, ExecPublishPrompt, ExecSendInput, Step, Go, Goto, At, RunPcs, locals,
                adapterVars, ghostVars, LaneInvariant, TypeOK, ThreadsOK
  <2> QED BY <1>1, <2>1
<1>4. CASE ExecFencePrompt(t)
  <2>1. \/ Runs /\ UNCHANGED <<signalled, signals>>
        \/ /\ Runs /\ signalled' = signalled \cup {kern[t]}
           /\ Tried(active[1], "sent")
        \/ /\ At(t, "exec_prompt") /\ Goto(t, "exec_finish") /\ FinishExecution(kern[t])
           /\ res' = [res EXCEPT ![t] = IF Alive(kern[t]) THEN "replied" ELSE "died"]
           /\ UNCHANGED <<kern, exe, outcome>>
           /\ UNCHANGED signals \/ (SignalMayFail /\ Tried(active[1], "failed"))
    BY <1>4 DEF ExecFencePrompt, Go, Goto, At, RunPcs, locals, adapterVars, LaneInvariant, TypeOK,
                ThreadsOK
  <2>2. (IF Alive(kern[t]) THEN "replied" ELSE "died") # "interrupted"
    OBVIOUS
  <2>3. ASSUME UNCHANGED signals \/ (SignalMayFail /\ Tried(active[1], "failed"))
        PROVE  \A e \in Execs : GotSignal(e) => GotSignal(e)'
    BY <2>3, TriedIsRemembered DEF GotSignal, LaneInvariant, TypeOK
  <2> QED BY <1>1, <1>2, <2>1, <2>2, <2>3, ReturnKeepsSignals
<1>5. CASE ExecReturn(t) \/ ExecObserveDeath(t)
  <2>1. PICK result : AdapterReturns(t, result) /\ (result = "interrupted" => kern[t] \in signalled)
    BY <1>5 DEF ExecReturn, ExecObserveDeath
  <2>2. \A e \in Execs : GotSignal(e) => GotSignal(e)'
    BY <2>1 DEF AdapterReturns, ghostVars, GotSignal
  <2> QED BY <2>1, <2>2, ReturnKeepsSignals DEF AdapterReturns, ghostVars
<1> QED BY <1>3, <1>4, <1>5

\* The execution is reported as it ended.
LEMMA CompleteKeepsSignals ==
  ASSUME LaneInvariant, SignalInvariant, NEW t \in Threads, ExecComplete(t)
  PROVE  SignalInvariant'
<1> USE DEF SignalInvariant, GotSignal
<1>1. /\ pc'[t] = "idle" /\ res'[t] = "none" /\ pc[t] = "exec_complete" /\ OthersStay(t)
      /\ UNCHANGED <<executing, signalled, signals>>
      /\ outcome' = [outcome EXCEPT ![exe[t]] = res[t]]
  BY DEF ExecComplete, Leave, Return, Goto, At, OthersStay, adapterVars, LaneInvariant, TypeOK,
         ThreadsOK
<1>2. ExecutingIsRun' /\ SignalIsDelivered'
  BY <1>1 DEF ExecutingIsRun, SignalIsDelivered, OthersStay, RunPcs
<1>3. ResultIsOfRunner' /\ InterruptIsReal'
  BY <1>1 DEF ResultIsOfRunner, InterruptIsReal, OthersStay
<1>4. InterruptedGotSignal'
  BY <1>1 DEF InterruptedGotSignal, InterruptIsReal, LaneInvariant, TypeOK, HistoryOK
<1> QED BY <1>2, <1>3, <1>4

\* Whatever thread steps.
LEMMA KeepsSignalInvariant ==
  ASSUME LaneInvariant, SignalInvariant, [Next]_vars
  PROVE  SignalInvariant'
<1>1. ASSUME NEW t \in Threads, Request(t) \/ ServiceCall(t) \/ KernelCode(t) \/ ThreadStep(t)
      PROVE  SignalInvariant'
  BY <1>1, UnsignalledSteps, UnsignalledKeepsSignals, RequestsKeepSignals, BeginKeepsSignals,
     RunKeepsSignals, CompleteKeepsSignals
     DEF Request, ServiceCall, KernelCode, ThreadStep, ExecStep, InterruptStep
<1>2. ASSUME SubmitInput \/ (\E k \in Kernels : Die(k)) \/ UNCHANGED vars
      PROVE  SignalInvariant'
  <2>1. UNCHANGED <<pc, kern, exe, res, executing, signalled, signals, outcome>>
    BY <1>2 DEF SubmitInput, Submit, Die, vars, locals, adapterVars, ghostVars
  <2> QED BY <2>1 DEF SignalInvariant, ExecutingIsRun, SignalIsDelivered, ResultIsOfRunner,
                      InterruptIsReal, InterruptedGotSignal, GotSignal
<1> QED BY <1>1, <1>2 DEF Next, Exit

-----------------------------------------------------------------------------
(* Processes, when signals and shutdowns do not fail.                      *)

\* A step that starts no process and publishes no kernel: what it closes is
\* dead, and a kernel it turns off is.
Settled(t) ==
  /\ \A k \in Kernels : proc'[k] = proc[k] \/ (proc[k] # "none" /\ proc'[k] = "dead")
  /\ \A k \in closed' : k \in closed \/ proc'[k] = "dead"
  /\ lastKernel' = lastKernel \/ lastKernel' = lastKernel + 1
  /\ kernel' = kernel /\ (on' => on) /\ (on /\ ~on' => proc'[kernel] # "alive")
  /\ pc[t] \notin FreshPcs
  /\ \A u \in Threads \ {t} : pc'[u] = pc[u] /\ kern'[u] = kern[u]

LEMMA SettledKeepsProcesses ==
  ASSUME LaneInvariant, ProcessInvariant, NEW t \in Threads, Settled(t), ThreadKnows(t)'
  PROVE  ProcessInvariant'
<1> USE DEF LaneInvariant, TypeOK, ThreadsOK, KernelOK, AdapterOK, Settled, ProcessInvariant
<1>0. lastKernel \in Nat /\ kernel \in Nat /\ Kernels \subseteq Nat
  BY BoundAssumption DEF Kernels
<1>1. ClosedIsDead'
  BY DEF ClosedIsDead
<1>2. FutureIsUnborn'
  BY <1>0 DEF FutureIsUnborn
<1>3. on => kernel \in Kernels
  BY BoundAssumption DEF KernelInvariant, HandleOfOn, Kernels
<1>4. OnIsBorn'
  BY <1>3 DEF OnIsBorn
<1>5. AliveIsReached'
  BY <1>3 DEF AliveIsReached, Alive
<1>6. ASSUME NEW u \in Threads \ {t}
      PROVE  ThreadKnows(u)'
  <2>1. ThreadKnows(u) /\ pc'[u] = pc[u] /\ kern'[u] = kern[u]
    OBVIOUS
  <2>2. pc[u] \in SpawnPcs \cup FreshPcs => kern[u] \in Kernels
    BY BoundAssumption DEF SpawnPcs, FreshPcs, NewPcs, KernelInvariant, FreshIsNew, Kernels
  <2> QED BY <2>1, <2>2 DEF ThreadKnows, Alive
<1> QED BY <1>1, <1>2, <1>4, <1>5, <1>6

\* A kernel that is on exists, and what the lane holder works on is the current one.
LEMMA CurrentExists ==
  ASSUME LaneInvariant, ProcessInvariant
  PROVE  /\ on => kernel \in Kernels /\ proc[kernel] # "none"
         /\ \A k \in Kernels : ~Usable(k) => proc[k] # "alive"
<1>1. on => kernel \in Kernels
  BY BoundAssumption DEF LaneInvariant, TypeOK, KernelOK, KernelInvariant, HandleOfOn, Kernels
<1> QED BY <1>1 DEF ProcessInvariant, OnIsBorn, ClosedIsDead, Usable, Alive

\* Handlers that leave the processes, the current kernel and its state alone.
LEMMA UnrelatedSteps ==
  ASSUME LaneInvariant, NEW t \in Threads,
         \/ StartAcquire(t) \/ StartClean(t) \/ StartPrepare(t) \/ StartAnnounce(t)
         \/ ExecAcquire(t) \/ ExecActivate(t) \/ ExecBegin(t) \/ ExecPrompt(t)
         \/ ExecPublishPrompt(t) \/ ExecSendInput(t) \/ ExecReturn(t) \/ ExecObserveDeath(t)
         \/ ExecFinish(t) \/ ExecHandoff(t) \/ ExecComplete(t) \/ ExecClean(t) \/ ExecAnnounce(t)
         \/ IntRequest(t) \/ IntSend(t) \/ IntRaise(t) \/ IntDiscard(t) \/ IntAnnounce(t)
         \/ CompleteAcquire(t) \/ CompleteReply(t) \/ CompleteAnnounce(t)
         \/ PollAcquire(t) \/ PollAnnounce(t) \/ PollClean(t)
         \/ TeardownGiveUp(t) \/ StopAcquire(t) \/ CloseAcquire(t) \/ RestartAcquire(t)
         \/ StopClean(t) \/ StopAnnounce(t) \/ CloseFinal(t)
         \/ RestartClean(t) \/ RestartAnnounceOff(t) \/ RestartPrepare(t) \/ RestartAnnounce(t)
  PROVE  Settled(t) /\ UNCHANGED <<proc, closed, kernel, on>>
<1> USE DEF LaneInvariant, TypeOK, ThreadsOK, Settled, FreshPcs, kernelVars, adapterVars, locals,
            At, Goto, Go, Step, Take, Leave, Return
<1>1. CASE StartAcquire(t) \/ StartClean(t) \/ StartPrepare(t) \/ StartAnnounce(t)
  BY <1>1 DEF StartAcquire, StartWhen, StartClean, StartCleanOr, StartPrepare, Prepare, PrepareAs,
              StartAnnounce, TellOn
<1>2. CASE \/ ExecAcquire(t) \/ ExecActivate(t) \/ ExecBegin(t) \/ ExecPrompt(t)
           \/ ExecPublishPrompt(t) \/ ExecSendInput(t)
  BY <1>2 DEF ExecAcquire, ExecActivate, ExecBegin, ExecPrompt, ExecPublishPrompt, ExecSendInput
<1>3. CASE ExecReturn(t) \/ ExecObserveDeath(t) \/ ExecFinish(t)
  BY <1>3 DEF ExecReturn, ExecObserveDeath, AdapterReturns, FinishExecution, ExecFinish, Finish
<1>4. CASE ExecHandoff(t) \/ ExecComplete(t) \/ ExecClean(t) \/ ExecAnnounce(t)
  BY <1>4 DEF ExecHandoff, ExecComplete, ExecClean, ExecAnnounce, TellOff
<1>5. CASE IntRequest(t) \/ IntSend(t) \/ IntRaise(t) \/ IntDiscard(t) \/ IntAnnounce(t)
  BY <1>5 DEF IntRequest, IntRequestWhen, IntSend, IntSignal, IntRaise, IntDiscard, IntAnnounce
<1>6. CASE \/ CompleteAcquire(t) \/ CompleteReply(t) \/ CompleteAnnounce(t)
           \/ PollAcquire(t) \/ PollAnnounce(t) \/ PollClean(t)
  BY <1>6 DEF CompleteAcquire, CompleteReply, CompleteAnnounce, PollAcquire, PollWhen,
              PollAnnounce, PollClean, TellOff
<1>7. CASE TeardownGiveUp(t) \/ StopAcquire(t) \/ CloseAcquire(t) \/ RestartAcquire(t)
  BY <1>7 DEF TeardownGiveUp, Abandon, StopAcquire, CloseAcquire, RestartAcquire, TeardownAcquire
<1>8. CASE StopClean(t) \/ StopAnnounce(t) \/ CloseFinal(t)
  BY <1>8 DEF StopClean, StopAnnounce, StopExit, Abandon, CloseFinal
<1>9. CASE RestartClean(t) \/ RestartAnnounceOff(t) \/ RestartPrepare(t) \/ RestartAnnounce(t)
  BY <1>9 DEF RestartClean, RestartCleanThen, RestartAnnounceOff, TellOff, RestartPrepare,
              Prepare, PrepareAs, RestartAnnounce, TellOn
<1> QED BY <1>1, <1>2, <1>3, <1>4, <1>5, <1>6, <1>7, <1>8, <1>9

\* A thread that keeps its kernel, and goes from a place of each kind only to
\* a place of that kind, still knows what it knew.
LEMMA GoesOnKnowing ==
  ASSUME NEW t \in Threads, ThreadKnows(t), UNCHANGED proc, kern'[t] = kern[t],
         pc'[t] \notin SpawnPcs \cup FreshPcs,
         pc'[t] \in StartedPcs => pc[t] \in StartedPcs,
         pc'[t] \in DeadPcs => pc[t] \in DeadPcs
  PROVE  ThreadKnows(t)'
  BY DEF ThreadKnows, Alive

\* A thread at a place of no kind need know nothing.
LEMMA NeedsNotKnow ==
  ASSUME NEW t \in Threads, pc'[t] \notin SpawnPcs \cup FreshPcs \cup StartedPcs \cup DeadPcs
  PROVE  ThreadKnows(t)'
  BY DEF ThreadKnows

\* Which kind of places these handlers go to.
LEMMA KnowingSteps ==
  ASSUME LaneInvariant, NEW t \in Threads,
         \/ StartAcquire(t) \/ StartClean(t) \/ StartAnnounce(t)
         \/ ExecActivate(t) \/ ExecBegin(t) \/ ExecPrompt(t)
         \/ ExecPublishPrompt(t) \/ ExecSendInput(t) \/ ExecReturn(t) \/ ExecObserveDeath(t)
         \/ ExecFinish(t) \/ ExecHandoff(t) \/ ExecComplete(t) \/ ExecClean(t) \/ ExecAnnounce(t)
         \/ IntSend(t) \/ IntDiscard(t) \/ IntAnnounce(t)
         \/ CompleteAnnounce(t) \/ PollAnnounce(t) \/ PollClean(t)
         \/ TeardownGiveUp(t) \/ RestartAcquire(t)
         \/ StopClean(t) \/ StopAnnounce(t) \/ CloseFinal(t)
         \/ RestartAnnounceOff(t) \/ RestartAnnounce(t)
  PROVE  \/ pc'[t] \notin SpawnPcs \cup FreshPcs \cup StartedPcs \cup DeadPcs
         \/ /\ kern'[t] = kern[t] /\ pc'[t] \notin SpawnPcs \cup FreshPcs
            /\ pc'[t] \in StartedPcs => pc[t] \in StartedPcs
            /\ pc'[t] \in DeadPcs => pc[t] \in DeadPcs
<1> USE DEF LaneInvariant, TypeOK, ThreadsOK, SpawnPcs, FreshPcs, StartedPcs, DeadPcs, CurrentPcs,
            ExecPcs, ProbePcs, InterruptPcs, locals, At, Goto, Go, Step, Take, Leave, Return
<1>1. CASE StartAcquire(t) \/ StartClean(t) \/ StartAnnounce(t)
  BY <1>1 DEF StartAcquire, StartWhen, StartClean, StartCleanOr, StartAnnounce, TellOn
<1>2. CASE \/ ExecActivate(t) \/ ExecBegin(t) \/ ExecPrompt(t) \/ ExecPublishPrompt(t)
           \/ ExecSendInput(t)
  BY <1>2 DEF ExecActivate, ExecBegin, ExecPrompt, ExecPublishPrompt, ExecSendInput
<1>3. CASE ExecReturn(t) \/ ExecObserveDeath(t) \/ ExecFinish(t)
  BY <1>3 DEF ExecReturn, ExecObserveDeath, AdapterReturns, ExecFinish, Finish
<1>4. CASE ExecHandoff(t) \/ ExecComplete(t) \/ ExecClean(t) \/ ExecAnnounce(t)
  BY <1>4 DEF ExecHandoff, ExecComplete, ExecClean, ExecAnnounce, TellOff
<1>5. CASE \/ IntSend(t) \/ IntDiscard(t) \/ IntAnnounce(t) \/ CompleteAnnounce(t)
           \/ PollAnnounce(t) \/ PollClean(t)
  BY <1>5 DEF IntSend, IntSignal, IntDiscard, IntAnnounce, CompleteAnnounce, PollAnnounce, PollClean, TellOff
<1>6. CASE TeardownGiveUp(t) \/ RestartAcquire(t)
  BY <1>6 DEF TeardownGiveUp, Abandon, RestartAcquire, TeardownAcquire
<1>7. CASE StopClean(t) \/ StopAnnounce(t) \/ CloseFinal(t)
  BY <1>7 DEF StopClean, StopAnnounce, StopExit, Abandon, CloseFinal
<1>8. CASE RestartAnnounceOff(t) \/ RestartAnnounce(t)
  BY <1>8 DEF RestartAnnounceOff, TellOff, RestartAnnounce, TellOn
<1> QED BY <1>1, <1>2, <1>3, <1>4, <1>5, <1>6, <1>7, <1>8

\* Handlers that capture a kernel, learn that theirs is dead, or get a new
\* generation: what they know from then on is true.
LEMMA CapturesKnow ==
  ASSUME LaneInvariant, ProcessInvariant, ~SignalMayFail, NEW t \in Threads,
         \/ StartPrepare(t) \/ RestartPrepare(t)
         \/ ExecAcquire(t) \/ CompleteAcquire(t) \/ CompleteReply(t) \/ PollAcquire(t)
         \/ IntRequest(t) \/ IntRaise(t)
         \/ StopAcquire(t) \/ CloseAcquire(t) \/ RestartClean(t)
  PROVE  ThreadKnows(t)'
<1> USE DEF SpawnPcs, FreshPcs, StartedPcs, DeadPcs, CurrentPcs, ExecPcs, ProbePcs, InterruptPcs,
            locals, kernelVars, adapterVars, At, Goto, Go, Step, Take, Leave, Return
<1>0. /\ pc \in [Threads -> Pcs] /\ kern \in [Threads -> 0..MaxKernel]
      /\ kernel \in 0..MaxKernel /\ lastKernel \in 0..MaxKernel
      /\ ThreadKnows(t)
  BY DEF LaneInvariant, TypeOK, ThreadsOK, KernelOK, ProcessInvariant
<1>1. CASE StartPrepare(t) \/ RestartPrepare(t)
  <2>1. CASE pc'[t] = "idle"
    BY <2>1, NeedsNotKnow
  <2>2. CASE pc'[t] # "idle"
    <3>1. /\ pc'[t] \in SpawnPcs /\ kern'[t] = lastKernel + 1 /\ lastKernel < MaxKernel
          /\ UNCHANGED proc
      BY <1>0, <1>1, <2>2 DEF StartPrepare, RestartPrepare, Prepare, PrepareAs
    <3>2. lastKernel + 1 \in Kernels /\ lastKernel + 1 > lastKernel
      BY <1>0, <3>1, BoundAssumption DEF Kernels
    <3> QED BY <3>1, <3>2 DEF ThreadKnows, ProcessInvariant, FutureIsUnborn
  <2> QED BY <2>1, <2>2
<1>2. CASE ExecAcquire(t) \/ CompleteAcquire(t)
  <2>1. /\ on /\ kern'[t] = kernel /\ UNCHANGED proc
        /\ pc'[t] \in {"exec_activate", "complete"}
    BY <1>0, <1>2 DEF ExecAcquire, CompleteAcquire, Live
  <2> QED BY <2>1, CurrentExists DEF ThreadKnows
<1>3. CASE CompleteReply(t)
  <2>1. CASE Usable(kern[t])
    BY <1>0, <1>3, <2>1, NeedsNotKnow DEF CompleteReply
  <2>2. CASE ~Usable(kern[t])
    <3>1. kern[t] \in Kernels /\ pc[t] = "complete" /\ kern'[t] = kern[t] /\ pc'[t] = "complete_off"
          /\ UNCHANGED proc
      BY <1>0, <1>3, <2>2 DEF CompleteReply, ThreadKnows
    <3> QED BY <1>0, <2>2, <3>1, CurrentExists DEF ThreadKnows, Alive
  <2> QED BY <2>1, <2>2
<1>4. CASE PollAcquire(t)
  <2>1. /\ on /\ kern'[t] = kernel /\ UNCHANGED proc /\ ~Usable(kernel)
        /\ pc'[t] = "poll_off"
    BY <1>0, <1>4 DEF PollAcquire, PollWhen, Live, LaneInvariant, KernelInvariant, HandleOfOn
  <2> QED BY <2>1, CurrentExists DEF ThreadKnows, Alive
<1>5. CASE IntRequest(t)
  <2>1. PICK u \in Threads : pc[u] \in ExecutingPcs
    BY <1>5 DEF IntRequest, IntRequestWhen, LaneInvariant, ExecutionInvariant, ActiveIsRun
  <2>2. kern'[t] = kern[u] /\ pc'[t] = "int_send" /\ UNCHANGED proc
    BY <1>0, <1>5, <2>1, RunnerExcludesStarter DEF IntRequest, IntRequestWhen
  <2>3. ThreadKnows(u)
    BY DEF ProcessInvariant
  <2> QED BY <2>1, <2>2, <2>3 DEF ThreadKnows, ExecutingPcs
<1>6. CASE IntRaise(t)
  <2>1. CASE pc'[t] = "idle"
    BY <2>1, NeedsNotKnow
  <2>2. CASE pc'[t] # "idle"
    <3>1. /\ pc[t] = "int_send" /\ kern'[t] = kern[t] /\ UNCHANGED proc
          /\ \/ pc'[t] = "int_refused"
             \/ pc'[t] = "int_failed" /\ ~Usable(kern[t])
      BY <1>0, <1>6, <2>2 DEF IntRaise
    <3> QED BY <1>0, <3>1, CurrentExists DEF ThreadKnows, Alive
  <2> QED BY <2>1, <2>2
<1>7. CASE StopAcquire(t) \/ CloseAcquire(t)
  <2>1. \/ pc'[t] \in {"idle", "close_final"}
        \/ on /\ kern'[t] = kernel /\ pc'[t] = "stop_clean" /\ UNCHANGED proc
    BY <1>0, <1>7 DEF StopAcquire, CloseAcquire, TeardownAcquire
  <2>2. CASE pc'[t] \in {"idle", "close_final"}
    BY <2>2, NeedsNotKnow
  <2>3. CASE on /\ kern'[t] = kernel /\ pc'[t] = "stop_clean" /\ UNCHANGED proc
    BY <2>3, CurrentExists DEF ThreadKnows
  <2> QED BY <2>1, <2>2, <2>3
<1>8. CASE RestartClean(t)
  <2>1. kern[t] = kernel
    BY <1>8 DEF RestartClean, RestartCleanThen, LaneInvariant, KernelInvariant, HoldsCurrent
  <2>2. \/ pc'[t] \in {"idle", "restart_prepare"}
        \/ on /\ kern'[t] = kernel /\ pc'[t] = "restart_kill" /\ UNCHANGED proc
    BY <1>0, <1>8, <2>1 DEF RestartClean, RestartCleanThen
  <2>3. CASE pc'[t] \in {"idle", "restart_prepare"}
    BY <2>3, NeedsNotKnow
  <2>4. CASE on /\ kern'[t] = kernel /\ pc'[t] = "restart_kill" /\ UNCHANGED proc
    BY <2>4, CurrentExists DEF ThreadKnows
  <2> QED BY <2>2, <2>3, <2>4
<1> QED BY <1>1, <1>2, <1>3, <1>4, <1>5, <1>6, <1>7, <1>8

\* ManagedJupyterKernel.stop, and the kill of a teardown that waited too long.
LEMMA KillsKeepProcesses ==
  ASSUME LaneInvariant, ProcessInvariant, ~ShutdownMayFail, NEW t \in Threads,
         ExecKill(t) \/ PollKill(t) \/ StopKill(t) \/ RestartKill(t) \/ TeardownTimeout(t)
  PROVE  ProcessInvariant'
<1>0. /\ pc \in [Threads -> Pcs] /\ kern \in [Threads -> 0..MaxKernel]
      /\ proc \in [Kernels -> {"none", "alive", "dead"}] /\ closed \subseteq Kernels
      /\ ThreadKnows(t) /\ \A k \in closed : proc[k] = "dead"
  BY DEF LaneInvariant, TypeOK, ThreadsOK, AdapterOK, ProcessInvariant, ClosedIsDead
<1>1. CASE ExecKill(t) \/ PollKill(t) \/ StopKill(t) \/ RestartKill(t)
  <2>1. CASE RestartKill(t) /\ handle = 0
    <3>1. Settled(t) /\ pc'[t] = "idle"
      BY <1>0, <2>1 DEF RestartKill, Settled, FreshPcs, Leave, Return, Goto, At, kernelVars,
                        adapterVars, Shutdown, ShutdownFails
    <3>2. ThreadKnows(t)'
      BY <3>1, NeedsNotKnow DEF SpawnPcs, FreshPcs, StartedPcs, DeadPcs, CurrentPcs, ExecPcs,
                                ProbePcs, InterruptPcs
    <3> QED BY <3>1, <3>2, SettledKeepsProcesses
  <2>2. CASE ~(RestartKill(t) /\ handle = 0)
    <3>1. /\ pc[t] \in {"exec_kill", "poll_kill", "stop_kill", "restart_kill"}
          /\ pc'[t] \in {"exec_clean", "poll_clean", "stop_off", "restart_off"}
          /\ Shutdown(kern[t]) /\ UNCHANGED <<kern, kernel, on, lastKernel>>
          /\ \A u \in Threads \ {t} : pc'[u] = pc[u]
      BY <1>0, <1>1, <2>2 DEF ExecKill, PollKill, StopKill, RestartKill, ShutdownFails, Step, Go, Goto,
                         At, locals, kernelVars
    <3>2. kern[t] \in Kernels /\ proc[kern[t]] # "none"
      BY <1>0, <3>1 DEF ThreadKnows, StartedPcs, CurrentPcs, ExecPcs, ProbePcs
    <3>3. proc'[kern[t]] = "dead" /\ \A k \in Kernels \ {kern[t]} : proc'[k] = proc[k]
      BY <1>0, <3>1, <3>2 DEF Shutdown
    <3>4. Settled(t)
      BY <1>0, <3>1, <3>2, <3>3 DEF Settled, Shutdown, FreshPcs
    <3>5. ThreadKnows(t)'
      BY <3>1, <3>2, <3>3 DEF ThreadKnows, Alive, SpawnPcs, FreshPcs
    <3> QED BY <3>4, <3>5, SettledKeepsProcesses
  <2> QED BY <2>1, <2>2
<1>2. CASE TeardownTimeout(t)
  <2>1. /\ pc[t] = "wait" /\ pc'[t] \in {"idle", "wait2"}
        /\ UNCHANGED <<closed, kernel, on, lastKernel>>
        /\ \A u \in Threads \ {t} : pc'[u] = pc[u] /\ kern'[u] = kern[u]
        /\ UNCHANGED proc \/ \E h \in Kernels : proc[h] = "alive" /\ proc' = [proc EXCEPT ![h] = "dead"]
    BY <1>0, <1>2 DEF TeardownTimeout, Abandon, Return, Go, Goto, At, locals, kernelVars, Alive
  <2>2. Settled(t)
    BY <1>0, <2>1 DEF Settled, FreshPcs
  <2>3. ThreadKnows(t)'
    BY <2>1, NeedsNotKnow DEF SpawnPcs, FreshPcs, StartedPcs, DeadPcs, CurrentPcs, ExecPcs,
                              ProbePcs, InterruptPcs
  <2> QED BY <2>2, <2>3, SettledKeepsProcesses
<1> QED BY <1>1, <1>2

\* Whoever turns a kernel off has seen its process dead.
LEMMA SetOffKeepsProcesses ==
  ASSUME LaneInvariant, ProcessInvariant, NEW t \in Threads,
         ExecOff(t) \/ CompleteOff(t) \/ PollOff(t) \/ StopOff(t) \/ RestartOff(t) \/ IntDied(t)
  PROVE  ProcessInvariant'
<1>0. /\ pc \in [Threads -> Pcs] /\ kern \in [Threads -> 0..MaxKernel] /\ ThreadKnows(t)
      /\ kernel \in 0..MaxKernel /\ on \in BOOLEAN
  BY DEF LaneInvariant, TypeOK, ThreadsOK, KernelOK, ProcessInvariant
<1>1. /\ pc[t] \in DeadPcs /\ pc[t] \in StartedPcs
      /\ UNCHANGED <<proc, closed, kernel, lastKernel>>
      /\ (on' => on) /\ (on /\ ~on' => kernel = kern[t])
      /\ \A u \in Threads \ {t} : pc'[u] = pc[u] /\ kern'[u] = kern[u]
      /\ \/ pc'[t] \in {"idle", "restart_announce_off"}
         \/ /\ kern'[t] = kern[t]
            /\ pc'[t] \in {"exec_announce", "exec_complete", "complete_announce", "poll_announce",
                           "stop_announce", "int_announce"}
  BY <1>0 DEF ExecOff, CompleteOff, PollOff, StopOff, RestartOff, IntDied, SetOff, TurnOff, Step, Go,
         Goto, Return, At, locals, kernelVars, adapterVars, DeadPcs, StartedPcs, CurrentPcs, ExecPcs,
         ProbePcs, InterruptPcs
<1>2. kern[t] \in Kernels /\ proc[kern[t]] # "alive"
  BY <1>0, <1>1 DEF ThreadKnows, Alive
<1>3. Settled(t)
  BY <1>1, <1>2 DEF Settled, FreshPcs, DeadPcs
<1>4. ThreadKnows(t)'
  BY <1>0, <1>1, GoesOnKnowing, NeedsNotKnow
     DEF SpawnPcs, FreshPcs, StartedPcs, DeadPcs, CurrentPcs, ExecPcs, ProbePcs, InterruptPcs
<1> QED BY <1>3, <1>4, SettledKeepsProcesses

\* A fenced prompt and a teardown that cancels turn off only what an adapter
\* refused to signal, which is dead when signals do not fail.
LEMMA CancelKeepsProcesses ==
  ASSUME LaneInvariant, ProcessInvariant, ~SignalMayFail, NEW t \in Threads,
         ExecFencePrompt(t) \/ StopRequest(t) \/ RestartRequest(t) \/ CloseRequest(t)
  PROVE  ProcessInvariant'
<1>0. /\ pc \in [Threads -> Pcs] /\ kern \in [Threads -> 0..MaxKernel] /\ ThreadKnows(t)
      /\ kernel \in 0..MaxKernel /\ on \in BOOLEAN
  BY DEF LaneInvariant, TypeOK, ThreadsOK, KernelOK, ProcessInvariant
<1>1. /\ UNCHANGED <<proc, closed, kernel, lastKernel>>
      /\ on' = on \/ \E k : TurnOffAndTell(k) /\ ~Usable(k)
  <2>1. CASE ExecFencePrompt(t)
    BY <2>1 DEF ExecFencePrompt, FinishExecution, TurnOffAndTell, TurnOff, kernelVars, adapterVars
  <2>2. ASSUME NEW k, CancelExecution(t, k, TRUE) \/ CancelExecution(t, k, FALSE)
        PROVE  /\ UNCHANGED <<kernel, lastKernel>>
               /\ on' = on \/ (TurnOffAndTell(k) /\ ~Usable(k))
    BY <2>2 DEF CancelExecution, TurnOffAndTell, TurnOff, kernelVars
  <2>3. CASE StopRequest(t) \/ RestartRequest(t) \/ CloseRequest(t)
    <3>1. UNCHANGED <<proc, closed>>
      BY <2>3 DEF StopRequest, RestartRequest, CloseRequest, Teardown, adapterVars
    <3>2. \/ UNCHANGED <<kernel, lastKernel, on>>
          \/ \E k : CancelExecution(t, k, TRUE) \/ CancelExecution(t, k, FALSE)
      BY <2>3 DEF StopRequest, RestartRequest, CloseRequest, Teardown, kernelVars
    <3> QED BY <2>2, <3>1, <3>2
  <2> QED BY <2>1, <2>3
<1>2. (on' => on) /\ (on /\ ~on' => proc[kernel] # "alive")
  <2>1. ASSUME NEW k, TurnOffAndTell(k), ~Usable(k)
        PROVE  (on' => on) /\ (on /\ ~on' => kernel = k)
    BY <1>0, <2>1 DEF TurnOffAndTell, TurnOff, kernelVars
  <2> QED BY <1>0, <1>1, <2>1, CurrentExists
<1>3. /\ pc[t] \notin FreshPcs
      /\ \A u \in Threads \ {t} : pc'[u] = pc[u] /\ kern'[u] = kern[u]
      /\ \/ pc'[t] \in {"idle", "wait"}
         \/ /\ kern'[t] = kern[t] /\ pc[t] \in StartedPcs
            /\ pc'[t] \in {"exec_run", "exec_finish"}
  BY <1>0 DEF ExecFencePrompt, StopRequest, RestartRequest, CloseRequest, Teardown, CancelExecution,
              Return, Go, Goto, At, locals, FreshPcs, StartedPcs, CurrentPcs, ExecPcs
<1>4. Settled(t)
  BY <1>1, <1>2, <1>3 DEF Settled
<1>5. ThreadKnows(t)'
  BY <1>0, <1>1, <1>3, GoesOnKnowing, NeedsNotKnow
     DEF SpawnPcs, FreshPcs, StartedPcs, DeadPcs, CurrentPcs, ExecPcs, ProbePcs, InterruptPcs
<1> QED BY <1>4, <1>5, SettledKeepsProcesses

\* No signal to a live process fails, so nothing is to be undone after one.
LEMMA NoneAfterFailedSignal ==
  ASSUME NoSignalFailed, ~SignalMayFail, NEW t \in Threads
  PROVE  ~IntSendFails(t) /\ ~IntClear(t) /\ ~CancelFails(t)
  BY DEF NoSignalFailed, IntSendFails, IntClear, CancelFails, Step, At

\* Places before and after a new kernel exists exclude each other.
LEMMA NewExcludesOthers ==
  ASSUME LaneInvariant, NEW t \in Threads, pc[t] \in NewPcs
  PROVE  /\ ~on /\ kern[t] = lastKernel /\ kern[t] \in Kernels /\ lane = t
         /\ \A u \in Threads \ {t} : pc[u] \notin NewPcs \cup CurrentPcs
<1>1. ~on /\ kern[t] = lastKernel /\ kernel < lastKernel
  BY DEF LaneInvariant, KernelInvariant, QuietIsOff, FreshIsNew
<1>2. kern[t] \in Kernels
  BY <1>1, BoundAssumption DEF LaneInvariant, TypeOK, KernelOK, Kernels
<1>3. \A u \in Threads : pc[u] \in NewPcs \cup CurrentPcs => pc[u] \in LanePcs
  BY DEF NewPcs, CurrentPcs, LanePcs, StartPcs, StopPcs, RestartPcs
<1> QED BY <1>1, <1>2, <1>3 DEF LaneInvariant, LaneIsExclusive

\* KernelFactory.start: the one step that starts a process starts one that
\* does not exist yet, and its starter is about to publish it.
LEMMA SpawnKeepsProcesses ==
  ASSUME LaneInvariant, ProcessInvariant, ~ShutdownMayFail, NEW t \in Threads,
         StartSpawn(t) \/ RestartSpawn(t)
  PROVE  ProcessInvariant'
<1>0. /\ pc \in [Threads -> Pcs] /\ kern \in [Threads -> 0..MaxKernel] /\ ThreadKnows(t)
      /\ proc \in [Kernels -> {"none", "alive", "dead"}] /\ closed \subseteq Kernels
      /\ Kernels \subseteq Nat /\ lastKernel \in Nat
  BY BoundAssumption DEF LaneInvariant, TypeOK, ThreadsOK, KernelOK, AdapterOK, ProcessInvariant, Kernels
<1>1. /\ pc[t] \in SpawnPcs /\ UNCHANGED <<closed, kernel, on, lastKernel>>
      /\ \A u \in Threads \ {t} : pc'[u] = pc[u] /\ kern'[u] = kern[u]
      /\ \/ pc'[t] = "idle" /\ UNCHANGED proc
         \/ /\ pc'[t] \in FreshPcs /\ kern'[t] = kern[t]
            /\ proc' = [proc EXCEPT ![kern[t]] = "alive"]
  BY <1>0 DEF StartSpawn, RestartSpawn, Spawn, SpawnPcs, FreshPcs, Leave, Return, Go, Goto, At, locals,
         kernelVars
<1>2. CASE pc'[t] = "idle" /\ UNCHANGED proc
  <2>1. Settled(t)
    BY <1>1, <1>2 DEF Settled, SpawnPcs, FreshPcs
  <2>2. ThreadKnows(t)'
    BY <1>2, NeedsNotKnow DEF SpawnPcs, FreshPcs, StartedPcs, DeadPcs, CurrentPcs, ExecPcs,
                              ProbePcs, InterruptPcs
  <2> QED BY <2>1, <2>2, SettledKeepsProcesses
<1>3. CASE /\ pc'[t] \in FreshPcs /\ kern'[t] = kern[t]
           /\ proc' = [proc EXCEPT ![kern[t]] = "alive"]
  <2>1. /\ ~on /\ kern[t] = lastKernel /\ kern[t] \in Kernels /\ proc[kern[t]] = "none"
        /\ \A u \in Threads \ {t} : pc[u] \notin NewPcs \cup CurrentPcs
    BY <1>0, <1>1, NewExcludesOthers DEF SpawnPcs, NewPcs, ThreadKnows
  <2>2. proc'[kern[t]] = "alive" /\ \A k \in Kernels \ {kern[t]} : proc'[k] = proc[k]
    BY <1>0, <1>3, <2>1
  <2>3. ClosedIsDead'
    BY <1>0, <1>1, <2>1, <2>2 DEF ProcessInvariant, ClosedIsDead
  <2>4. FutureIsUnborn'
    BY <1>0, <1>1, <2>1, <2>2 DEF ProcessInvariant, FutureIsUnborn
  <2>5. OnIsBorn'
    BY <1>1, <2>1 DEF OnIsBorn
  <2>6. AliveIsReached'
    BY <1>1, <1>3, <2>1, <2>2 DEF ProcessInvariant, AliveIsReached, Alive, SpawnPcs, FreshPcs
  <2>7. ThreadKnows(t)'
    BY <1>3, <2>2 DEF ThreadKnows, FreshPcs, SpawnPcs, StartedPcs, DeadPcs, CurrentPcs, ExecPcs,
                      ProbePcs, InterruptPcs
  <2>8. ASSUME NEW u \in Threads \ {t}
        PROVE  ThreadKnows(u)'
    <3>1. ThreadKnows(u) /\ pc'[u] = pc[u] /\ kern'[u] = kern[u] /\ pc[u] \notin SpawnPcs \cup FreshPcs
      BY <1>1, <2>1 DEF ProcessInvariant, SpawnPcs, FreshPcs, NewPcs
    <3>2. pc[u] \in DeadPcs => pc[u] \in StartedPcs
      BY DEF DeadPcs, StartedPcs, CurrentPcs, ExecPcs, ProbePcs, InterruptPcs
    <3>3. pc[u] \in StartedPcs => kern[u] \in Kernels /\ kern[u] # kern[t]
      BY <2>1, <3>1 DEF ThreadKnows
    <3> QED BY <2>2, <3>1, <3>2, <3>3 DEF ThreadKnows, Alive
  <2> QED BY <2>3, <2>4, <2>5, <2>6, <2>7, <2>8 DEF ProcessInvariant
<1> QED BY <1>1, <1>2, <1>3

\* The publication hands the process over from its starter to the supervisor.
LEMMA PublishKeepsProcesses ==
  ASSUME LaneInvariant, ProcessInvariant, NEW t \in Threads, StartPublish(t) \/ RestartPublish(t)
  PROVE  ProcessInvariant'
<1>0. pc \in [Threads -> Pcs] /\ ThreadKnows(t)
  BY DEF LaneInvariant, TypeOK, ThreadsOK, ProcessInvariant
<1>1. /\ pc[t] \in FreshPcs /\ pc'[t] \in TellOnPcs /\ kernel' = kern[t] /\ on'
      /\ UNCHANGED <<kern, proc, closed, lastKernel>>
      /\ \A u \in Threads \ {t} : pc'[u] = pc[u]
  BY <1>0 DEF StartPublish, RestartPublish, Publish, Step, Go, Goto, At, locals, adapterVars, FreshPcs,
         TellOnPcs
<1>2. /\ ~on /\ kern[t] \in Kernels /\ proc[kern[t]] # "none"
      /\ \A u \in Threads \ {t} : pc[u] \notin FreshPcs
  BY <1>0, <1>1, NewExcludesOthers DEF FreshPcs, NewPcs, ThreadKnows
<1>3. ClosedIsDead' /\ FutureIsUnborn' /\ OnIsBorn'
  BY <1>1, <1>2 DEF ProcessInvariant, ClosedIsDead, FutureIsUnborn, OnIsBorn
<1>4. AliveIsReached'
  BY <1>1, <1>2 DEF ProcessInvariant, AliveIsReached, Alive
<1>5. ThreadKnows(t)'
  BY <1>1, <1>2 DEF ThreadKnows, TellOnPcs, SpawnPcs, FreshPcs, DeadPcs
<1>6. \A u \in Threads \ {t} : ThreadKnows(u)'
  BY <1>1 DEF ProcessInvariant, ThreadKnows, Alive
<1> QED BY <1>3, <1>4, <1>5, <1>6 DEF ProcessInvariant

\* Whatever thread steps, and whenever a process dies by itself.
LEMMA KeepsProcessInvariant ==
  ASSUME LaneInvariant, ProcessInvariant, NoSignalFailed, ~SignalMayFail, ~ShutdownMayFail,
         [Next]_vars
  PROVE  ProcessInvariant'
<1>1. ASSUME NEW t \in Threads, Settled(t), UNCHANGED proc,
             \/ pc'[t] \notin SpawnPcs \cup FreshPcs \cup StartedPcs \cup DeadPcs
             \/ /\ kern'[t] = kern[t] /\ pc'[t] \notin SpawnPcs \cup FreshPcs
                /\ pc'[t] \in StartedPcs => pc[t] \in StartedPcs
                /\ pc'[t] \in DeadPcs => pc[t] \in DeadPcs
      PROVE  ProcessInvariant'
  BY <1>1, GoesOnKnowing, NeedsNotKnow, SettledKeepsProcesses DEF ProcessInvariant
<1>2. ASSUME NEW t \in Threads, Request(t) \/ ServiceCall(t) \/ KernelCode(t) \/ ThreadStep(t)
      PROVE  ProcessInvariant'
  BY <1>1, <1>2, UnrelatedSteps, KnowingSteps, CapturesKnow, SettledKeepsProcesses,
     KillsKeepProcesses, SetOffKeepsProcesses, NoneAfterFailedSignal, CancelKeepsProcesses, SpawnKeepsProcesses,
     PublishKeepsProcesses
     DEF Request, ServiceCall, KernelCode, ThreadStep, StartStep, ExecStep, InterruptStep,
         ProbeStep, TeardownStep, StopStep, RestartStep
<1>3. ASSUME NEW k \in Kernels, Die(k)
      PROVE  ProcessInvariant'
  <2>1. /\ proc[k] = "alive" /\ proc' = [proc EXCEPT ![k] = "dead"]
        /\ UNCHANGED <<pc, kern, closed, kernel, on, lastKernel>>
        /\ proc \in [Kernels -> {"none", "alive", "dead"}] /\ closed \subseteq Kernels
    BY <1>3 DEF Die, Alive, locals, kernelVars, LaneInvariant, TypeOK, AdapterOK
  <2>2. ASSUME NEW u \in Threads
        PROVE  ThreadKnows(u)'
    <3>1. ThreadKnows(u)
      BY DEF ProcessInvariant
    <3>2. pc[u] \in SpawnPcs \cup FreshPcs => kern[u] \in Kernels
      BY NewExcludesOthers DEF SpawnPcs, FreshPcs, NewPcs
    <3> QED BY <2>1, <3>1, <3>2 DEF ThreadKnows, Alive
  <2>3. ClosedIsDead' /\ FutureIsUnborn' /\ AliveIsReached'
    BY <2>1 DEF ProcessInvariant, ClosedIsDead, FutureIsUnborn, AliveIsReached, Alive
  <2>4. OnIsBorn'
    BY <2>1, CurrentExists DEF OnIsBorn
  <2> QED BY <2>2, <2>3, <2>4 DEF ProcessInvariant
<1>4. ASSUME SubmitInput \/ UNCHANGED vars
      PROVE  ProcessInvariant'
  <2>1. UNCHANGED <<pc, kern, proc, closed, kernel, on, lastKernel>>
    BY <1>4 DEF SubmitInput, Submit, vars, locals, kernelVars, adapterVars
  <2> QED BY <2>1 DEF ProcessInvariant, ClosedIsDead, FutureIsUnborn, OnIsBorn, AliveIsReached,
                      ThreadKnows, Alive
<1> QED BY <1>2, <1>3, <1>4 DEF Next, Exit

\* Only a failing signal leads to the places after one.
LEMMA KeepsNoSignalFailed ==
  ASSUME LaneInvariant, NoSignalFailed, ~SignalMayFail, [Next]_vars
  PROVE  NoSignalFailed'
<1> USE DEF LaneInvariant, TypeOK, ThreadsOK, NoSignalFailed, locals, At, Goto, Go, Step, Take,
            Leave, Return
<1>1. ASSUME NEW t \in Threads,
             \/ StartAcquire(t) \/ StartStep(t) \/ CompleteAcquire(t) \/ PollAcquire(t)
             \/ ProbeStep(t)
      PROVE  NoSignalFailed'
  BY <1>1 DEF StartAcquire, StartWhen, StartStep, StartClean, StartCleanOr, StartPrepare, Prepare,
              PrepareAs, StartSpawn, Spawn, StartPublish, Publish, StartAnnounce, TellOn,
              CompleteAcquire, PollAcquire, PollWhen, ProbeStep, CompleteReply, CompleteOff,
              CompleteAnnounce, PollOff, PollAnnounce, PollKill, PollClean, SetOff, TellOff
<1>2. ASSUME NEW t \in Threads,
             \/ ExecAcquire(t) \/ ExecPrompt(t) \/ ExecReturn(t) \/ ExecActivate(t) \/ ExecBegin(t)
             \/ ExecPublishPrompt(t) \/ ExecFencePrompt(t) \/ ExecSendInput(t)
             \/ ExecObserveDeath(t)
      PROVE  NoSignalFailed'
  BY <1>2 DEF ExecAcquire, ExecPrompt, ExecReturn, ExecActivate, ExecBegin, ExecPublishPrompt,
              ExecFencePrompt, ExecSendInput, ExecObserveDeath, AdapterReturns
<1>3. ASSUME NEW t \in Threads,
             \/ ExecFinish(t) \/ ExecHandoff(t) \/ ExecComplete(t) \/ ExecKill(t) \/ ExecClean(t)
             \/ ExecOff(t) \/ ExecAnnounce(t)
      PROVE  NoSignalFailed'
  BY <1>3 DEF ExecFinish, Finish, ExecHandoff, ExecComplete, ExecKill, ExecClean, ExecOff, SetOff,
              ExecAnnounce, TellOff
<1>4. ASSUME NEW t \in Threads, IntRequest(t) \/ InterruptStep(t)
      PROVE  NoSignalFailed'
  BY <1>4, NoneAfterFailedSignal
     DEF IntRequest, IntRequestWhen, InterruptStep, IntSend, IntSignal, IntRaise, IntDiscard,
         IntDied, IntAnnounce
<1>5. ASSUME NEW t \in Threads, StopRequest(t) \/ RestartRequest(t) \/ CloseRequest(t)
      PROVE  NoSignalFailed'
  BY <1>5 DEF StopRequest, RestartRequest, CloseRequest, Teardown, CancelExecution
<1>6. ASSUME NEW t \in Threads, TeardownStep(t) \/ StopStep(t)
      PROVE  NoSignalFailed'
  BY <1>6, NoneAfterFailedSignal
     DEF TeardownStep, TeardownTimeout, TeardownGiveUp, Abandon, StopAcquire, CloseAcquire,
         RestartAcquire, TeardownAcquire, StopStep, StopClean, StopKill, StopOff, StopAnnounce,
         StopExit, CloseFinal, SetOff
<1>7. ASSUME NEW t \in Threads, RestartStep(t)
      PROVE  NoSignalFailed'
  BY <1>7 DEF RestartStep, RestartClean, RestartCleanThen, RestartKill, RestartOff,
              RestartAnnounceOff, RestartPrepare, Prepare, PrepareAs, RestartSpawn, Spawn,
              RestartPublish, Publish, RestartAnnounce, TellOn, SetOff, TellOff
<1>8. ASSUME SubmitInput \/ (\E k \in Kernels : Die(k)) \/ UNCHANGED vars
      PROVE  NoSignalFailed'
  BY <1>8 DEF SubmitInput, Submit, Die, vars
<1> QED BY <1>1, <1>2, <1>3, <1>4, <1>5, <1>6, <1>7, <1>8
        DEF Next, Exit, Request, ServiceCall, KernelCode, ThreadStep, ExecStep

-----------------------------------------------------------------------------
(* The theorems.                                                           *)

\* Nothing was told, asked, signalled or started yet.
LEMMA InitSafety ==
  Init => EventInvariant /\ PromptInvariant /\ SignalInvariant /\ ProcessInvariant
<1> SUFFICES ASSUME Init
             PROVE  EventInvariant /\ PromptInvariant /\ SignalInvariant /\ ProcessInvariant
  OBVIOUS
<1>1. EventInvariant
  BY DEF Init, EventInvariant, ToldIsOff, TellerIsOff, AnnouncedIsOn, InterruptedIsOld,
         NoStateEventLost, TellOffPcs, TellOnPcs, InterruptPcs
<1>2. PromptInvariant
  BY DEF Init, PromptInvariant, PromptIsAsked, PromptIsUnique, ReplyIsToPrompt, SentIsAsked,
         SentIsClosed, RepliesReachTheirPrompt
<1>3. SignalInvariant
  BY DEF Init, SignalInvariant, ExecutingIsRun, SignalIsDelivered, ResultIsOfRunner, InterruptIsReal,
         InterruptedGotSignal, RunPcs
<1>4. ProcessInvariant
  <2>1. \A t \in Threads : ThreadKnows(t)
    BY DEF Init, ThreadKnows, SpawnPcs, FreshPcs, StartedPcs, DeadPcs, CurrentPcs, ExecPcs, ProbePcs,
           InterruptPcs
  <2> QED BY <2>1 DEF Init, ProcessInvariant, ClosedIsDead, FutureIsUnborn, OnIsBorn,
                      AliveIsReached, Alive
<1> QED BY <1>1, <1>2, <1>3, <1>4

\* The feed of kernel.state_changed events: every kernel announced on and now
\* off is announced off, or a thread is about to; none that is on ever was.
THEOREM StateEvents == Spec => []NoStateEventLost
<1>1. Spec => []EventInvariant
  BY InitSafety, KeepsEventInvariant, LaneInvariantHolds, PTL DEF Spec
<1>2. EventInvariant => NoStateEventLost
  BY DEF EventInvariant
<1> QED BY <1>1, <1>2, PTL

\* submit_input and the adapter's loop: what is sent to the kernel was written
\* for the prompt it answers, and no prompt is answered twice.
THEOREM Replies == Spec => []RepliesReachTheirPrompt
<1>1. Spec => []PromptInvariant
  BY InitSafety, KeepsPromptInvariant, LaneInvariantHolds, PTL DEF Spec
<1>2. PromptInvariant => RepliesReachTheirPrompt
  BY DEF PromptInvariant
<1> QED BY <1>1, <1>2, PTL

\* An execution is reported interrupted only if a signal was sent, or, where
\* signals may fail, tried, while it was the active one, by whichever of the
\* paths that send one.
THEOREM Interrupts == Spec => []InterruptedGotSignal
<1>1. Spec => []SignalInvariant
  BY InitSafety, KeepsSignalInvariant, LaneInvariantHolds, PTL DEF Spec
<1>2. SignalInvariant => InterruptedGotSignal
  BY DEF SignalInvariant
<1> QED BY <1>1, <1>2, PTL

\* ProcessInvariant holds between any two steps of the handlers, if a signal to
\* a live process succeeds and a forced shutdown kills.
THEOREM ProcessInvariantHolds ==
  ASSUME ~SignalMayFail, ~ShutdownMayFail
  PROVE  Spec => [](LaneInvariant /\ ProcessInvariant)
<1>1. Init => NoSignalFailed
  BY DEF Init, NoSignalFailed
<1> QED BY <1>1, InitSafety, KeepsNoSignalFailed, KeepsProcessInvariant, LaneInvariantHolds, PTL
        DEF Spec

\* Then a live kernel process is reachable through the supervisor's handle, or
\* about to be published by the thread that started it.
THEOREM ProcessesReached ==
  ASSUME ~SignalMayFail, ~ShutdownMayFail
  PROVE  Spec => []NoOrphan
<1>1. LaneInvariant /\ ProcessInvariant => NoOrphan
  <2> SUFFICES ASSUME LaneInvariant, ProcessInvariant, NEW k \in Kernels, Alive(k),
                      ~(on /\ kernel = k)
               PROVE  lane # NoThread /\ pc[lane] \in FreshPcs /\ kern[lane] = k
    BY DEF NoOrphan, LaneInvariant, KernelInvariant, HandleOfOn
  <2>1. PICK t \in Threads : pc[t] \in FreshPcs /\ kern[t] = k
    BY DEF ProcessInvariant, AliveIsReached
  <2>2. lane = t
    BY <2>1, NewExcludesOthers DEF FreshPcs, NewPcs
  <2> QED BY <2>1, <2>2, ThreadAssumption
<1> QED BY <1>1, ProcessInvariantHolds, PTL

\* And no two of them live at once, over starts, restarts, deaths and kills.
THEOREM ProcessesAlone ==
  ASSUME ~SignalMayFail, ~ShutdownMayFail
  PROVE  Spec => []OneProcess
<1>1. LaneInvariant /\ ProcessInvariant => OneProcess
  <2> SUFFICES ASSUME LaneInvariant, ProcessInvariant,
                      NEW j \in Kernels, NEW k \in Kernels, Alive(j), Alive(k)
               PROVE  j = k
    BY DEF OneProcess
  <2>1. ASSUME NEW t \in Threads, NEW u \in Threads, pc[t] \in FreshPcs, pc[u] \in FreshPcs
        PROVE  ~on /\ t = u
    BY <2>1, NewExcludesOthers DEF FreshPcs, NewPcs
  <2> QED BY <2>1 DEF ProcessInvariant, AliveIsReached
<1> QED BY <1>1, ProcessInvariantHolds, PTL
=============================================================================
