-------------------------- MODULE SupervisorTyping --------------------------
(***************************************************************************)
(* Every step of Supervisor keeps every variable in its type, for every    *)
(* number of threads and every bound: a lemma per building block, one per  *)
(* handler, and StepTyping for all of Next.  TypeOK is not inductive by    *)
(* itself: what a thread captured must name a kernel or an execution that  *)
(* exists where it is used, which LaneInvariant says (lemma References).   *)
(***************************************************************************)
EXTENDS SupervisorInvariant, TLAPS

-----------------------------------------------------------------------------
(* Control and locals.                                                     *)

LEMMA GotoTyping ==
  ASSUME ThreadsOK, NEW t \in Threads, NEW label \in Pcs, Goto(t, label)
  PROVE  pc' \in [Threads -> Pcs]
  BY DEF ThreadsOK, Goto

LEMMA LocalsTyping ==
  ASSUME ThreadsOK, UNCHANGED locals
  PROVE  /\ op' \in [Threads -> {"none", "stop", "restart", "close"}]
         /\ kern' \in [Threads -> 0..MaxKernel]
         /\ exe' \in [Threads -> 0..MaxExec]
         /\ res' \in [Threads -> Results]
  BY DEF ThreadsOK, locals

\* A handler that goes on with the locals it has, with or without the lane.
LEMMA GoTyping ==
  ASSUME ThreadsOK, NEW t \in Threads, NEW to \in Pcs, Go(t, to),
         lane' \in Threads \cup {NoThread}
  PROVE  ThreadsOK'
  BY GotoTyping, LocalsTyping DEF ThreadsOK, Go

LEMMA ReturnTyping ==
  ASSUME ThreadsOK, NEW t \in Threads, Return(t), lane' \in Threads \cup {NoThread}
  PROVE  ThreadsOK'
<1>1. pc' \in [Threads -> Pcs]
  BY GotoTyping DEF Return, Pcs, OffLanePcs
<1>2. op' \in [Threads -> {"none", "stop", "restart", "close"}]
  BY DEF ThreadsOK, Return
<1>3. kern' \in [Threads -> 0..MaxKernel] /\ exe' \in [Threads -> 0..MaxExec]
  BY BoundAssumption DEF ThreadsOK, Return
<1>4. res' \in [Threads -> Results]
  BY DEF ThreadsOK, Return, Results
<1> QED BY <1>1, <1>2, <1>3, <1>4 DEF ThreadsOK

\* Writing one local of a thread keeps the others.
LEMMA KernTyping ==
  ASSUME ThreadsOK, NEW t \in Threads, NEW k \in 0..MaxKernel, NEW label \in Pcs,
         Goto(t, label), kern' = [kern EXCEPT ![t] = k], UNCHANGED <<op, exe, res>>,
         lane' \in Threads \cup {NoThread}
  PROVE  ThreadsOK'
  BY GotoTyping DEF ThreadsOK

LEMMA ResTyping ==
  ASSUME ThreadsOK, NEW t \in Threads, NEW r \in Results, NEW label \in Pcs,
         Goto(t, label), res' = [res EXCEPT ![t] = r], UNCHANGED <<lane, op, kern, exe>>
  PROVE  ThreadsOK'
  BY GotoTyping DEF ThreadsOK

LEMMA LabelsArePcs ==
  /\ StartPcs \subseteq Pcs /\ ExecPcs \subseteq Pcs /\ ProbePcs \subseteq Pcs
  /\ StopPcs \subseteq Pcs /\ RestartPcs \subseteq Pcs /\ OffLanePcs \subseteq Pcs
  BY DEF Pcs, LanePcs

\* What a step leaves alone keeps its type.
LEMMA FrameTyping ==
  ASSUME TypeOK
  PROVE  /\ UNCHANGED <<lane, pc, locals>> => ThreadsOK'
         /\ UNCHANGED kernelVars => KernelOK'
         /\ UNCHANGED execVars => ExecOK'
         /\ UNCHANGED adapterVars => AdapterOK'
         /\ UNCHANGED <<eventVars, ghostVars>> => HistoryOK'
<1>1. UNCHANGED <<lane, pc, locals>> => ThreadsOK'
  BY DEF TypeOK, ThreadsOK, locals
<1>2. UNCHANGED kernelVars => KernelOK'
  BY DEF TypeOK, KernelOK, kernelVars
<1>3. UNCHANGED execVars => ExecOK'
  BY DEF TypeOK, ExecOK, execVars
<1>4. UNCHANGED adapterVars => AdapterOK'
  BY DEF TypeOK, AdapterOK, adapterVars
<1>5. UNCHANGED <<eventVars, ghostVars>> => HistoryOK'
  BY DEF TypeOK, HistoryOK, eventVars, ghostVars
<1> QED BY <1>1, <1>2, <1>3, <1>4, <1>5

-----------------------------------------------------------------------------
(* Events.                                                                 *)

\* Counting an event, whether or not the index is one the function has.
LEMMA BumpTyping ==
  ASSUME NEW S, NEW f \in [S -> Nat], NEW x
  PROVE  [f EXCEPT ![x] = @ + 1] \in [S -> Nat]
<1>1. CASE x \in S
  <2>1. f[x] + 1 \in Nat
    BY <1>1
  <2> QED BY <2>1
<1>2. CASE x \notin S
  <2>1. [f EXCEPT ![x] = @ + 1] = f
    BY <1>2
  <2> QED BY <2>1
<1> QED BY <1>1, <1>2

LEMMA WriteTyping ==
  ASSUME NEW S, NEW V, NEW f \in [S -> V], NEW x, NEW v \in V
  PROVE  [f EXCEPT ![x] = v] \in [S -> V]
<1>1. CASE x \in S
  BY <1>1
<1>2. CASE x \notin S
  BY <1>2
<1> QED BY <1>1, <1>2

LEMMA AppendTyping ==
  ASSUME NEW S, NEW q \in Seq(S), NEW x \in S
  PROVE  Append(q, x) \in Seq(S)
  OBVIOUS

LEMMA EventTyping ==
  ASSUME HistoryOK, UNCHANGED ghostVars, ons' \in [Kernels -> Nat], offs' \in [Kernels -> Nat]
  PROVE  HistoryOK'
  BY DEF HistoryOK, ghostVars

LEMMA AppendOnTyping ==
  ASSUME HistoryOK, NEW k, AppendOn(k), UNCHANGED ghostVars
  PROVE  HistoryOK'
<1>1. ons' \in [Kernels -> Nat]
  BY BumpTyping DEF HistoryOK, AppendOn
<1>2. offs' \in [Kernels -> Nat]
  BY DEF HistoryOK, AppendOn
<1> QED BY <1>1, <1>2, EventTyping

LEMMA AppendOffTyping ==
  ASSUME HistoryOK, NEW k, AppendOff(k), UNCHANGED ghostVars
  PROVE  HistoryOK'
<1>1. offs' \in [Kernels -> Nat]
  BY BumpTyping DEF HistoryOK, AppendOff
<1>2. ons' \in [Kernels -> Nat]
  BY DEF HistoryOK, AppendOff
<1> QED BY <1>1, <1>2, EventTyping

-----------------------------------------------------------------------------
(* Replacement.                                                            *)

LEMMA PrepareTyping ==
  ASSUME TypeOK, NEW t \in Threads, NEW from, NEW to \in Pcs, Prepare(t, from, to)
  PROVE  TypeOK'
<1>1. ThreadsOK'
  <2>1. CASE Leave(t)
    BY <2>1, ReturnTyping DEF Leave, TypeOK
  <2>2. ASSUME lastKernel < MaxKernel, kern' = [kern EXCEPT ![t] = lastKernel + 1],
               Goto(t, to), UNCHANGED <<lane, op, exe, res>>
        PROVE  ThreadsOK'
    <3>1. lastKernel + 1 \in 0..MaxKernel
      BY <2>2, BoundAssumption DEF TypeOK, KernelOK
    <3> QED BY <2>2, <3>1, KernTyping DEF TypeOK, ThreadsOK
  <2> QED BY <2>1, <2>2 DEF Prepare, PrepareAs
<1>2. KernelOK'
  BY BoundAssumption DEF Prepare, PrepareAs, TypeOK, KernelOK
<1>3. ExecOK' /\ AdapterOK' /\ HistoryOK'
  BY FrameTyping DEF Prepare, PrepareAs
<1> QED BY <1>1, <1>2, <1>3 DEF TypeOK

LEMMA SpawnTyping ==
  ASSUME TypeOK, NEW t \in Threads, NEW from, NEW to \in Pcs, Spawn(t, from, to)
  PROVE  TypeOK'
<1>1. ThreadsOK'
  BY ReturnTyping, GoTyping DEF Spawn, Leave, TypeOK, ThreadsOK
<1>2. AdapterOK'
  BY DEF Spawn, TypeOK, AdapterOK
<1>3. KernelOK' /\ ExecOK' /\ HistoryOK'
  BY FrameTyping DEF Spawn
<1> QED BY <1>1, <1>2, <1>3 DEF TypeOK

LEMMA PublishTyping ==
  ASSUME TypeOK, NEW t \in Threads, NEW from, NEW to \in Pcs, Publish(t, from, to)
  PROVE  TypeOK'
<1>1. ThreadsOK'
  BY GoTyping DEF Publish, Step, TypeOK, ThreadsOK
<1>2. KernelOK'
  BY DEF Publish, TypeOK, KernelOK, ThreadsOK, kernelVars
<1>3. ExecOK' /\ AdapterOK' /\ HistoryOK'
  BY FrameTyping DEF Publish
<1> QED BY <1>1, <1>2, <1>3 DEF TypeOK

LEMMA TellOnTyping ==
  ASSUME TypeOK, NEW t \in Threads, NEW from, TellOn(t, from)
  PROVE  TypeOK'
<1>1. ThreadsOK'
  BY ReturnTyping DEF TellOn, Leave, TypeOK, ThreadsOK
<1>2. HistoryOK'
  BY AppendOnTyping DEF TellOn, TypeOK
<1>3. KernelOK' /\ ExecOK' /\ AdapterOK'
  BY FrameTyping DEF TellOn
<1> QED BY <1>1, <1>2, <1>3 DEF TypeOK

LEMMA TellOffTyping ==
  ASSUME TypeOK, NEW t \in Threads, NEW from, NEW to \in Pcs, TellOff(t, from, to)
  PROVE  TypeOK'
<1>1. ThreadsOK'
  BY GoTyping DEF TellOff, Step, TypeOK, ThreadsOK
<1>2. HistoryOK'
  BY AppendOffTyping DEF TellOff, TypeOK
<1>3. KernelOK' /\ ExecOK' /\ AdapterOK'
  BY FrameTyping DEF TellOff
<1> QED BY <1>1, <1>2, <1>3 DEF TypeOK

LEMMA TurnOffTyping ==
  ASSUME TypeOK, NEW k, TurnOff(k)
  PROVE  KernelOK'
  BY BoundAssumption DEF TurnOff, TypeOK, KernelOK

LEMMA SetOffTyping ==
  ASSUME TypeOK, NEW t \in Threads, NEW from, NEW to \in Pcs, SetOff(t, from, to)
  PROVE  TypeOK'
<1>1. ThreadsOK'
  BY GoTyping DEF SetOff, Step, TypeOK, ThreadsOK
<1>2. KernelOK'
  BY TurnOffTyping DEF SetOff
<1>3. ExecOK' /\ AdapterOK' /\ HistoryOK'
  BY FrameTyping DEF SetOff
<1> QED BY <1>1, <1>2, <1>3 DEF TypeOK

LEMMA ShutdownTyping ==
  ASSUME TypeOK, NEW k \in Kernels, Shutdown(k) \/ ShutdownFails(k)
  PROVE  AdapterOK'
<1>1. proc' \in [Kernels -> {"none", "alive", "dead"}]
  BY DEF TypeOK, AdapterOK, Shutdown, ShutdownFails
<1>2. closed' \subseteq Kernels
  BY DEF TypeOK, AdapterOK, Shutdown, ShutdownFails
<1> QED BY <1>1, <1>2 DEF TypeOK, AdapterOK, Shutdown, ShutdownFails

LEMMA CleanTyping ==
  ASSUME KernelOK, UNCHANGED <<kernel, on, handle, runtime, lastKernel>>,
         Cleaned \/ CleanFails
  PROVE  KernelOK'
  BY DEF KernelOK, Cleaned, CleanFails

\* A step that only moves its thread and the lane.
LEMMA MoveTyping ==
  ASSUME TypeOK, ThreadsOK', UNCHANGED <<kernelVars, execVars, adapterVars, eventVars, ghostVars>>
  PROVE  TypeOK'
  BY FrameTyping DEF TypeOK

LEMMA LeaveTyping ==
  ASSUME TypeOK, NEW t \in Threads, Leave(t)
  PROVE  ThreadsOK'
  BY ReturnTyping DEF Leave, TypeOK

LEMMA StayTyping ==
  ASSUME TypeOK, NEW t \in Threads, NEW to \in Pcs, Go(t, to), UNCHANGED lane
  PROVE  ThreadsOK'
  BY GoTyping DEF TypeOK, ThreadsOK

-----------------------------------------------------------------------------
(* What the threads captured exists.                                       *)

LEMMA References ==
  ASSUME LaneInvariant
  PROVE  /\ \A t \in Threads : pc[t] \in CurrentPcs => kern[t] \in Kernels
         /\ \A t \in Threads : pc[t] \in ExecPcs \cup {"int_send"} => exe[t] \in Execs
<1>1. ASSUME NEW t \in Threads, pc[t] \in CurrentPcs
      PROVE  kern[t] \in Kernels
  <2>1. kern[t] \in 0..MaxKernel /\ kern[t] # 0
    BY <1>1 DEF LaneInvariant, TypeOK, ThreadsOK, KernelInvariant, HoldsCurrent
  <2> QED BY <2>1, BoundAssumption DEF Kernels
<1>2. ASSUME NEW t \in Threads, pc[t] \in ExecPcs \cup {"int_send"}
      PROVE  exe[t] \in Execs
  <2>1. exe[t] \in 0..MaxExec
    BY DEF LaneInvariant, TypeOK, ThreadsOK
  <2>2. exe[t] # 0
    BY <1>2 DEF LaneInvariant, ExecutionInvariant, RunnerHasExecution, InterrupterHasExecution, At
  <2> QED BY <2>1, <2>2, BoundAssumption DEF Execs
<1> QED BY <1>1, <1>2

LEMMA ActiveReferences ==
  ASSUME LaneInvariant, active # None
  PROVE  active[1] \in Execs /\ active[2] \in Kernels
<1>1. PICK t \in Threads : pc[t] \in ExecutingPcs
  BY DEF LaneInvariant, ExecutionInvariant, ActiveIsRun
<1>2. active = <<exe[t], kern[t]>>
  BY <1>1 DEF LaneInvariant, ExecutionInvariant, RunnerIsActive
<1>3. pc[t] \in ExecPcs /\ pc[t] \in CurrentPcs
  BY <1>1 DEF ExecutingPcs, ExecPcs, CurrentPcs
<1> QED BY <1>2, <1>3, References

-----------------------------------------------------------------------------
(* The handlers.                                                           *)

LEMMA StartTyping ==
  ASSUME LaneInvariant, NEW t \in Threads, StartAcquire(t) \/ StartStep(t)
  PROVE  TypeOK'
<1> USE LabelsArePcs DEF LaneInvariant
<1>1. CASE StartAcquire(t)
  <2>1. pc' \in [Threads -> Pcs]
    BY <1>1, GotoTyping DEF StartAcquire, StartWhen, Take, StartPcs, TypeOK
  <2>2. ThreadsOK'
    BY <1>1, <2>1, LocalsTyping DEF StartAcquire, StartWhen, Take, TypeOK, ThreadsOK
  <2> QED BY <1>1, <2>2, MoveTyping DEF StartAcquire, StartWhen
<1>2. CASE StartClean(t)
  <2>1. ThreadsOK'
    BY <1>2, LeaveTyping, StayTyping DEF StartClean, StartCleanOr, StartPcs
  <2>2. KernelOK'
    BY <1>2, CleanTyping DEF StartClean, StartCleanOr, TypeOK
  <2> QED BY <1>2, <2>1, <2>2, FrameTyping DEF StartClean, StartCleanOr, TypeOK
<1>3. CASE StartPrepare(t)
  BY <1>3, PrepareTyping DEF StartPrepare, StartPcs
<1>4. CASE StartSpawn(t)
  BY <1>4, SpawnTyping DEF StartSpawn, StartPcs
<1>5. CASE StartPublish(t)
  BY <1>5, PublishTyping DEF StartPublish, StartPcs
<1>6. CASE StartAnnounce(t)
  BY <1>6, TellOnTyping DEF StartAnnounce
<1> QED BY <1>1, <1>2, <1>3, <1>4, <1>5, <1>6 DEF StartStep

LEMMA FinishExecutionTyping ==
  ASSUME AdapterOK, NEW k, FinishExecution(k)
  PROVE  AdapterOK'
<1>1. 0 \in 0..MaxPrompt
  BY BoundAssumption
<1>2. prompt' \in [Kernels -> 0..MaxPrompt]
  BY <1>1, WriteTyping DEF AdapterOK, FinishExecution
<1>3. reply' \in [Kernels -> 0..MaxPrompt]
  BY <1>1, WriteTyping DEF AdapterOK, FinishExecution
<1> QED BY <1>2, <1>3 DEF AdapterOK, FinishExecution

LEMMA TurnOffAndTellTyping ==
  ASSUME TypeOK, NEW k, TurnOffAndTell(k)
  PROVE  /\ KernelOK'
         /\ ons' \in [Kernels -> Nat] /\ offs' \in [Kernels -> Nat]
<1>1. CASE kernel = k /\ on
  <2>1. KernelOK'
    BY <1>1, TurnOffTyping DEF TurnOffAndTell
  <2>2. ons \in [Kernels -> Nat] /\ offs \in [Kernels -> Nat]
    BY DEF TypeOK, HistoryOK
  <2>3. offs' \in [Kernels -> Nat] /\ ons' \in [Kernels -> Nat]
    BY <1>1, <2>2, BumpTyping DEF TurnOffAndTell, AppendOff
  <2> QED BY <2>1, <2>3
<1>2. CASE ~(kernel = k /\ on)
  <2>1. KernelOK'
    BY <1>2, FrameTyping DEF TurnOffAndTell
  <2> QED BY <1>2, <2>1 DEF TurnOffAndTell, TypeOK, HistoryOK, eventVars
<1> QED BY <1>1, <1>2

\* Writing down that a signal was tried.
LEMMA TriedTyping ==
  ASSUME HistoryOK, NEW e, NEW how \in {"sent", "failed"}, Tried(e, how)
  PROVE  signals' \in [Execs -> {"none", "failed", "sent"}]
  BY DEF Tried, HistoryOK

LEMMA AcquireExecTyping ==
  ASSUME LaneInvariant, NEW t \in Threads, ExecAcquire(t)
  PROVE  TypeOK'
<1>1. ThreadsOK'
  <2>1. pc' \in [Threads -> Pcs]
    BY GotoTyping, LabelsArePcs DEF ExecAcquire, Take, ExecPcs, LaneInvariant, TypeOK
  <2>2. kern' \in [Threads -> 0..MaxKernel]
    BY DEF ExecAcquire, LaneInvariant, TypeOK, ThreadsOK, KernelOK
  <2>3. exe' \in [Threads -> 0..MaxExec]
    BY BoundAssumption DEF ExecAcquire, LaneInvariant, TypeOK, ThreadsOK, ExecOK
  <2> QED BY <2>1, <2>2, <2>3 DEF ExecAcquire, Take, LaneInvariant, TypeOK, ThreadsOK
<1>2. ExecOK'
  BY BoundAssumption DEF ExecAcquire, LaneInvariant, TypeOK, ExecOK
<1> QED BY <1>1, <1>2, FrameTyping DEF ExecAcquire, LaneInvariant, TypeOK

LEMMA BeginTyping ==
  ASSUME LaneInvariant, NEW t \in Threads, ExecActivate(t) \/ ExecBegin(t)
  PROVE  TypeOK'
<1> USE LabelsArePcs DEF LaneInvariant
<1>1. CASE ExecActivate(t)
  <2>1. ThreadsOK'
    BY <1>1, StayTyping DEF ExecActivate, Step, ExecPcs
  <2>2. ExecOK'
    BY <1>1 DEF ExecActivate, TypeOK, ThreadsOK, ExecOK
  <2> QED BY <1>1, <2>1, <2>2, FrameTyping DEF ExecActivate, TypeOK
<1>2. CASE ExecBegin(t)
  <2>1. kern[t] \in Kernels
    BY <1>2, References DEF ExecBegin, At, CurrentPcs, ExecPcs
  <2>2. ThreadsOK'
    <3>1. CASE Usable(kern[t])
      <4>1. pc' \in [Threads -> Pcs]
        BY <1>2, <3>1, GotoTyping DEF ExecBegin, ExecPcs, TypeOK
      <4> QED BY <1>2, <3>1, <4>1 DEF ExecBegin, TypeOK, ThreadsOK
    <3>2. CASE ~Usable(kern[t])
      BY <1>2, <3>2, ResTyping DEF ExecBegin, TypeOK, ExecPcs, Results
    <3> QED BY <3>1, <3>2
  <2>3. AdapterOK'
    BY <1>2, <2>1 DEF ExecBegin, TypeOK, AdapterOK
  <2> QED BY <1>2, <2>2, <2>3, FrameTyping DEF ExecBegin, TypeOK
<1> QED BY <1>1, <1>2

LEMMA PromptTyping ==
  ASSUME LaneInvariant, NEW t \in Threads,
         ExecPrompt(t) \/ ExecPublishPrompt(t) \/ ExecSendInput(t)
  PROVE  TypeOK'
<1> USE LabelsArePcs DEF LaneInvariant
<1>1. CASE ExecPrompt(t)
  <2>1. ThreadsOK'
    BY <1>1, StayTyping DEF ExecPrompt, Step, ExecPcs
  <2>2. lastPrompt + 1 \in 0..MaxPrompt /\ 0 \in 0..MaxPrompt
    BY <1>1, BoundAssumption DEF ExecPrompt, TypeOK, AdapterOK
  <2>3. prompt' \in [Kernels -> 0..MaxPrompt] /\ reply' \in [Kernels -> 0..MaxPrompt]
    BY <1>1, <2>2, WriteTyping DEF ExecPrompt, TypeOK, AdapterOK
  <2>4. AdapterOK'
    BY <1>1, <2>2, <2>3, BoundAssumption DEF ExecPrompt, TypeOK, AdapterOK
  <2> QED BY <1>1, <2>1, <2>4, FrameTyping DEF ExecPrompt, TypeOK
<1>2. CASE ExecPublishPrompt(t)
  <2>1. kern[t] \in Kernels
    BY <1>2, References DEF ExecPublishPrompt, Step, At, CurrentPcs, ExecPcs
  <2>2. ThreadsOK'
    BY <1>2, StayTyping DEF ExecPublishPrompt, Step, ExecPcs
  <2>3. ExecOK'
    BY <1>2, <2>1 DEF ExecPublishPrompt, TypeOK, ThreadsOK, ExecOK, AdapterOK
  <2> QED BY <1>2, <2>2, <2>3, FrameTyping DEF ExecPublishPrompt, TypeOK
<1>3. CASE ExecSendInput(t)
  <2>1. kern[t] \in Kernels
    BY <1>3, References DEF ExecSendInput, Step, At, CurrentPcs, ExecPcs
  <2>2. ThreadsOK'
    BY <1>3, StayTyping DEF ExecSendInput, Step, ExecPcs
  <2>3. 0 \in 0..MaxPrompt
    BY BoundAssumption
  <2>4. prompt' \in [Kernels -> 0..MaxPrompt] /\ reply' \in [Kernels -> 0..MaxPrompt]
    BY <1>3, <2>3, WriteTyping DEF ExecSendInput, TypeOK, AdapterOK
  <2>5. AdapterOK'
    BY <1>3, <2>4 DEF ExecSendInput, TypeOK, AdapterOK
  <2>6. sent' \in Seq((0..MaxPrompt) \X (0..MaxPrompt))
    <3>1. <<prompt[kern[t]], reply[kern[t]]>> \in (0..MaxPrompt) \X (0..MaxPrompt)
      BY <2>1 DEF TypeOK, AdapterOK
    <3>2. sent \in Seq((0..MaxPrompt) \X (0..MaxPrompt))
      BY DEF TypeOK, HistoryOK
    <3>3. Append(sent, <<prompt[kern[t]], reply[kern[t]]>>) \in Seq((0..MaxPrompt) \X (0..MaxPrompt))
      BY <3>1, <3>2, AppendTyping
    <3> QED BY <1>3, <3>2, <3>3 DEF ExecSendInput
  <2>7. HistoryOK'
    BY <1>3, <2>6 DEF ExecSendInput, TypeOK, HistoryOK, eventVars
  <2> QED BY <1>3, <2>2, <2>5, <2>7, FrameTyping DEF ExecSendInput, TypeOK
<1> QED BY <1>1, <1>2, <1>3

LEMMA FenceTyping ==
  ASSUME LaneInvariant, NEW t \in Threads, ExecFencePrompt(t)
  PROVE  TypeOK'
<1> USE LabelsArePcs DEF LaneInvariant
<1>1. kern[t] \in Kernels /\ exe[t] \in Execs
  BY References DEF ExecFencePrompt, At, CurrentPcs, ExecPcs
<1>2. active[1] \in 0..MaxExec
  BY DEF TypeOK, ExecOK
<1>3. ThreadsOK'
  <2>1. CASE Go(t, "exec_run")
    BY <2>1, StayTyping DEF ExecFencePrompt, ExecPcs
  <2>2. ASSUME Goto(t, "exec_finish"), UNCHANGED <<op, kern, exe>>,
               res' = [res EXCEPT ![t] = IF Alive(kern[t]) THEN "replied" ELSE "died"]
        PROVE  ThreadsOK'
    BY <2>2, ResTyping DEF ExecFencePrompt, ExecPcs, Results, TypeOK
  <2> QED BY <2>1, <2>2 DEF ExecFencePrompt
<1>4. KernelOK'
  BY FrameTyping, TurnOffAndTellTyping DEF ExecFencePrompt
<1>5. ExecOK'
  BY <1>1 DEF ExecFencePrompt, TypeOK, ExecOK
<1>6. AdapterOK'
  <2>1. CASE UNCHANGED adapterVars
    BY <2>1, FrameTyping
  <2>2. CASE FinishExecution(kern[t])
    BY <2>2, FinishExecutionTyping DEF TypeOK
  <2>3. ASSUME signalled' = signalled \cup {kern[t]},
               UNCHANGED <<proc, closed, executing, prompt, reply, lastPrompt>>
        PROVE  AdapterOK'
    BY <1>1, <2>3 DEF TypeOK, AdapterOK
  <2> QED BY <2>1, <2>2, <2>3 DEF ExecFencePrompt
<1>7. HistoryOK'
  <2>1. ons' \in [Kernels -> Nat] /\ offs' \in [Kernels -> Nat]
    <3>1. CASE UNCHANGED eventVars
      BY <3>1 DEF TypeOK, HistoryOK, eventVars
    <3>2. CASE TurnOffAndTell(kern[t])
      BY <3>2, TurnOffAndTellTyping
    <3> QED BY <3>1, <3>2 DEF ExecFencePrompt
  <2>2. signals' \in [Execs -> {"none", "failed", "sent"}]
    BY TriedTyping DEF ExecFencePrompt, TypeOK, HistoryOK
  <2> QED BY <2>1, <2>2 DEF ExecFencePrompt, TypeOK, HistoryOK
<1> QED BY <1>3, <1>4, <1>5, <1>6, <1>7 DEF TypeOK

LEMMA AdapterReturnsTyping ==
  ASSUME TypeOK, NEW t \in Threads, NEW result \in Results, AdapterReturns(t, result)
  PROVE  TypeOK'
<1>1. ThreadsOK'
  BY ResTyping, LabelsArePcs DEF AdapterReturns, ExecPcs, TypeOK
<1>2. AdapterOK'
  BY FinishExecutionTyping DEF AdapterReturns, TypeOK
<1> QED BY <1>1, <1>2, FrameTyping DEF AdapterReturns, TypeOK

LEMMA FinishTyping ==
  ASSUME LaneInvariant, NEW t \in Threads,
         ExecReturn(t) \/ ExecObserveDeath(t) \/ ExecFinish(t)
  PROVE  TypeOK'
<1> USE LabelsArePcs DEF LaneInvariant
<1>1. CASE ExecReturn(t)
  BY <1>1, AdapterReturnsTyping DEF ExecReturn, Results
<1>2. CASE ExecObserveDeath(t)
  BY <1>2, AdapterReturnsTyping DEF ExecObserveDeath, Results
<1>3. CASE ExecFinish(t)
  <2> DEFINE r == IF res[t] = "interrupted" /\ ~Requested(t) THEN "replied" ELSE res[t]
             l == CASE res[t] = "died" -> "exec_kill"
                    [] res[t] = "interrupted" -> "exec_complete"
                    [] OTHER -> "exec_handoff"
  <2>1. r \in Results /\ l \in Pcs
    BY DEF TypeOK, ThreadsOK, Results, ExecPcs
  <2>2. Goto(t, l) /\ res' = [res EXCEPT ![t] = r] /\ UNCHANGED <<lane, op, kern, exe>>
    BY <1>3 DEF ExecFinish, Finish
  <2> HIDE DEF r, l
  <2>3. ThreadsOK'
    BY <2>1, <2>2, ResTyping DEF TypeOK
  <2>4. None \in (0..MaxExec) \X (0..MaxKernel) /\ None \in (0..MaxExec) \X (0..MaxPrompt)
    BY BoundAssumption DEF None
  <2>5. ExecOK'
    BY <1>3, <2>4 DEF ExecFinish, Finish, TypeOK, ExecOK
  <2> QED BY <1>3, <2>3, <2>5, FrameTyping DEF ExecFinish, Finish, TypeOK
<1> QED BY <1>1, <1>2, <1>3

LEMMA ExecTyping ==
  ASSUME LaneInvariant, NEW t \in Threads, ExecAcquire(t) \/ KernelCode(t) \/ ExecStep(t)
  PROVE  TypeOK'
<1> USE LabelsArePcs DEF LaneInvariant
<1>1. CASE ExecHandoff(t)
  <2>1. ThreadsOK'
    BY <1>1, StayTyping DEF ExecHandoff, Step, ExecPcs
  <2>2. runtime # 0 => runtime \in Kernels
    BY BoundAssumption DEF TypeOK, KernelOK, Kernels
  <2>3. deps' \subseteq Kernels
    BY <1>1, <2>2 DEF ExecHandoff, TypeOK, KernelOK
  <2>4. KernelOK'
    BY <1>1, <2>3 DEF ExecHandoff, TypeOK, KernelOK
  <2> QED BY <1>1, <2>1, <2>4, FrameTyping DEF ExecHandoff, TypeOK
<1>2. CASE ExecComplete(t)
  <2>1. ThreadsOK'
    BY <1>2, LeaveTyping DEF ExecComplete
  <2>2. outcome' \in [Execs -> Results]
    BY <1>2, WriteTyping DEF ExecComplete, TypeOK, ThreadsOK, HistoryOK
  <2>3. HistoryOK'
    BY <1>2, <2>2 DEF ExecComplete, TypeOK, HistoryOK, eventVars
  <2> QED BY <1>2, <2>1, <2>3, FrameTyping DEF ExecComplete, TypeOK
<1>3. CASE ExecKill(t)
  <2>1. ThreadsOK'
    BY <1>3, StayTyping DEF ExecKill, Step, ExecPcs
  <2>2. AdapterOK'
    BY <1>3, References, ShutdownTyping DEF ExecKill, Step, At, CurrentPcs, ExecPcs
  <2> QED BY <1>3, <2>1, <2>2, FrameTyping DEF ExecKill, TypeOK
<1>4. CASE ExecClean(t)
  <2>1. ThreadsOK'
    BY <1>4, StayTyping DEF ExecClean, Step, ExecPcs
  <2>2. KernelOK'
    BY <1>4, CleanTyping DEF ExecClean, TypeOK
  <2> QED BY <1>4, <2>1, <2>2, FrameTyping DEF ExecClean, TypeOK
<1>5. CASE ExecOff(t)
  BY <1>5, SetOffTyping DEF ExecOff, ExecPcs
<1>6. CASE ExecAnnounce(t)
  BY <1>6, TellOffTyping DEF ExecAnnounce, ExecPcs
<1> QED BY <1>1, <1>2, <1>3, <1>4, <1>5, <1>6, AcquireExecTyping, BeginTyping, PromptTyping,
           FenceTyping, FinishTyping
        DEF KernelCode, ExecStep

-----------------------------------------------------------------------------
(* The control paths and the probes.                                       *)

LEMMA InputTyping ==
  ASSUME LaneInvariant, SubmitInput
  PROVE  TypeOK'
<1> USE DEF LaneInvariant
<1>1. PICK p \in 1..lastPrompt : Submit(p, p)
  BY DEF SubmitInput
<1>2. p \in 0..MaxPrompt
  BY BoundAssumption DEF TypeOK, AdapterOK
<1>3. AdapterOK'
  BY <1>1, <1>2, WriteTyping DEF Submit, TypeOK, AdapterOK
<1>4. None \in (0..MaxExec) \X (0..MaxPrompt)
  BY BoundAssumption DEF None
<1>5. ExecOK'
  BY <1>1, <1>4 DEF Submit, TypeOK, ExecOK
<1> QED BY <1>1, <1>3, <1>5, FrameTyping DEF Submit, TypeOK

LEMMA InterruptTyping ==
  ASSUME LaneInvariant, NEW t \in Threads, IntRequest(t) \/ InterruptStep(t)
  PROVE  TypeOK'
<1> USE LabelsArePcs DEF LaneInvariant
<1>1. CASE IntRequest(t)
  <2>1. active[1] \in Execs /\ active[2] \in Kernels
    BY <1>1, ActiveReferences DEF IntRequest, IntRequestWhen
  <2>2. active[1] \in 0..MaxExec /\ active[2] \in 0..MaxKernel
    BY DEF TypeOK, ExecOK
  <2>3. pc' \in [Threads -> Pcs]
    BY <1>1, GotoTyping DEF IntRequest, IntRequestWhen, OffLanePcs, InterruptPcs, TypeOK
  <2>4. kern' \in [Threads -> 0..MaxKernel] /\ exe' \in [Threads -> 0..MaxExec]
    BY <1>1, <2>2, WriteTyping DEF IntRequest, IntRequestWhen, TypeOK, ThreadsOK
  <2>5. ThreadsOK'
    BY <1>1, <2>3, <2>4 DEF IntRequest, IntRequestWhen, TypeOK, ThreadsOK
  <2>6. ExecOK'
    BY <1>1, <2>1 DEF IntRequest, IntRequestWhen, TypeOK, ExecOK
  <2> QED BY <1>1, <2>5, <2>6, FrameTyping DEF IntRequest, IntRequestWhen, TypeOK
<1>2. ASSUME NEW how \in {"sent", "failed"}, IntSignal(t, how), ThreadsOK'
      PROVE  TypeOK'
  <2>1. AdapterOK'
    BY <1>2 DEF IntSignal, TypeOK, AdapterOK, Usable, Alive
  <2>2. signals' \in [Execs -> {"none", "failed", "sent"}]
    BY <1>2, TriedTyping DEF IntSignal, TypeOK
  <2>3. HistoryOK'
    BY <1>2, <2>2 DEF IntSignal, TypeOK, HistoryOK, eventVars
  <2> QED BY <1>2, <2>1, <2>3, FrameTyping DEF IntSignal, TypeOK
<1>3. CASE IntSend(t)
  <2>1. ThreadsOK'
    BY <1>3, ReturnTyping DEF IntSend, IntSignal, TypeOK, ThreadsOK
  <2> QED BY <1>2, <1>3, <2>1 DEF IntSend
<1>6. CASE IntSendFails(t)
  <2>1. ThreadsOK'
    BY <1>6, StayTyping DEF IntSendFails, IntSignal, OffLanePcs, InterruptPcs, TypeOK
  <2> QED BY <1>2, <1>6, <2>1 DEF IntSendFails
<1>7. CASE IntClear(t)
  <2>1. ThreadsOK'
    BY <1>7, StayTyping DEF IntClear, Step, OffLanePcs, InterruptPcs, TypeOK
  <2>2. AdapterOK'
    BY <1>7 DEF IntClear, TypeOK, AdapterOK
  <2> QED BY <1>7, <2>1, <2>2, FrameTyping DEF IntClear, TypeOK
<1>8. CASE IntRaise(t)
  <2>1. ThreadsOK'
    BY <1>8, StayTyping DEF IntRaise, OffLanePcs, InterruptPcs, TypeOK
  <2> QED BY <1>8, <2>1, FrameTyping DEF IntRaise, TypeOK
<1>9. CASE IntDiscard(t)
  <2>1. ThreadsOK'
    BY <1>9, ReturnTyping, StayTyping
       DEF IntDiscard, OffLanePcs, InterruptPcs, TypeOK, ThreadsOK
  <2>2. ExecOK'
    BY <1>9 DEF IntDiscard, TypeOK, ExecOK
  <2> QED BY <1>9, <2>1, <2>2, FrameTyping DEF IntDiscard, TypeOK
<1>4. CASE IntDied(t)
  <2>1. ThreadsOK'
    BY <1>4, ReturnTyping, StayTyping DEF IntDied, OffLanePcs, InterruptPcs, TypeOK, ThreadsOK
  <2>2. KernelOK'
    BY <1>4, TurnOffTyping, FrameTyping DEF IntDied
  <2> QED BY <1>4, <2>1, <2>2, FrameTyping DEF IntDied, TypeOK
<1>5. CASE IntAnnounce(t)
  <2>1. ThreadsOK'
    BY <1>5, ReturnTyping DEF IntAnnounce, TypeOK, ThreadsOK
  <2>2. HistoryOK'
    BY <1>5, AppendOffTyping DEF IntAnnounce, TypeOK
  <2> QED BY <1>5, <2>1, <2>2, FrameTyping DEF IntAnnounce, TypeOK
<1> QED BY <1>1, <1>3, <1>4, <1>5, <1>6, <1>7, <1>8, <1>9 DEF InterruptStep

\* Taking the lane while capturing the current kernel.
LEMMA CaptureTyping ==
  ASSUME TypeOK, NEW t \in Threads, NEW label \in Pcs, Take(t, label),
         kern' = [kern EXCEPT ![t] = kernel],
         UNCHANGED <<op, exe, res, kernelVars, execVars, adapterVars, eventVars, ghostVars>>
  PROVE  TypeOK'
<1>1. ThreadsOK'
  BY KernTyping DEF Take, TypeOK, ThreadsOK, KernelOK
<1> QED BY <1>1, MoveTyping

LEMMA ProbeTyping ==
  ASSUME LaneInvariant, NEW t \in Threads,
         CompleteAcquire(t) \/ PollAcquire(t) \/ ProbeStep(t)
  PROVE  TypeOK'
<1> USE LabelsArePcs DEF LaneInvariant
<1>1. CASE CompleteAcquire(t)
  BY <1>1, CaptureTyping DEF CompleteAcquire, ProbePcs
<1>2. CASE PollAcquire(t)
  BY <1>2, CaptureTyping DEF PollAcquire, PollWhen, ProbePcs
<1>3. CASE CompleteReply(t)
  <2>1. ThreadsOK'
    BY <1>3, LeaveTyping, StayTyping DEF CompleteReply, ProbePcs
  <2> QED BY <1>3, <2>1, MoveTyping DEF CompleteReply
<1>4. CASE CompleteOff(t)
  BY <1>4, SetOffTyping DEF CompleteOff, ProbePcs
<1>5. CASE CompleteAnnounce(t)
  <2>1. ThreadsOK'
    BY <1>5, LeaveTyping DEF CompleteAnnounce
  <2>2. HistoryOK'
    BY <1>5, AppendOffTyping DEF CompleteAnnounce, TypeOK
  <2> QED BY <1>5, <2>1, <2>2, FrameTyping DEF CompleteAnnounce, TypeOK
<1>6. CASE PollOff(t)
  BY <1>6, SetOffTyping DEF PollOff, ProbePcs
<1>7. CASE PollAnnounce(t)
  BY <1>7, TellOffTyping DEF PollAnnounce, ProbePcs
<1>8. CASE PollKill(t)
  <2>1. ThreadsOK'
    BY <1>8, StayTyping DEF PollKill, Step, ProbePcs
  <2>2. AdapterOK'
    BY <1>8, References, ShutdownTyping DEF PollKill, Step, At, CurrentPcs, ProbePcs
  <2> QED BY <1>8, <2>1, <2>2, FrameTyping DEF PollKill, TypeOK
<1>9. CASE PollClean(t)
  <2>1. ThreadsOK'
    BY <1>9, LeaveTyping DEF PollClean
  <2>2. KernelOK'
    BY <1>9, CleanTyping DEF PollClean, TypeOK
  <2> QED BY <1>9, <2>1, <2>2, FrameTyping DEF PollClean, TypeOK
<1> QED BY <1>1, <1>2, <1>3, <1>4, <1>5, <1>6, <1>7, <1>8, <1>9 DEF ProbeStep

-----------------------------------------------------------------------------
(* Teardowns.                                                              *)

LEMMA CancelTyping ==
  ASSUME LaneInvariant, NEW t \in Threads, NEW k, NEW ignored,
         CancelExecution(t, k, ignored)
  PROVE  /\ pc' \in [Threads -> Pcs]
         /\ KernelOK'
         /\ inputTeardown' \subseteq Execs /\ interruptRequested' \subseteq Execs
         /\ signalled' \subseteq Kernels
         /\ ons' \in [Kernels -> Nat] /\ offs' \in [Kernels -> Nat]
         /\ signals' \in [Execs -> {"none", "failed", "sent"}]
<1> USE DEF LaneInvariant
<1>1. RunsOn(k) => active[1] \in Execs /\ k \in Kernels
  BY ActiveReferences DEF RunsOn
<1>2. pc' \in [Threads -> Pcs]
  BY GotoTyping DEF CancelExecution, Return, Pcs, OffLanePcs, TypeOK
<1>3. KernelOK'
  BY FrameTyping, TurnOffAndTellTyping DEF CancelExecution
<1>4. inputTeardown' \subseteq Execs
  BY <1>1 DEF CancelExecution, TypeOK, ExecOK
<1>5. interruptRequested' \subseteq Execs
  BY <1>1 DEF CancelExecution, TypeOK, ExecOK
<1>6. signalled' \subseteq Kernels
  BY <1>1 DEF CancelExecution, TypeOK, AdapterOK
<1>7. ons' \in [Kernels -> Nat] /\ offs' \in [Kernels -> Nat]
  <2>1. CASE UNCHANGED eventVars
    BY <2>1 DEF TypeOK, HistoryOK, eventVars
  <2>2. CASE TurnOffAndTell(k)
    BY <2>2, TurnOffAndTellTyping
  <2> QED BY <2>1, <2>2 DEF CancelExecution
<1>8. signals' \in [Execs -> {"none", "failed", "sent"}]
  BY TriedTyping DEF CancelExecution, TypeOK, HistoryOK
<1> QED BY <1>2, <1>3, <1>4, <1>5, <1>6, <1>7, <1>8

LEMMA RequestTeardownTyping ==
  ASSUME LaneInvariant, NEW t \in Threads, NEW kind \in {"stop", "restart", "close"},
         NEW k \in 0..MaxKernel, NEW ignored, Teardown(t, kind, k, ignored)
  PROVE  TypeOK'
<1> USE DEF LaneInvariant
<1>1. CancelExecution(t, k, ignored)
  BY DEF Teardown
<1>2. ThreadsOK'
  <2>1. op' \in [Threads -> {"none", "stop", "restart", "close"}]
    BY DEF Teardown, TypeOK, ThreadsOK, locals
  <2>2. kern' \in [Threads -> 0..MaxKernel]
    BY DEF Teardown, TypeOK, ThreadsOK, locals
  <2>3. exe' \in [Threads -> 0..MaxExec] /\ res' \in [Threads -> Results]
    BY DEF Teardown, TypeOK, ThreadsOK, locals
  <2> QED BY <1>1, <2>1, <2>2, <2>3, CancelTyping DEF Teardown, TypeOK, ThreadsOK
<1>3. KernelOK'
  BY <1>1, CancelTyping
<1>4. ExecOK'
  BY <1>1, CancelTyping DEF Teardown, TypeOK, ExecOK
<1>5. AdapterOK'
  BY <1>1, CancelTyping DEF Teardown, TypeOK, AdapterOK
<1>6. HistoryOK'
  BY <1>1, CancelTyping DEF Teardown, TypeOK, HistoryOK
<1> QED BY <1>2, <1>3, <1>4, <1>5, <1>6 DEF TypeOK

LEMMA TeardownAcquireTyping ==
  ASSUME TypeOK, NEW t \in Threads, NEW kind, NEW admitted, NEW label \in Pcs,
         TeardownAcquire(t, kind, admitted, label)
  PROVE  TypeOK'
<1>1. ThreadsOK'
  BY ReturnTyping, GoTyping DEF TeardownAcquire, TypeOK, ThreadsOK
<1> QED BY <1>1, MoveTyping DEF TeardownAcquire

LEMMA DownTyping ==
  ASSUME HistoryOK, NEW t, down' = (down \/ op[t] = "close") \/ UNCHANGED down,
         UNCHANGED <<eventVars, signals, sent, outcome>>
  PROVE  HistoryOK'
<1>1. down' \in BOOLEAN
  BY DEF HistoryOK
<1> QED BY <1>1 DEF HistoryOK, eventVars

LEMMA TeardownTyping ==
  ASSUME LaneInvariant, NEW t \in Threads,
         \/ StopRequest(t) \/ RestartRequest(t) \/ CloseRequest(t)
         \/ TeardownStep(t)
  PROVE  TypeOK'
<1> USE LabelsArePcs DEF LaneInvariant
<1>1. CASE StopRequest(t)
  <2>1. PICK k \in 1..kernel : Teardown(t, "stop", k, FALSE)
    BY <1>1 DEF StopRequest
  <2>2. k \in 0..MaxKernel
    BY BoundAssumption DEF TypeOK, KernelOK
  <2> QED BY <2>1, <2>2, RequestTeardownTyping
<1>2. CASE RestartRequest(t)
  BY <1>2, RequestTeardownTyping DEF RestartRequest, TypeOK, KernelOK
<1>3. CASE CloseRequest(t)
  <2>1. CASE Teardown(t, "close", kernel, TRUE)
    BY <2>1, RequestTeardownTyping DEF TypeOK, KernelOK
  <2>2. CASE ~Teardown(t, "close", kernel, TRUE)
    <3>1. pc' \in [Threads -> Pcs]
      BY <1>3, <2>2, GotoTyping DEF CloseRequest, OffLanePcs, TypeOK
    <3>2. kern' \in [Threads -> 0..MaxKernel]
      BY <1>3, <2>2 DEF CloseRequest, TypeOK, ThreadsOK, KernelOK
    <3>3. op' \in [Threads -> {"none", "stop", "restart", "close"}]
      BY <1>3, <2>2 DEF CloseRequest, TypeOK, ThreadsOK
    <3>4. ThreadsOK'
      BY <1>3, <2>2, <3>1, <3>2, <3>3 DEF CloseRequest, TypeOK, ThreadsOK
    <3> QED BY <1>3, <2>2, <3>4, MoveTyping DEF CloseRequest
  <2> QED BY <2>1, <2>2
<1>9. CASE CancelFails(t)
  <2>1. ThreadsOK'
    BY <1>9, ReturnTyping, StayTyping DEF CancelFails, OffLanePcs, TypeOK, ThreadsOK
  <2>2. KernelOK' /\ ons' \in [Kernels -> Nat] /\ offs' \in [Kernels -> Nat]
    BY <1>9, TurnOffAndTellTyping DEF CancelFails
  <2>3. ExecOK' /\ AdapterOK'
    BY <1>9 DEF CancelFails, TypeOK, ExecOK, AdapterOK
  <2>4. HistoryOK'
    BY <1>9, <2>2 DEF CancelFails, TypeOK, HistoryOK, ghostVars
  <2> QED BY <2>1, <2>2, <2>3, <2>4 DEF TypeOK
<1>4. CASE TeardownTimeout(t)
  <2>1. ThreadsOK'
    BY <1>4, ReturnTyping, StayTyping DEF TeardownTimeout, Abandon, OffLanePcs, TypeOK, ThreadsOK
  <2>2. proc' \in [Kernels -> {"none", "alive", "dead"}]
    BY <1>4, WriteTyping DEF TeardownTimeout, TypeOK, AdapterOK
  <2>3. AdapterOK'
    BY <1>4, <2>2 DEF TeardownTimeout, TypeOK, AdapterOK
  <2>4. HistoryOK'
    BY <1>4, DownTyping DEF TeardownTimeout, Abandon, TypeOK
  <2> QED BY <1>4, <2>1, <2>3, <2>4, FrameTyping DEF TeardownTimeout, TypeOK
<1>5. CASE TeardownGiveUp(t)
  <2>1. ThreadsOK'
    BY <1>5, ReturnTyping DEF TeardownGiveUp, Abandon, TypeOK, ThreadsOK
  <2>2. HistoryOK'
    BY <1>5, DownTyping DEF TeardownGiveUp, Abandon, TypeOK
  <2> QED BY <1>5, <2>1, <2>2, FrameTyping DEF TeardownGiveUp, TypeOK
<1>6. CASE StopAcquire(t)
  BY <1>6, TeardownAcquireTyping DEF StopAcquire, StopPcs
<1>7. CASE CloseAcquire(t)
  <2> DEFINE label == IF on THEN "stop_clean" ELSE "close_final"
  <2>1. label \in Pcs
    BY DEF StopPcs
  <2>2. Goto(t, label) /\ kern' = [kern EXCEPT ![t] = kernel]
    BY <1>7 DEF CloseAcquire
  <2> HIDE DEF label
  <2>3. ThreadsOK'
    BY <1>7, <2>1, <2>2, KernTyping DEF CloseAcquire, TypeOK, ThreadsOK, KernelOK
  <2> QED BY <1>7, <2>3, MoveTyping DEF CloseAcquire
<1>8. CASE RestartAcquire(t)
  BY <1>8, TeardownAcquireTyping DEF RestartAcquire, RestartPcs
<1> QED BY <1>1, <1>2, <1>3, <1>4, <1>5, <1>6, <1>7, <1>8, <1>9 DEF TeardownStep

LEMMA StopExitTyping ==
  ASSUME TypeOK, NEW t \in Threads, StopExit(t)
  PROVE  ThreadsOK'
  BY LeaveTyping, StayTyping, LabelsArePcs DEF StopExit, StopPcs

LEMMA StopTyping ==
  ASSUME LaneInvariant, NEW t \in Threads, StopStep(t)
  PROVE  TypeOK'
<1> USE LabelsArePcs DEF LaneInvariant
<1>1. CASE StopClean(t)
  <2>1. ThreadsOK'
    BY <1>1, StopExitTyping, LeaveTyping, StayTyping DEF StopClean, Abandon, Leave, StopPcs
  <2>2. KernelOK'
    BY <1>1, CleanTyping DEF StopClean, TypeOK, KernelOK
  <2>3. HistoryOK'
    BY <1>1, DownTyping DEF StopClean, Abandon, TypeOK
  <2> QED BY <1>1, <2>1, <2>2, <2>3, FrameTyping DEF StopClean, TypeOK
<1>2. CASE StopKill(t)
  <2>1. ThreadsOK'
    BY <1>2, StopExitTyping, StayTyping DEF StopKill, StopPcs
  <2>2. AdapterOK'
    BY <1>2, References, ShutdownTyping DEF StopKill, At, CurrentPcs
  <2> QED BY <1>2, <2>1, <2>2, FrameTyping DEF StopKill, TypeOK
<1>3. CASE StopOff(t)
  BY <1>3, SetOffTyping DEF StopOff, StopPcs
<1>4. CASE StopAnnounce(t)
  <2>1. ThreadsOK'
    BY <1>4, StopExitTyping DEF StopAnnounce
  <2>2. HistoryOK'
    BY <1>4, AppendOffTyping DEF StopAnnounce, TypeOK
  <2> QED BY <1>4, <2>1, <2>2, FrameTyping DEF StopAnnounce, TypeOK
<1>5. CASE CloseFinal(t)
  <2>1. ThreadsOK'
    BY <1>5, LeaveTyping DEF CloseFinal
  <2>2. KernelOK'
    BY <1>5, CleanTyping DEF CloseFinal, TypeOK
  <2>3. HistoryOK'
    BY <1>5 DEF CloseFinal, TypeOK, HistoryOK, eventVars
  <2> QED BY <1>5, <2>1, <2>2, <2>3, FrameTyping DEF CloseFinal, TypeOK
<1> QED BY <1>1, <1>2, <1>3, <1>4, <1>5 DEF StopStep

LEMMA RestartTyping ==
  ASSUME LaneInvariant, NEW t \in Threads, RestartStep(t)
  PROVE  TypeOK'
<1> USE LabelsArePcs DEF LaneInvariant
<1>1. CASE RestartClean(t)
  <2>1. ThreadsOK'
    <3>1. CASE on
      BY <1>1, <3>1, LeaveTyping, StayTyping DEF RestartClean, RestartCleanThen, RestartPcs
    <3>2. CASE ~on
      BY <1>1, <3>2, LeaveTyping, StayTyping DEF RestartClean, RestartCleanThen, RestartPcs
    <3> QED BY <3>1, <3>2
  <2>2. KernelOK'
    BY <1>1, CleanTyping DEF RestartClean, RestartCleanThen, TypeOK
  <2> QED BY <1>1, <2>1, <2>2, FrameTyping DEF RestartClean, RestartCleanThen, TypeOK
<1>2. CASE RestartKill(t)
  <2>1. ThreadsOK'
    BY <1>2, LeaveTyping, StayTyping DEF RestartKill, RestartPcs
  <2>2. AdapterOK'
    BY <1>2, References, ShutdownTyping, FrameTyping DEF RestartKill, At, CurrentPcs
  <2> QED BY <1>2, <2>1, <2>2, FrameTyping DEF RestartKill, TypeOK
<1>3. CASE RestartOff(t)
  BY <1>3, SetOffTyping DEF RestartOff, RestartPcs
<1>4. CASE RestartAnnounceOff(t)
  BY <1>4, TellOffTyping DEF RestartAnnounceOff, RestartPcs
<1>5. CASE RestartPrepare(t)
  BY <1>5, PrepareTyping DEF RestartPrepare, RestartPcs
<1>6. CASE RestartSpawn(t)
  BY <1>6, SpawnTyping DEF RestartSpawn, RestartPcs
<1>7. CASE RestartPublish(t)
  BY <1>7, PublishTyping DEF RestartPublish, RestartPcs
<1>8. CASE RestartAnnounce(t)
  BY <1>8, TellOnTyping DEF RestartAnnounce
<1> QED BY <1>1, <1>2, <1>3, <1>4, <1>5, <1>6, <1>7, <1>8 DEF RestartStep

-----------------------------------------------------------------------------
(* All of Next.                                                            *)

\* No step takes a variable out of its type.
LEMMA StepTyping ==
  ASSUME LaneInvariant, [Next]_vars
  PROVE  TypeOK'
<1>1. ASSUME NEW t \in Threads, Request(t) \/ ServiceCall(t) \/ KernelCode(t) \/ ThreadStep(t)
      PROVE  TypeOK'
  BY <1>1, StartTyping, ExecTyping, InterruptTyping, ProbeTyping, TeardownTyping, StopTyping,
     RestartTyping
     DEF Request, ServiceCall, ThreadStep
<1>2. ASSUME NEW k \in Kernels, Die(k)
      PROVE  TypeOK'
  <2>1. AdapterOK'
    BY <1>2 DEF Die, LaneInvariant, TypeOK, AdapterOK
  <2> QED BY <1>2, <2>1, FrameTyping DEF Die, LaneInvariant, TypeOK
<1>3. CASE UNCHANGED vars
  BY <1>3, FrameTyping DEF vars, LaneInvariant, TypeOK
<1> QED BY <1>1, <1>2, <1>3, InputTyping DEF Next, Exit

LEMMA InitTyping ==
  Init => TypeOK
<1> SUFFICES ASSUME Init PROVE TypeOK
  OBVIOUS
<1> USE BoundAssumption DEF Init
<1>1. ThreadsOK
  <2>1. "idle" \in Pcs
    BY DEF Pcs, OffLanePcs
  <2> QED BY <2>1 DEF ThreadsOK, Results
<1>2. KernelOK
  <2>1. on \in BOOLEAN
    OBVIOUS
  <2>2. kernel \in 0..MaxKernel /\ handle \in 0..MaxKernel
    OBVIOUS
  <2>3. runtime \in 0..MaxKernel /\ lastKernel \in 0..MaxKernel
    OBVIOUS
  <2>4. deps \subseteq Kernels
    OBVIOUS
  <2> QED BY <2>1, <2>2, <2>3, <2>4 DEF KernelOK
<1>3. ExecOK
  BY DEF ExecOK, None
<1>4. AdapterOK
  BY DEF AdapterOK
<1>5. HistoryOK
  <2>1. ons \in [Kernels -> Nat] /\ offs \in [Kernels -> Nat]
    OBVIOUS
  <2>2. signals \in [Execs -> {"none", "failed", "sent"}]
    OBVIOUS
  <2>3. sent \in Seq((0..MaxPrompt) \X (0..MaxPrompt))
    OBVIOUS
  <2>4. outcome \in [Execs -> Results]
    BY DEF Results
  <2>5. down \in BOOLEAN
    OBVIOUS
  <2> QED BY <2>1, <2>2, <2>3, <2>4, <2>5 DEF HistoryOK
<1> QED BY <1>1, <1>2, <1>3, <1>4, <1>5 DEF TypeOK
=============================================================================
