-------------------------- MODULE SupervisorProofs --------------------------
(***************************************************************************)
(* The invariants of the kernel lane, for every number of threads, kernels *)
(* and executions and whatever fails: LaneInvariant is inductive, and the  *)
(* safety properties of Supervisor follow from it.  A section per part of  *)
(* the invariant, with one step per action; then the theorems.             *)
(***************************************************************************)
EXTENDS SupervisorTyping

-----------------------------------------------------------------------------
(* Who holds the lane.                                                     *)

\* A thread is in a handler's section under the lane exactly if it holds the lane.
LEMMA KeepsLane ==
  ASSUME LaneInvariant, NEW t \in Threads,
         Request(t) \/ ServiceCall(t) \/ KernelCode(t) \/ ThreadStep(t)
  PROVE  LaneIsExclusive'
<1> USE ThreadAssumption DEF LaneInvariant, TypeOK, ThreadsOK, LaneIsExclusive, At, Goto,
        Go, Step, Take, Leave, Return, LanePcs, StartPcs, ExecPcs, ProbePcs, StopPcs,
        RestartPcs
<1>1. CASE StartAcquire(t)
  BY <1>1 DEF StartAcquire, StartWhen
<1>2. CASE StartClean(t)
  BY <1>2 DEF StartClean, StartCleanOr
<1>3. CASE StartPrepare(t)
  BY <1>3 DEF StartPrepare, Prepare, PrepareAs
<1>4. CASE StartSpawn(t)
  BY <1>4 DEF StartSpawn, Spawn
<1>5. CASE StartPublish(t)
  BY <1>5 DEF StartPublish, Publish
<1>6. CASE StartAnnounce(t)
  BY <1>6 DEF StartAnnounce, TellOn
<1>7. CASE ExecAcquire(t)
  BY <1>7 DEF ExecAcquire
<1>8. CASE ExecActivate(t)
  BY <1>8 DEF ExecActivate
<1>9. CASE ExecBegin(t)
  BY <1>9 DEF ExecBegin
<1>10. CASE ExecPrompt(t)
  BY <1>10 DEF ExecPrompt
<1>11. CASE ExecPublishPrompt(t)
  BY <1>11 DEF ExecPublishPrompt
<1>12. CASE ExecFencePrompt(t)
  BY <1>12 DEF ExecFencePrompt
<1>13. CASE ExecSendInput(t)
  BY <1>13 DEF ExecSendInput
<1>14. CASE ExecReturn(t)
  BY <1>14 DEF ExecReturn, AdapterReturns
<1>15. CASE ExecObserveDeath(t)
  BY <1>15 DEF ExecObserveDeath, AdapterReturns
<1>16. CASE ExecFinish(t)
  BY <1>16 DEF ExecFinish, Finish
<1>17. CASE ExecHandoff(t)
  BY <1>17 DEF ExecHandoff
<1>18. CASE ExecComplete(t)
  BY <1>18 DEF ExecComplete
<1>19. CASE ExecKill(t)
  BY <1>19 DEF ExecKill
<1>20. CASE ExecClean(t)
  BY <1>20 DEF ExecClean
<1>21. CASE ExecOff(t)
  BY <1>21 DEF ExecOff, SetOff
<1>22. CASE ExecAnnounce(t)
  BY <1>22 DEF ExecAnnounce, TellOff
<1>23. CASE IntRequest(t)
  BY <1>23 DEF IntRequest, IntRequestWhen
<1>24. CASE IntSend(t)
  BY <1>24 DEF IntSend, IntSignal
<1>25. CASE IntRaise(t)
  BY <1>25 DEF IntRaise
<1>26. CASE IntDied(t)
  BY <1>26 DEF IntDied
<1>27. CASE IntAnnounce(t)
  BY <1>27 DEF IntAnnounce
<1>28. CASE CompleteAcquire(t)
  BY <1>28 DEF CompleteAcquire
<1>29. CASE CompleteReply(t)
  BY <1>29 DEF CompleteReply
<1>30. CASE CompleteOff(t)
  BY <1>30 DEF CompleteOff, SetOff
<1>31. CASE CompleteAnnounce(t)
  BY <1>31 DEF CompleteAnnounce
<1>32. CASE PollAcquire(t)
  BY <1>32 DEF PollAcquire, PollWhen
<1>33. CASE PollOff(t)
  BY <1>33 DEF PollOff, SetOff
<1>34. CASE PollAnnounce(t)
  BY <1>34 DEF PollAnnounce, TellOff
<1>35. CASE PollKill(t)
  BY <1>35 DEF PollKill
<1>36. CASE PollClean(t)
  BY <1>36 DEF PollClean
<1>37. CASE StopRequest(t)
  BY <1>37 DEF StopRequest, Teardown, CancelExecution
<1>38. CASE RestartRequest(t)
  BY <1>38 DEF RestartRequest, Teardown, CancelExecution
<1>39. CASE CloseRequest(t)
  BY <1>39 DEF CloseRequest, Teardown, CancelExecution
<1>40. CASE TeardownTimeout(t)
  BY <1>40 DEF TeardownTimeout, Abandon
<1>41. CASE TeardownGiveUp(t)
  BY <1>41 DEF TeardownGiveUp, Abandon
<1>42. CASE StopAcquire(t)
  BY <1>42 DEF StopAcquire, TeardownAcquire
<1>43. CASE CloseAcquire(t)
  BY <1>43 DEF CloseAcquire
<1>44. CASE RestartAcquire(t)
  BY <1>44 DEF RestartAcquire, TeardownAcquire
<1>45. CASE StopClean(t)
  BY <1>45 DEF StopClean, StopExit, Abandon
<1>46. CASE StopKill(t)
  BY <1>46 DEF StopKill, StopExit
<1>47. CASE StopOff(t)
  BY <1>47 DEF StopOff, SetOff
<1>48. CASE StopAnnounce(t)
  BY <1>48 DEF StopAnnounce, StopExit
<1>49. CASE CloseFinal(t)
  BY <1>49 DEF CloseFinal
<1>50. CASE RestartClean(t)
  BY <1>50 DEF RestartClean, RestartCleanThen
<1>51. CASE RestartKill(t)
  BY <1>51 DEF RestartKill
<1>52. CASE RestartOff(t)
  BY <1>52 DEF RestartOff, SetOff
<1>53. CASE RestartAnnounceOff(t)
  BY <1>53 DEF RestartAnnounceOff, TellOff
<1>54. CASE RestartPrepare(t)
  BY <1>54 DEF RestartPrepare, Prepare, PrepareAs
<1>55. CASE RestartSpawn(t)
  BY <1>55 DEF RestartSpawn, Spawn
<1>56. CASE RestartPublish(t)
  BY <1>56 DEF RestartPublish, Publish
<1>57. CASE RestartAnnounce(t)
  BY <1>57 DEF RestartAnnounce, TellOn
<1>58. CASE IntSendFails(t)
  BY <1>58 DEF IntSendFails, IntSignal
<1>59. CASE IntClear(t)
  BY <1>59 DEF IntClear
<1>60. CASE IntDiscard(t)
  BY <1>60 DEF IntDiscard
<1>61. CASE CancelFails(t)
  BY <1>61 DEF CancelFails
<1> QED BY <1>1, <1>2, <1>3, <1>4, <1>5, <1>6, <1>7, <1>8, <1>9, <1>10, <1>11, <1>12, <1>13,
           <1>14, <1>15, <1>16, <1>17, <1>18, <1>19, <1>20, <1>21, <1>22, <1>23, <1>24,
           <1>25, <1>26, <1>27, <1>28, <1>29, <1>30, <1>31, <1>32, <1>33, <1>34, <1>35,
           <1>36, <1>37, <1>38, <1>39, <1>40, <1>41, <1>42, <1>43, <1>44, <1>45, <1>46,
           <1>47, <1>48, <1>49, <1>50, <1>51, <1>52, <1>53, <1>54, <1>55, <1>56, <1>57,
           <1>58, <1>59, <1>60, <1>61
        DEF Request, ServiceCall, KernelCode, ThreadStep, StartStep, ExecStep, InterruptStep,
            ProbeStep, TeardownStep, StopStep, RestartStep

-----------------------------------------------------------------------------
(* The kernel of the lane holder.                                          *)

\* Nobody but the lane holder publishes a kernel, and a kernel off stays off.
LEMMA KeepsKernel ==
  ASSUME LaneInvariant, NEW t \in Threads,
         Request(t) \/ ServiceCall(t) \/ KernelCode(t) \/ ThreadStep(t)
  PROVE  KernelInvariant'
<1> USE ThreadAssumption, BoundAssumption DEF LaneInvariant, TypeOK, ThreadsOK,
        LaneIsExclusive, At, Goto, Go, Step, Take, Leave, Return, locals, LanePcs, StartPcs,
        ExecPcs, ProbePcs, StopPcs, RestartPcs, KernelInvariant, HoldsCurrent, HandleOfOn,
        QuietIsOff, FreshIsNew, KernelIsOld, CurrentPcs, QuietPcs, NewPcs, kernelVars,
        KernelOK, TurnOff, TurnOffAndTell
<1>1. CASE StartAcquire(t)
  BY <1>1 DEF StartAcquire, StartWhen
<1>2. CASE StartClean(t)
  BY <1>2 DEF StartClean, StartCleanOr
<1>3. CASE StartPrepare(t)
  BY <1>3 DEF StartPrepare, Prepare, PrepareAs
<1>4. CASE StartSpawn(t)
  BY <1>4 DEF StartSpawn, Spawn
<1>5. CASE StartPublish(t)
  BY <1>5 DEF StartPublish, Publish
<1>6. CASE StartAnnounce(t)
  BY <1>6 DEF StartAnnounce, TellOn
<1>7. CASE ExecAcquire(t)
  BY <1>7 DEF ExecAcquire, Live
<1>8. CASE ExecActivate(t)
  BY <1>8 DEF ExecActivate
<1>9. CASE ExecBegin(t)
  BY <1>9 DEF ExecBegin
<1>10. CASE ExecPrompt(t)
  BY <1>10 DEF ExecPrompt
<1>11. CASE ExecPublishPrompt(t)
  BY <1>11 DEF ExecPublishPrompt
<1>12. CASE ExecFencePrompt(t)
  <2>1. HoldsCurrent'
    BY <1>12 DEF ExecFencePrompt
  <2>2. HandleOfOn'
    BY <1>12 DEF ExecFencePrompt
  <2>3. QuietIsOff'
    BY <1>12 DEF ExecFencePrompt
  <2>4. FreshIsNew'
    BY <1>12 DEF ExecFencePrompt
  <2>5. KernelIsOld'
    BY <1>12 DEF ExecFencePrompt
  <2> QED BY <2>1, <2>2, <2>3, <2>4, <2>5
<1>13. CASE ExecSendInput(t)
  BY <1>13 DEF ExecSendInput
<1>14. CASE ExecReturn(t)
  BY <1>14 DEF ExecReturn, AdapterReturns
<1>15. CASE ExecObserveDeath(t)
  BY <1>15 DEF ExecObserveDeath, AdapterReturns
<1>16. CASE ExecFinish(t)
  BY <1>16 DEF ExecFinish, Finish
<1>17. CASE ExecHandoff(t)
  BY <1>17 DEF ExecHandoff
<1>18. CASE ExecComplete(t)
  BY <1>18 DEF ExecComplete
<1>19. CASE ExecKill(t)
  BY <1>19 DEF ExecKill
<1>20. CASE ExecClean(t)
  BY <1>20 DEF ExecClean
<1>21. CASE ExecOff(t)
  BY <1>21 DEF ExecOff, SetOff
<1>22. CASE ExecAnnounce(t)
  BY <1>22 DEF ExecAnnounce, TellOff
<1>23. CASE IntRequest(t)
  BY <1>23 DEF IntRequest, IntRequestWhen
<1>24. CASE IntSend(t)
  BY <1>24 DEF IntSend, IntSignal
<1>25. CASE IntRaise(t)
  BY <1>25 DEF IntRaise
<1>26. CASE IntDied(t)
  <2>1. HoldsCurrent'
    BY <1>26 DEF IntDied
  <2>2. HandleOfOn'
    BY <1>26 DEF IntDied
  <2>3. QuietIsOff'
    BY <1>26 DEF IntDied
  <2>4. FreshIsNew'
    BY <1>26 DEF IntDied
  <2>5. KernelIsOld'
    BY <1>26 DEF IntDied
  <2> QED BY <2>1, <2>2, <2>3, <2>4, <2>5
<1>27. CASE IntAnnounce(t)
  BY <1>27 DEF IntAnnounce
<1>28. CASE CompleteAcquire(t)
  BY <1>28 DEF CompleteAcquire, Live
<1>29. CASE CompleteReply(t)
  BY <1>29 DEF CompleteReply
<1>30. CASE CompleteOff(t)
  BY <1>30 DEF CompleteOff, SetOff
<1>31. CASE CompleteAnnounce(t)
  BY <1>31 DEF CompleteAnnounce
<1>32. CASE PollAcquire(t)
  BY <1>32 DEF PollAcquire, PollWhen, Live
<1>33. CASE PollOff(t)
  BY <1>33 DEF PollOff, SetOff
<1>34. CASE PollAnnounce(t)
  BY <1>34 DEF PollAnnounce, TellOff
<1>35. CASE PollKill(t)
  BY <1>35 DEF PollKill
<1>36. CASE PollClean(t)
  BY <1>36 DEF PollClean
<1>37. CASE StopRequest(t)
  <2>1. HoldsCurrent'
    BY <1>37 DEF StopRequest, Teardown, CancelExecution
  <2>2. HandleOfOn'
    BY <1>37 DEF StopRequest, Teardown, CancelExecution
  <2>3. QuietIsOff'
    BY <1>37 DEF StopRequest, Teardown, CancelExecution
  <2>4. FreshIsNew'
    BY <1>37 DEF StopRequest, Teardown, CancelExecution
  <2>5. KernelIsOld'
    BY <1>37 DEF StopRequest, Teardown, CancelExecution
  <2> QED BY <2>1, <2>2, <2>3, <2>4, <2>5
<1>38. CASE RestartRequest(t)
  <2>1. HoldsCurrent'
    BY <1>38 DEF RestartRequest, Teardown, CancelExecution
  <2>2. HandleOfOn'
    BY <1>38 DEF RestartRequest, Teardown, CancelExecution
  <2>3. QuietIsOff'
    BY <1>38 DEF RestartRequest, Teardown, CancelExecution
  <2>4. FreshIsNew'
    BY <1>38 DEF RestartRequest, Teardown, CancelExecution
  <2>5. KernelIsOld'
    BY <1>38 DEF RestartRequest, Teardown, CancelExecution
  <2> QED BY <2>1, <2>2, <2>3, <2>4, <2>5
<1>39. CASE CloseRequest(t)
  <2>1. HoldsCurrent'
    BY <1>39 DEF CloseRequest, Teardown, CancelExecution
  <2>2. HandleOfOn'
    BY <1>39 DEF CloseRequest, Teardown, CancelExecution
  <2>3. QuietIsOff'
    BY <1>39 DEF CloseRequest, Teardown, CancelExecution
  <2>4. FreshIsNew'
    BY <1>39 DEF CloseRequest, Teardown, CancelExecution
  <2>5. KernelIsOld'
    BY <1>39 DEF CloseRequest, Teardown, CancelExecution
  <2> QED BY <2>1, <2>2, <2>3, <2>4, <2>5
<1>40. CASE TeardownTimeout(t)
  BY <1>40 DEF TeardownTimeout, Abandon
<1>41. CASE TeardownGiveUp(t)
  BY <1>41 DEF TeardownGiveUp, Abandon
<1>42. CASE StopAcquire(t)
  BY <1>42 DEF StopAcquire, TeardownAcquire
<1>43. CASE CloseAcquire(t)
  BY <1>43 DEF CloseAcquire
<1>44. CASE RestartAcquire(t)
  <2>1. HoldsCurrent'
    BY <1>44 DEF RestartAcquire, TeardownAcquire, ExecutionInvariant, RestartHasRuntime
  <2>2. HandleOfOn'
    BY <1>44 DEF RestartAcquire, TeardownAcquire, ExecutionInvariant, RestartHasRuntime
  <2>3. QuietIsOff'
    BY <1>44 DEF RestartAcquire, TeardownAcquire, ExecutionInvariant, RestartHasRuntime
  <2>4. FreshIsNew'
    BY <1>44 DEF RestartAcquire, TeardownAcquire, ExecutionInvariant, RestartHasRuntime
  <2>5. KernelIsOld'
    BY <1>44 DEF RestartAcquire, TeardownAcquire, ExecutionInvariant, RestartHasRuntime
  <2> QED BY <2>1, <2>2, <2>3, <2>4, <2>5
<1>45. CASE StopClean(t)
  BY <1>45 DEF StopClean, StopExit, Abandon
<1>46. CASE StopKill(t)
  BY <1>46 DEF StopKill, StopExit
<1>47. CASE StopOff(t)
  BY <1>47 DEF StopOff, SetOff
<1>48. CASE StopAnnounce(t)
  BY <1>48 DEF StopAnnounce, StopExit
<1>49. CASE CloseFinal(t)
  BY <1>49 DEF CloseFinal
<1>50. CASE RestartClean(t)
  BY <1>50 DEF RestartClean, RestartCleanThen
<1>51. CASE RestartKill(t)
  BY <1>51 DEF RestartKill
<1>52. CASE RestartOff(t)
  BY <1>52 DEF RestartOff, SetOff
<1>53. CASE RestartAnnounceOff(t)
  BY <1>53 DEF RestartAnnounceOff, TellOff
<1>54. CASE RestartPrepare(t)
  BY <1>54 DEF RestartPrepare, Prepare, PrepareAs
<1>55. CASE RestartSpawn(t)
  BY <1>55 DEF RestartSpawn, Spawn
<1>56. CASE RestartPublish(t)
  BY <1>56 DEF RestartPublish, Publish
<1>57. CASE RestartAnnounce(t)
  BY <1>57 DEF RestartAnnounce, TellOn
<1>58. CASE IntSendFails(t)
  BY <1>58 DEF IntSendFails, IntSignal
<1>59. CASE IntClear(t)
  BY <1>59 DEF IntClear
<1>60. CASE IntDiscard(t)
  BY <1>60 DEF IntDiscard
<1>61. CASE CancelFails(t)
  <2>1. HoldsCurrent'
    BY <1>61 DEF CancelFails
  <2>2. HandleOfOn'
    BY <1>61 DEF CancelFails
  <2>3. QuietIsOff'
    BY <1>61 DEF CancelFails
  <2>4. FreshIsNew'
    BY <1>61 DEF CancelFails
  <2>5. KernelIsOld'
    BY <1>61 DEF CancelFails
  <2> QED BY <2>1, <2>2, <2>3, <2>4, <2>5
<1> QED BY <1>1, <1>2, <1>3, <1>4, <1>5, <1>6, <1>7, <1>8, <1>9, <1>10, <1>11, <1>12, <1>13,
           <1>14, <1>15, <1>16, <1>17, <1>18, <1>19, <1>20, <1>21, <1>22, <1>23, <1>24,
           <1>25, <1>26, <1>27, <1>28, <1>29, <1>30, <1>31, <1>32, <1>33, <1>34, <1>35,
           <1>36, <1>37, <1>38, <1>39, <1>40, <1>41, <1>42, <1>43, <1>44, <1>45, <1>46,
           <1>47, <1>48, <1>49, <1>50, <1>51, <1>52, <1>53, <1>54, <1>55, <1>56, <1>57,
           <1>58, <1>59, <1>60, <1>61
        DEF Request, ServiceCall, KernelCode, ThreadStep, StartStep, ExecStep, InterruptStep,
            ProbeStep, TeardownStep, StopStep, RestartStep

-----------------------------------------------------------------------------
(* What a runtime leaves behind.                                           *)

\* The dependents of a runtime are gone before it is forgotten.
LEMMA KeepsDependents ==
  ASSUME LaneInvariant, NEW t \in Threads,
         Request(t) \/ ServiceCall(t) \/ KernelCode(t) \/ ThreadStep(t)
  PROVE  DependentsInvariant'
<1> USE ThreadAssumption DEF LaneInvariant, TypeOK, ThreadsOK, LaneIsExclusive, At, Goto,
        Go, Step, Take, Leave, Return, locals, LanePcs, StartPcs, ExecPcs, ProbePcs,
        StopPcs, RestartPcs, DependentsInvariant, RuntimesDoNotOverlap, EmptyIsEmpty,
        EmptyPcs, kernelVars, KernelOK, Cleaned, CleanFails, TurnOff, TurnOffAndTell
<1>1. CASE StartAcquire(t)
  BY <1>1 DEF StartAcquire, StartWhen
<1>2. CASE StartClean(t)
  BY <1>2 DEF StartClean, StartCleanOr
<1>3. CASE StartPrepare(t)
  BY <1>3 DEF StartPrepare, Prepare, PrepareAs
<1>4. CASE StartSpawn(t)
  BY <1>4 DEF StartSpawn, Spawn
<1>5. CASE StartPublish(t)
  BY <1>5 DEF StartPublish, Publish, KernelInvariant, FreshIsNew, NewPcs
<1>6. CASE StartAnnounce(t)
  BY <1>6 DEF StartAnnounce, TellOn
<1>7. CASE ExecAcquire(t)
  BY <1>7 DEF ExecAcquire
<1>8. CASE ExecActivate(t)
  BY <1>8 DEF ExecActivate
<1>9. CASE ExecBegin(t)
  BY <1>9 DEF ExecBegin
<1>10. CASE ExecPrompt(t)
  BY <1>10 DEF ExecPrompt
<1>11. CASE ExecPublishPrompt(t)
  BY <1>11 DEF ExecPublishPrompt
<1>12. CASE ExecFencePrompt(t)
  BY <1>12 DEF ExecFencePrompt
<1>13. CASE ExecSendInput(t)
  BY <1>13 DEF ExecSendInput
<1>14. CASE ExecReturn(t)
  BY <1>14 DEF ExecReturn, AdapterReturns
<1>15. CASE ExecObserveDeath(t)
  BY <1>15 DEF ExecObserveDeath, AdapterReturns
<1>16. CASE ExecFinish(t)
  BY <1>16 DEF ExecFinish, Finish
<1>17. CASE ExecHandoff(t)
  BY <1>17 DEF ExecHandoff
<1>18. CASE ExecComplete(t)
  BY <1>18 DEF ExecComplete
<1>19. CASE ExecKill(t)
  BY <1>19 DEF ExecKill
<1>20. CASE ExecClean(t)
  BY <1>20 DEF ExecClean
<1>21. CASE ExecOff(t)
  BY <1>21 DEF ExecOff, SetOff
<1>22. CASE ExecAnnounce(t)
  BY <1>22 DEF ExecAnnounce, TellOff
<1>23. CASE IntRequest(t)
  BY <1>23 DEF IntRequest, IntRequestWhen
<1>24. CASE IntSend(t)
  BY <1>24 DEF IntSend, IntSignal
<1>25. CASE IntRaise(t)
  BY <1>25 DEF IntRaise
<1>26. CASE IntDied(t)
  BY <1>26 DEF IntDied
<1>27. CASE IntAnnounce(t)
  BY <1>27 DEF IntAnnounce
<1>28. CASE CompleteAcquire(t)
  BY <1>28 DEF CompleteAcquire
<1>29. CASE CompleteReply(t)
  BY <1>29 DEF CompleteReply
<1>30. CASE CompleteOff(t)
  BY <1>30 DEF CompleteOff, SetOff
<1>31. CASE CompleteAnnounce(t)
  BY <1>31 DEF CompleteAnnounce
<1>32. CASE PollAcquire(t)
  BY <1>32 DEF PollAcquire, PollWhen
<1>33. CASE PollOff(t)
  BY <1>33 DEF PollOff, SetOff
<1>34. CASE PollAnnounce(t)
  BY <1>34 DEF PollAnnounce, TellOff
<1>35. CASE PollKill(t)
  BY <1>35 DEF PollKill
<1>36. CASE PollClean(t)
  BY <1>36 DEF PollClean
<1>37. CASE StopRequest(t)
  BY <1>37 DEF StopRequest, Teardown, CancelExecution
<1>38. CASE RestartRequest(t)
  BY <1>38 DEF RestartRequest, Teardown, CancelExecution
<1>39. CASE CloseRequest(t)
  BY <1>39 DEF CloseRequest, Teardown, CancelExecution
<1>40. CASE TeardownTimeout(t)
  BY <1>40 DEF TeardownTimeout, Abandon
<1>41. CASE TeardownGiveUp(t)
  BY <1>41 DEF TeardownGiveUp, Abandon
<1>42. CASE StopAcquire(t)
  BY <1>42 DEF StopAcquire, TeardownAcquire
<1>43. CASE CloseAcquire(t)
  BY <1>43 DEF CloseAcquire
<1>44. CASE RestartAcquire(t)
  BY <1>44 DEF RestartAcquire, TeardownAcquire
<1>45. CASE StopClean(t)
  BY <1>45 DEF StopClean, StopExit, Abandon
<1>46. CASE StopKill(t)
  BY <1>46 DEF StopKill, StopExit
<1>47. CASE StopOff(t)
  BY <1>47 DEF StopOff, SetOff
<1>48. CASE StopAnnounce(t)
  BY <1>48 DEF StopAnnounce, StopExit
<1>49. CASE CloseFinal(t)
  BY <1>49 DEF CloseFinal
<1>50. CASE RestartClean(t)
  BY <1>50 DEF RestartClean, RestartCleanThen
<1>51. CASE RestartKill(t)
  BY <1>51 DEF RestartKill
<1>52. CASE RestartOff(t)
  BY <1>52 DEF RestartOff, SetOff
<1>53. CASE RestartAnnounceOff(t)
  BY <1>53 DEF RestartAnnounceOff, TellOff
<1>54. CASE RestartPrepare(t)
  BY <1>54 DEF RestartPrepare, Prepare, PrepareAs
<1>55. CASE RestartSpawn(t)
  BY <1>55 DEF RestartSpawn, Spawn
<1>56. CASE RestartPublish(t)
  BY <1>56 DEF RestartPublish, Publish, KernelInvariant, FreshIsNew, NewPcs
<1>57. CASE RestartAnnounce(t)
  BY <1>57 DEF RestartAnnounce, TellOn
<1>58. CASE IntSendFails(t)
  BY <1>58 DEF IntSendFails, IntSignal
<1>59. CASE IntClear(t)
  BY <1>59 DEF IntClear
<1>60. CASE IntDiscard(t)
  BY <1>60 DEF IntDiscard
<1>61. CASE CancelFails(t)
  BY <1>61 DEF CancelFails
<1> QED BY <1>1, <1>2, <1>3, <1>4, <1>5, <1>6, <1>7, <1>8, <1>9, <1>10, <1>11, <1>12, <1>13,
           <1>14, <1>15, <1>16, <1>17, <1>18, <1>19, <1>20, <1>21, <1>22, <1>23, <1>24,
           <1>25, <1>26, <1>27, <1>28, <1>29, <1>30, <1>31, <1>32, <1>33, <1>34, <1>35,
           <1>36, <1>37, <1>38, <1>39, <1>40, <1>41, <1>42, <1>43, <1>44, <1>45, <1>46,
           <1>47, <1>48, <1>49, <1>50, <1>51, <1>52, <1>53, <1>54, <1>55, <1>56, <1>57,
           <1>58, <1>59, <1>60, <1>61
        DEF Request, ServiceCall, KernelCode, ThreadStep, StartStep, ExecStep, InterruptStep,
            ProbeStep, TeardownStep, StopStep, RestartStep

-----------------------------------------------------------------------------
(* The active execution.                                                   *)

\* An execution is active exactly while its thread runs it.
LEMMA KeepsExecution ==
  ASSUME LaneInvariant, NEW t \in Threads,
         Request(t) \/ ServiceCall(t) \/ KernelCode(t) \/ ThreadStep(t)
  PROVE  ExecutionInvariant'
<1> USE ThreadAssumption, BoundAssumption DEF LaneInvariant, TypeOK, ThreadsOK,
        LaneIsExclusive, At, Goto, Go, Step, Take, Leave, Return, locals, LanePcs, StartPcs,
        ExecPcs, ProbePcs, StopPcs, RestartPcs, ExecutionInvariant, RunnerHasExecution,
        InterrupterHasExecution, RestartHasRuntime, RunnerIsActive, ActiveIsRun,
        CancelledIsActive, PromptIsOfActive, StateFree, ExecutingPcs, execVars, ExecOK
<1>1. CASE StartAcquire(t)
  BY <1>1 DEF StartAcquire, StartWhen
<1>2. CASE StartClean(t)
  BY <1>2 DEF StartClean, StartCleanOr
<1>3. CASE StartPrepare(t)
  BY <1>3 DEF StartPrepare, Prepare, PrepareAs, KernelOK
<1>4. CASE StartSpawn(t)
  BY <1>4 DEF StartSpawn, Spawn
<1>5. CASE StartPublish(t)
  BY <1>5 DEF StartPublish, Publish
<1>6. CASE StartAnnounce(t)
  BY <1>6 DEF StartAnnounce, TellOn
<1>7. CASE ExecAcquire(t)
  BY <1>7 DEF ExecAcquire, Live, KernelInvariant, HandleOfOn
<1>8. CASE ExecActivate(t)
  BY <1>8 DEF ExecActivate
<1>9. CASE ExecBegin(t)
  BY <1>9 DEF ExecBegin
<1>10. CASE ExecPrompt(t)
  BY <1>10 DEF ExecPrompt
<1>11. CASE ExecPublishPrompt(t)
  <2>1. RunnerHasExecution'
    BY <1>11 DEF ExecPublishPrompt, None
  <2>2. InterrupterHasExecution'
    BY <1>11 DEF ExecPublishPrompt, None
  <2>3. RestartHasRuntime'
    BY <1>11 DEF ExecPublishPrompt, None
  <2>4. RunnerIsActive'
    BY <1>11 DEF ExecPublishPrompt, None
  <2>5. ActiveIsRun'
    BY <1>11 DEF ExecPublishPrompt, None
  <2>6. PromptIsOfActive'
    BY <1>11 DEF ExecPublishPrompt, None
  <2>7. CancelledIsActive'
    BY <1>11 DEF ExecPublishPrompt, None
  <2> QED BY <2>1, <2>2, <2>3, <2>4, <2>5, <2>6, <2>7
<1>12. CASE ExecFencePrompt(t)
  BY <1>12 DEF ExecFencePrompt
<1>13. CASE ExecSendInput(t)
  BY <1>13 DEF ExecSendInput
<1>14. CASE ExecReturn(t)
  BY <1>14 DEF ExecReturn, AdapterReturns
<1>15. CASE ExecObserveDeath(t)
  BY <1>15 DEF ExecObserveDeath, AdapterReturns
<1>16. CASE ExecFinish(t)
  BY <1>16 DEF ExecFinish, Finish
<1>17. CASE ExecHandoff(t)
  BY <1>17 DEF ExecHandoff
<1>18. CASE ExecComplete(t)
  BY <1>18 DEF ExecComplete
<1>19. CASE ExecKill(t)
  BY <1>19 DEF ExecKill
<1>20. CASE ExecClean(t)
  BY <1>20 DEF ExecClean
<1>21. CASE ExecOff(t)
  BY <1>21 DEF ExecOff, SetOff
<1>22. CASE ExecAnnounce(t)
  BY <1>22 DEF ExecAnnounce, TellOff
<1>23. CASE IntRequest(t)
  <2>1. RunnerHasExecution'
    BY <1>23, ActiveReferences DEF IntRequest, IntRequestWhen, Kernels, Execs
  <2>2. InterrupterHasExecution'
    BY <1>23, ActiveReferences DEF IntRequest, IntRequestWhen, Kernels, Execs
  <2>3. RestartHasRuntime'
    BY <1>23, ActiveReferences DEF IntRequest, IntRequestWhen, Kernels, Execs
  <2>4. RunnerIsActive'
    BY <1>23, ActiveReferences DEF IntRequest, IntRequestWhen, Kernels, Execs
  <2>5. ActiveIsRun'
    BY <1>23, ActiveReferences DEF IntRequest, IntRequestWhen, Kernels, Execs
  <2>6. PromptIsOfActive'
    BY <1>23, ActiveReferences DEF IntRequest, IntRequestWhen, Kernels, Execs
  <2>7. CancelledIsActive'
    BY <1>23, ActiveReferences DEF IntRequest, IntRequestWhen, Kernels, Execs
  <2> QED BY <2>1, <2>2, <2>3, <2>4, <2>5, <2>6, <2>7
<1>24. CASE IntSend(t)
  BY <1>24 DEF IntSend, IntSignal
<1>25. CASE IntRaise(t)
  BY <1>25 DEF IntRaise
<1>26. CASE IntDied(t)
  BY <1>26 DEF IntDied
<1>27. CASE IntAnnounce(t)
  BY <1>27 DEF IntAnnounce
<1>28. CASE CompleteAcquire(t)
  BY <1>28 DEF CompleteAcquire, Live, KernelInvariant, HandleOfOn
<1>29. CASE CompleteReply(t)
  BY <1>29 DEF CompleteReply
<1>30. CASE CompleteOff(t)
  BY <1>30 DEF CompleteOff, SetOff
<1>31. CASE CompleteAnnounce(t)
  BY <1>31 DEF CompleteAnnounce
<1>32. CASE PollAcquire(t)
  BY <1>32 DEF PollAcquire, PollWhen, Live, KernelInvariant, HandleOfOn
<1>33. CASE PollOff(t)
  BY <1>33 DEF PollOff, SetOff
<1>34. CASE PollAnnounce(t)
  BY <1>34 DEF PollAnnounce, TellOff
<1>35. CASE PollKill(t)
  BY <1>35 DEF PollKill
<1>36. CASE PollClean(t)
  BY <1>36 DEF PollClean
<1>37. CASE StopRequest(t)
  <2>1. RunnerHasExecution'
    BY <1>37 DEF StopRequest, Teardown, CancelExecution
  <2>2. InterrupterHasExecution'
    BY <1>37 DEF StopRequest, Teardown, CancelExecution
  <2>3. RestartHasRuntime'
    BY <1>37 DEF StopRequest, Teardown, CancelExecution
  <2>4. RunnerIsActive'
    BY <1>37 DEF StopRequest, Teardown, CancelExecution
  <2>5. ActiveIsRun'
    BY <1>37 DEF StopRequest, Teardown, CancelExecution
  <2>6. PromptIsOfActive'
    BY <1>37 DEF StopRequest, Teardown, CancelExecution
  <2>7. CancelledIsActive'
    BY <1>37 DEF StopRequest, Teardown, CancelExecution, RunsOn, ActiveReferences
  <2> QED BY <2>1, <2>2, <2>3, <2>4, <2>5, <2>6, <2>7
<1>38. CASE RestartRequest(t)
  <2>1. RunnerHasExecution'
    BY <1>38 DEF RestartRequest, Teardown, CancelExecution
  <2>2. InterrupterHasExecution'
    BY <1>38 DEF RestartRequest, Teardown, CancelExecution
  <2>3. RestartHasRuntime'
    BY <1>38 DEF RestartRequest, Teardown, CancelExecution
  <2>4. RunnerIsActive'
    BY <1>38 DEF RestartRequest, Teardown, CancelExecution
  <2>5. ActiveIsRun'
    BY <1>38 DEF RestartRequest, Teardown, CancelExecution
  <2>6. PromptIsOfActive'
    BY <1>38 DEF RestartRequest, Teardown, CancelExecution
  <2>7. CancelledIsActive'
    BY <1>38 DEF RestartRequest, Teardown, CancelExecution, RunsOn, ActiveReferences
  <2> QED BY <2>1, <2>2, <2>3, <2>4, <2>5, <2>6, <2>7
<1>39. CASE CloseRequest(t)
  <2>1. RunnerHasExecution'
    BY <1>39 DEF CloseRequest, Teardown, CancelExecution
  <2>2. InterrupterHasExecution'
    BY <1>39 DEF CloseRequest, Teardown, CancelExecution
  <2>3. RestartHasRuntime'
    BY <1>39 DEF CloseRequest, Teardown, CancelExecution
  <2>4. RunnerIsActive'
    BY <1>39 DEF CloseRequest, Teardown, CancelExecution
  <2>5. ActiveIsRun'
    BY <1>39 DEF CloseRequest, Teardown, CancelExecution
  <2>6. PromptIsOfActive'
    BY <1>39 DEF CloseRequest, Teardown, CancelExecution
  <2>7. CancelledIsActive'
    BY <1>39 DEF CloseRequest, Teardown, CancelExecution, RunsOn, ActiveReferences
  <2> QED BY <2>1, <2>2, <2>3, <2>4, <2>5, <2>6, <2>7
<1>40. CASE TeardownTimeout(t)
  BY <1>40 DEF TeardownTimeout, Abandon
<1>41. CASE TeardownGiveUp(t)
  BY <1>41 DEF TeardownGiveUp, Abandon
<1>42. CASE StopAcquire(t)
  BY <1>42 DEF StopAcquire, TeardownAcquire
<1>43. CASE CloseAcquire(t)
  BY <1>43 DEF CloseAcquire
<1>44. CASE RestartAcquire(t)
  BY <1>44 DEF RestartAcquire, TeardownAcquire
<1>45. CASE StopClean(t)
  BY <1>45 DEF StopClean, StopExit, Abandon
<1>46. CASE StopKill(t)
  BY <1>46 DEF StopKill, StopExit
<1>47. CASE StopOff(t)
  BY <1>47 DEF StopOff, SetOff
<1>48. CASE StopAnnounce(t)
  BY <1>48 DEF StopAnnounce, StopExit
<1>49. CASE CloseFinal(t)
  BY <1>49 DEF CloseFinal
<1>50. CASE RestartClean(t)
  BY <1>50 DEF RestartClean, RestartCleanThen
<1>51. CASE RestartKill(t)
  BY <1>51 DEF RestartKill
<1>52. CASE RestartOff(t)
  BY <1>52 DEF RestartOff, SetOff
<1>53. CASE RestartAnnounceOff(t)
  BY <1>53 DEF RestartAnnounceOff, TellOff
<1>54. CASE RestartPrepare(t)
  BY <1>54 DEF RestartPrepare, Prepare, PrepareAs, KernelOK
<1>55. CASE RestartSpawn(t)
  BY <1>55 DEF RestartSpawn, Spawn
<1>56. CASE RestartPublish(t)
  BY <1>56 DEF RestartPublish, Publish
<1>57. CASE RestartAnnounce(t)
  BY <1>57 DEF RestartAnnounce, TellOn
<1>58. CASE IntSendFails(t)
  BY <1>58 DEF IntSendFails, IntSignal
<1>59. CASE IntClear(t)
  BY <1>59 DEF IntClear
<1>60. CASE IntDiscard(t)
  BY <1>60 DEF IntDiscard
<1>61. CASE CancelFails(t)
  BY <1>61 DEF CancelFails
<1> QED BY <1>1, <1>2, <1>3, <1>4, <1>5, <1>6, <1>7, <1>8, <1>9, <1>10, <1>11, <1>12, <1>13,
           <1>14, <1>15, <1>16, <1>17, <1>18, <1>19, <1>20, <1>21, <1>22, <1>23, <1>24,
           <1>25, <1>26, <1>27, <1>28, <1>29, <1>30, <1>31, <1>32, <1>33, <1>34, <1>35,
           <1>36, <1>37, <1>38, <1>39, <1>40, <1>41, <1>42, <1>43, <1>44, <1>45, <1>46,
           <1>47, <1>48, <1>49, <1>50, <1>51, <1>52, <1>53, <1>54, <1>55, <1>56, <1>57,
           <1>58, <1>59, <1>60, <1>61
        DEF Request, ServiceCall, KernelCode, ThreadStep, StartStep, ExecStep, InterruptStep,
            ProbeStep, TeardownStep, StopStep, RestartStep

-----------------------------------------------------------------------------
(* The invariant is inductive.                                             *)

\* Steps outside the handlers touch none of what the invariant relates.
LEMMA OtherSteps ==
  ASSUME LaneInvariant,
         SubmitInput \/ (\E k \in Kernels : Die(k)) \/ UNCHANGED vars
  PROVE  LaneIsExclusive' /\ KernelInvariant' /\ DependentsInvariant' /\ ExecutionInvariant'
<1> DEFINE Same == UNCHANGED <<lane, pc, locals, kernelVars, active>>
<1>1. Same /\ (pendingInput' = None \/ UNCHANGED pendingInput)
  BY DEF SubmitInput, Submit, Die, vars, execVars
<1>2. LaneIsExclusive'
  BY <1>1 DEF LaneInvariant, LaneIsExclusive
<1>3. KernelInvariant'
  BY <1>1 DEF LaneInvariant, KernelInvariant, HoldsCurrent, HandleOfOn, QuietIsOff, FreshIsNew,
              KernelIsOld, kernelVars, locals
<1>4. DependentsInvariant'
  BY <1>1 DEF LaneInvariant, DependentsInvariant, RuntimesDoNotOverlap, EmptyIsEmpty, kernelVars
<1>5. ExecutionInvariant'
  BY <1>1 DEF LaneInvariant, ExecutionInvariant, RunnerHasExecution, InterrupterHasExecution,
              RestartHasRuntime, RunnerIsActive, ActiveIsRun, CancelledIsActive, PromptIsOfActive,
              At, locals
<1> QED BY <1>2, <1>3, <1>4, <1>5

LEMMA StepInvariant ==
  LaneInvariant /\ [Next]_vars => LaneInvariant'
<1> SUFFICES ASSUME LaneInvariant, [Next]_vars
             PROVE  LaneInvariant'
  OBVIOUS
<1>1. TypeOK'
  BY StepTyping
<1>2. ASSUME NEW t \in Threads, Request(t) \/ ServiceCall(t) \/ KernelCode(t) \/ ThreadStep(t)
      PROVE  LaneInvariant'
  BY <1>1, <1>2, KeepsLane, KeepsKernel, KeepsDependents, KeepsExecution DEF LaneInvariant
<1>3. ASSUME SubmitInput \/ (\E k \in Kernels : Die(k)) \/ UNCHANGED vars
      PROVE  LaneInvariant'
  BY <1>1, <1>3, OtherSteps DEF LaneInvariant
<1> QED BY <1>2, <1>3 DEF Next, Exit

LEMMA InitInvariant ==
  Init => LaneInvariant
<1> SUFFICES ASSUME Init PROVE LaneInvariant
  OBVIOUS
<1>1. \A t \in Threads : pc[t] = "idle" /\ op[t] = "none"
  BY DEF Init
<1>2. LaneIsExclusive
  BY <1>1, ThreadAssumption
     DEF Init, LaneIsExclusive, LanePcs, StartPcs, ExecPcs, ProbePcs, StopPcs, RestartPcs
<1>3. KernelInvariant
  BY <1>1 DEF Init, KernelInvariant, HoldsCurrent, HandleOfOn, QuietIsOff, FreshIsNew, KernelIsOld,
              CurrentPcs, QuietPcs, NewPcs, ExecPcs, ProbePcs
<1>4. DependentsInvariant
  BY DEF Init, DependentsInvariant, RuntimesDoNotOverlap, EmptyIsEmpty
<1>5. ExecutionInvariant
  BY <1>1 DEF Init, ExecutionInvariant, RunnerHasExecution, InterrupterHasExecution,
              RestartHasRuntime, RunnerIsActive, ActiveIsRun, CancelledIsActive, PromptIsOfActive,
              At, ExecPcs,
              ExecutingPcs
<1> QED BY <1>2, <1>3, <1>4, <1>5, InitTyping DEF LaneInvariant

\* LaneInvariant holds between any two steps of supervisor.py's handlers,
\* whatever signals, shutdowns and cleanups fail.
THEOREM LaneInvariantHolds == Spec => []LaneInvariant
BY InitInvariant, StepInvariant, PTL DEF Spec

-----------------------------------------------------------------------------
(* The theorems.                                                           *)

\* Every field of Supervisor and ManagedJupyterKernel keeps its type.
THEOREM TypeCorrect == Spec => []TypeOK
<1>1. LaneInvariant => TypeOK
  BY DEF LaneInvariant
<1> QED BY <1>1, LaneInvariantHolds, PTL

\* _operation_lock: two threads are never both inside handlers that need it.
THEOREM LaneExclusive == Spec => []LaneIsExclusive
<1>1. LaneInvariant => LaneIsExclusive
  BY DEF LaneInvariant
<1> QED BY <1>1, LaneInvariantHolds, PTL

\* _active_kernel_execution and _pending_input are those of the thread that
\* runs the execution, and are cleared by it however it ends.
THEOREM ActiveExecution == Spec => []ActiveHasRunner
<1>1. LaneInvariant => ActiveHasRunner
  <2> SUFFICES ASSUME LaneInvariant PROVE ActiveHasRunner
    OBVIOUS
  <2> USE DEF LaneInvariant, ExecutionInvariant
  <2>1. ASSUME NEW t \in Threads, pc[t] \in ExecutingPcs
        PROVE  t = lane /\ lane # NoThread
    <3>1. pc[t] \in LanePcs
      BY <2>1 DEF ExecutingPcs, LanePcs, ExecPcs
    <3> QED BY <3>1, ThreadAssumption DEF LaneIsExclusive
  <2>2. active # None => lane # NoThread /\ pc[lane] \in ExecutingPcs
    BY <2>1 DEF ActiveIsRun
  <2>3. ASSUME lane # NoThread, pc[lane] \in ExecutingPcs
        PROVE  active # None /\ active = <<exe[lane], kern[lane]>>
    <3>1. lane \in Threads
      BY <2>3 DEF TypeOK, ThreadsOK
    <3>2. exe[lane] # 0
      BY <2>3, <3>1 DEF RunnerHasExecution, ExecutingPcs, ExecPcs
    <3> QED BY <2>3, <3>1, <3>2 DEF RunnerIsActive, None
  <2> QED BY <2>2, <2>3 DEF ActiveHasRunner, PromptIsOfActive
<1> QED BY <1>1, LaneInvariantHolds, PTL

\* Clients, workers and surfaces of two runtimes never coexist, even when a
\* cleanup fails and a later start tries it again.
THEOREM OneRuntime == Spec => []RuntimesDoNotOverlap
<1>1. LaneInvariant => RuntimesDoNotOverlap
  BY DEF LaneInvariant, DependentsInvariant
<1> QED BY <1>1, LaneInvariantHolds, PTL

-----------------------------------------------------------------------------
(* Kernel generations: Supervisor implements KernelGenerations.            *)

\* The one step that turns a kernel on finds it off and brings a new identity.
LEMMA PublishTurnsOn ==
  ASSUME LaneInvariant, NEW t \in Threads, StartPublish(t) \/ RestartPublish(t)
  PROVE  Generations!TurnOn
<1>1. pc[t] \in NewPcs /\ kernel' = kern[t] /\ on' = TRUE
  BY DEF StartPublish, RestartPublish, Publish, Step, At, NewPcs
<1>2. ~on /\ kern[t] = lastKernel /\ kernel < lastKernel
  BY <1>1 DEF LaneInvariant, KernelInvariant, QuietIsOff, FreshIsNew
<1>3. lastKernel \in Nat
  BY BoundAssumption DEF LaneInvariant, TypeOK, KernelOK
<1> QED BY <1>1, <1>2, <1>3 DEF Generations!TurnOn

\* Turning one off keeps its identity, and turns nothing on.
LEMMA TurnOffTurnsOff ==
  ASSUME TypeOK, NEW k, TurnOff(k) \/ TurnOffAndTell(k)
  PROVE  Generations!TurnOff \/ UNCHANGED <<kernel, on>>
  BY DEF TypeOK, KernelOK, TurnOff, TurnOffAndTell, kernelVars, Generations!TurnOff

\* Most steps leave both alone.
LEMMA MostStepsStutter ==
  ASSUME NEW t \in Threads,
         \/ StartAcquire(t) \/ StartClean(t) \/ StartPrepare(t) \/ StartSpawn(t) \/ StartAnnounce(t)
         \/ ExecAcquire(t) \/ ExecActivate(t) \/ ExecBegin(t) \/ ExecPrompt(t)
         \/ ExecPublishPrompt(t) \/ ExecSendInput(t) \/ ExecReturn(t) \/ ExecObserveDeath(t)
         \/ ExecFinish(t) \/ ExecHandoff(t) \/ ExecComplete(t) \/ ExecKill(t) \/ ExecClean(t)
         \/ ExecAnnounce(t)
         \/ IntRequest(t) \/ IntSend(t) \/ IntSendFails(t) \/ IntClear(t) \/ IntRaise(t)
         \/ IntDiscard(t) \/ IntAnnounce(t)
         \/ CompleteAcquire(t) \/ CompleteReply(t) \/ CompleteAnnounce(t)
         \/ PollAcquire(t) \/ PollAnnounce(t) \/ PollKill(t) \/ PollClean(t)
         \/ TeardownTimeout(t) \/ TeardownGiveUp(t) \/ StopAcquire(t) \/ CloseAcquire(t)
         \/ RestartAcquire(t)
         \/ StopClean(t) \/ StopKill(t) \/ StopAnnounce(t) \/ CloseFinal(t)
         \/ RestartClean(t) \/ RestartKill(t) \/ RestartAnnounceOff(t) \/ RestartPrepare(t)
         \/ RestartSpawn(t) \/ RestartAnnounce(t)
  PROVE  UNCHANGED <<kernel, on>>
<1> USE DEF kernelVars
<1>1. CASE StartAcquire(t) \/ StartClean(t) \/ StartPrepare(t) \/ StartSpawn(t) \/ StartAnnounce(t)
  BY <1>1 DEF StartAcquire, StartWhen, StartClean, StartCleanOr, StartPrepare, Prepare, PrepareAs,
              StartSpawn, Spawn, StartAnnounce, TellOn
<1>2. CASE \/ ExecAcquire(t) \/ ExecActivate(t) \/ ExecBegin(t) \/ ExecPrompt(t)
           \/ ExecPublishPrompt(t) \/ ExecSendInput(t) \/ ExecReturn(t) \/ ExecObserveDeath(t)
           \/ ExecFinish(t) \/ ExecHandoff(t) \/ ExecComplete(t) \/ ExecKill(t) \/ ExecClean(t)
           \/ ExecAnnounce(t)
  BY <1>2 DEF ExecAcquire, ExecActivate, ExecBegin, ExecPrompt, ExecPublishPrompt, ExecSendInput,
              ExecReturn, ExecObserveDeath, AdapterReturns, ExecFinish, Finish, ExecHandoff,
              ExecComplete, ExecKill, ExecClean, ExecAnnounce, TellOff
<1>3. CASE \/ IntRequest(t) \/ IntSend(t) \/ IntSendFails(t) \/ IntClear(t) \/ IntRaise(t)
           \/ IntDiscard(t) \/ IntAnnounce(t)
  BY <1>3 DEF IntRequest, IntRequestWhen, IntSend, IntSendFails, IntSignal, IntClear, IntRaise,
              IntDiscard, IntAnnounce
<1>4. CASE \/ CompleteAcquire(t) \/ CompleteReply(t) \/ CompleteAnnounce(t)
           \/ PollAcquire(t) \/ PollAnnounce(t) \/ PollKill(t) \/ PollClean(t)
  BY <1>4 DEF CompleteAcquire, CompleteReply, CompleteAnnounce, PollAcquire, PollWhen, PollAnnounce,
              TellOff, PollKill, PollClean
<1>5. CASE \/ TeardownTimeout(t) \/ TeardownGiveUp(t) \/ StopAcquire(t) \/ CloseAcquire(t)
           \/ RestartAcquire(t)
  BY <1>5 DEF TeardownTimeout, TeardownGiveUp, StopAcquire, CloseAcquire,
              RestartAcquire, TeardownAcquire
<1>6. CASE StopClean(t) \/ StopKill(t) \/ StopAnnounce(t) \/ CloseFinal(t)
  BY <1>6 DEF StopClean, StopKill, StopAnnounce, CloseFinal
<1>7. CASE \/ RestartClean(t) \/ RestartKill(t) \/ RestartAnnounceOff(t) \/ RestartPrepare(t)
           \/ RestartSpawn(t) \/ RestartAnnounce(t)
  BY <1>7 DEF RestartClean, RestartCleanThen, RestartKill, RestartAnnounceOff, TellOff,
              RestartPrepare, Prepare, PrepareAs, RestartSpawn, Spawn, RestartAnnounce, TellOn
<1> QED BY <1>1, <1>2, <1>3, <1>4, <1>5, <1>6, <1>7

LEMMA StepGenerations ==
  ASSUME LaneInvariant, [Next]_vars
  PROVE  [Generations!Next]_<<kernel, on>>
<1> DEFINE Goal == Generations!TurnOn \/ Generations!TurnOff \/ UNCHANGED <<kernel, on>>
<1>1. ASSUME NEW t \in Threads, Request(t) \/ ServiceCall(t) \/ KernelCode(t) \/ ThreadStep(t)
      PROVE  Goal
  <2> USE DEF LaneInvariant
  <2>1. CASE StartPublish(t) \/ RestartPublish(t)
    BY <2>1, PublishTurnsOn
  <2>2. CASE ExecOff(t) \/ CompleteOff(t) \/ PollOff(t) \/ StopOff(t) \/ RestartOff(t)
    <3>1. TurnOff(kern[t])
      BY <2>2 DEF ExecOff, CompleteOff, PollOff, StopOff, RestartOff, SetOff
    <3> QED BY <3>1, TurnOffTurnsOff
  <2>3. CASE IntDied(t)
    <3>1. TurnOff(kern[t]) \/ UNCHANGED <<kernel, on>>
      BY <2>3 DEF IntDied, kernelVars
    <3> QED BY <3>1, TurnOffTurnsOff
  <2>4. CASE ExecFencePrompt(t)
    <3>1. TurnOffAndTell(kern[t]) \/ UNCHANGED <<kernel, on>>
      BY <2>4 DEF ExecFencePrompt, kernelVars
    <3> QED BY <3>1, TurnOffTurnsOff
  <2>5. CASE StopRequest(t)
    <3>1. PICK k \in 1..kernel : Teardown(t, "stop", k, FALSE)
      BY <2>5 DEF StopRequest
    <3>2. TurnOffAndTell(k) \/ UNCHANGED <<kernel, on>>
      BY <3>1 DEF Teardown, CancelExecution, kernelVars
    <3> QED BY <3>2, TurnOffTurnsOff
  <2>6. CASE RestartRequest(t)
    <3>1. TurnOffAndTell(runtime) \/ UNCHANGED <<kernel, on>>
      BY <2>6 DEF RestartRequest, Teardown, CancelExecution, kernelVars
    <3> QED BY <3>1, TurnOffTurnsOff
  <2>7. CASE CloseRequest(t)
    <3>1. TurnOffAndTell(kernel) \/ UNCHANGED <<kernel, on>>
      BY <2>7 DEF CloseRequest, Teardown, CancelExecution, kernelVars
    <3> QED BY <3>1, TurnOffTurnsOff
  <2>8. CASE CancelFails(t)
    <3>1. TurnOffAndTell(kern[t])
      BY <2>8 DEF CancelFails
    <3> QED BY <3>1, TurnOffTurnsOff
  <2> HIDE DEF Goal
  <2> QED BY <1>1, <2>1, <2>2, <2>3, <2>4, <2>5, <2>6, <2>7, <2>8, MostStepsStutter
          DEF Goal, Request, ServiceCall, KernelCode, ThreadStep, StartStep, ExecStep,
              InterruptStep, ProbeStep, TeardownStep, StopStep, RestartStep
<1>2. ASSUME SubmitInput \/ (\E k \in Kernels : Die(k)) \/ UNCHANGED vars
      PROVE  Goal
  BY <1>2 DEF SubmitInput, Submit, Die, vars, kernelVars
<1> QED BY <1>1, <1>2 DEF Next, Exit, Generations!Next

\* What health() shows of kernels implements KernelGenerations: at most one is
\* on, it never comes back once off, and its identity is never used again.
THEOREM KernelRefinement == Spec => ImplementsKernelGenerations
<1>1. Init => Generations!Init
  BY DEF Init, Generations!Init
<1>2. LaneInvariant /\ [Next]_vars => [Generations!Next]_<<kernel, on>>
  BY StepGenerations
<1> QED BY <1>1, <1>2, LaneInvariantHolds, PTL DEF Spec, ImplementsKernelGenerations, Generations!Spec
=============================================================================
