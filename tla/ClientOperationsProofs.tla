------------------------ MODULE ClientOperationsProofs ------------------------
(***************************************************************************)
(* Theorems about ClientOperations, for any number of clients and kernels, *)
(* whatever the clients' plugins can do, and with stops and surfaces that  *)
(* may fail.                                                               *)
(***************************************************************************)
EXTENDS ClientOperations, TLAPS

-----------------------------------------------------------------------------
(* The inductive invariant.                                                *)

\* The worker of c has been stopped, or is out of the table for good.
Gone(c) == process[c] = "dead" \/ (process[c] = "alive" /\ BeingStopped(c))

\* The steps of _close_client and of a stop.
ClosingPlaces == {"pop", "popped", "stopping", "wait", "surfaces", "retire"}

\* A client was made of a worker that was started, and it is never unmade.
Made == \A c \in Client : client[c] # "none" \/ c \in workers => process[c] # "none"

\* Whatever is done, is done to clients that were made.
DoneToClients ==
  \A t \in Threads \ {Lifecycle, Execute} : at[t] # "idle" => client[t[2]] # "none"
LifecycleToClients ==
  /\ at[Lifecycle] \in ClosingPlaces => target \in Client /\ client[target] # "none"
  /\ at[Lifecycle] = "stopping item" => target \in Client

Known == Made /\ DoneToClients /\ LifecycleToClients

\* Nobody retires a client without having seen to its worker.
RetireIsLast ==
  \A t \in Threads, c \in Client : at[t] = "retire" /\ Subject(t) = c => Gone(c)

\* The death of a surface sees to it before it takes the lane.
SurfaceStopsFirst == \A c \in Client : at[Surface(c)] = "wait" => Gone(c)

RetiredIsGone == \A c \in Client : client[c] = "retired" => Gone(c)

StoppedIsDead == \A c \in Client : c \in stopped => process[c] = "dead"

\* An operation is recorded, and a close has its fence.
OperationRecorded ==
  \A c \in Client :
    at[Op(c)] \in {"admitted", "called", "working", "cut off", "failed"} => c \in recorded
CloseFences == \A c \in Client : at[Close(c)] # "idle" => c \in fenced

\* A close that waits has cut the operation off, or has met none and lets none begin.
CloseCutsFirst == \A c \in Client : at[Close(c)] = "wait" => c \notin recorded \/ Gone(c)

\* Who holds the lane.
TeardownPlaces == {"teardown", "items", "stopping item", "cleaned", "activating"}
LaneHeld ==
  /\ \A t \in Threads \ {Execute} : at[t] \in {"surfaces", "retire"} => lane = t
  /\ at[Execute] \in {"executing", "handoff"} => lane = Execute
  /\ at[Lifecycle] \in TeardownPlaces => lane = Lifecycle

\* A worker that runs and that nobody stops.
Loose(c) == c \in workers /\ process[c] = "alive"
NoneLoose == \A c \in Client : ~Loose(c)

\* Workers go on only beside a kernel that is on, or was turned off beside every
\* teardown, and whose runtime is the manager's; a teardown has each of those that are
\* left before it.
TeardownReachesAll ==
  /\ on => runtime # 0
  /\ at[Execute] = "executing" => runtime # 0 /\ (on \/ untorn)
  /\ at[Lifecycle] \notin TeardownPlaces =>
       ((on \/ untorn) /\ active # 0 /\ runtime # 0) \/ NoneLoose
  /\ at[Lifecycle] = "teardown" =>
       (active # 0 /\ runtime # 0 /\ (on \/ ~Strict \/ untorn)) \/ NoneLoose
  /\ at[Lifecycle] = "items" => \A c \in Client : Loose(c) => c \in todo
  /\ at[Lifecycle] = "stopping item" => \A c \in Client : Loose(c) => c \in todo \/ c = target
  /\ at[Lifecycle] \in {"cleaned", "activating"} => NoneLoose
  /\ at[Lifecycle] = "activating" => kernel # 0

\* They are workers of the kernel there is.
LooseAtHome == \A c \in Client : Loose(c) => home[c] = kernel

ClientInvariant ==
  /\ TypeOK /\ NoWorkerEscapes /\ Known
  /\ RetireIsLast /\ SurfaceStopsFirst /\ RetiredIsGone /\ StoppedIsDead
  /\ OperationRecorded /\ CloseFences /\ CloseCutsFirst
  /\ LaneHeld /\ TeardownReachesAll /\ LooseAtHome

-----------------------------------------------------------------------------
(* Types, in the parts that are proved one at a time.                      *)

Places == {"idle", "admitted", "called", "working", "cut off", "failed", "sent",
           "pop", "popped", "stopping", "wait", "surfaces", "retire",
           "executing", "handoff", "each", "teardown", "items", "stopping item",
           "cleaned", "activating"}

KernelTypes ==
  /\ kernel \in 0 .. MaxKernel /\ on \in BOOLEAN
  /\ runtime \in 0 .. MaxKernel /\ active \in 0 .. MaxKernel /\ untorn \in BOOLEAN
ClientTypes ==
  /\ client \in [Client -> {"none", "live", "retired"}] /\ home \in [Client -> 0 .. MaxKernel]
  /\ process \in [Client -> {"none", "alive", "dead"}]
  /\ surface \in [Client -> {"none", "open"}]
SetTypes ==
  /\ fenced \subseteq Client /\ recorded \subseteq Client /\ workers \subseteq Client
  /\ todo \subseteq Client /\ stopped \subseteq Client /\ failed \in BOOLEAN
  /\ handoff \in Client \cup {NoClient} /\ target \in Client \cup {NoClient}
  /\ request \in {"start", "stop", "restart", "poll"}
ThreadTypes == lane \in Threads \cup {Nobody} /\ at \in [Threads -> Places]

\* They are TypeOK.
LEMMA TypeParts == TypeOK <=> KernelTypes /\ ClientTypes /\ SetTypes /\ ThreadTypes
  BY DEF TypeOK, KernelTypes, ClientTypes, SetTypes, ThreadTypes, Places

\* The threads of a client, and those of the service.
LEMMA ThreadsThere ==
  /\ \A c \in Client : Op(c) \in Threads /\ Close(c) \in Threads /\ Interrupt(c) \in Threads
                       /\ Surface(c) \in Threads
  /\ Lifecycle \in Threads /\ Execute \in Threads
  BY DEF Op, Close, Interrupt, Surface, Lifecycle, Execute, Threads

\* They are not the same.
LEMMA Apart ==
  /\ \A c \in Client :
       /\ Op(c) \notin {Execute, Lifecycle} /\ Close(c) \notin {Execute, Lifecycle}
       /\ Interrupt(c) \notin {Execute, Lifecycle} /\ Surface(c) \notin {Execute, Lifecycle}
  /\ Lifecycle # Execute
  BY DEF Op, Close, Interrupt, Surface, Lifecycle, Execute

\* Nobody is none of them.
LEMMA NobodyIsNoThread == Nobody \notin Threads
  BY DEF Nobody, Threads, Lifecycle, Execute

\* Whom they are for.
LEMMA OfClients ==
  /\ \A t \in Threads \ {Execute, Lifecycle} : t[2] \in Client
  /\ \A c \in Client :
       Op(c)[2] = c /\ Close(c)[2] = c /\ Interrupt(c)[2] = c /\ Surface(c)[2] = c
  BY DEF Op, Close, Interrupt, Surface, Lifecycle, Execute, Threads

\* No two of them are.
LEMMA Distinct ==
  \A c, d \in Client :
    /\ Op(c) # Close(d) /\ Op(c) # Interrupt(d) /\ Op(c) # Surface(d)
    /\ Close(c) # Interrupt(d) /\ Close(c) # Surface(d) /\ Interrupt(c) # Surface(d)
    /\ Op(c) = Op(d) => c = d
    /\ Close(c) = Close(d) => c = d
    /\ Surface(c) = Surface(d) => c = d
  BY DEF Op, Close, Interrupt, Surface

\* Threads are told apart by what they do and for whom.
LEMMA Names ==
  /\ \A c \in Client :
       /\ Op(c)[1] = "op" /\ Close(c)[1] = "close" /\ Interrupt(c)[1] = "interrupt"
       /\ Surface(c)[1] = "surface"
  /\ Lifecycle[1] = "lifecycle" /\ Execute[1] = "execute"
  /\ \A t \in Threads \ {Execute, Lifecycle} :
       t \in {Op(t[2]), Close(t[2]), Interrupt(t[2]), Surface(t[2])}
  BY DEF Op, Close, Interrupt, Surface, Lifecycle, Execute, Nobody, Threads

\* A service that has just started.
LEMMA InitInvariant == Init => ClientInvariant
<1> SUFFICES ASSUME Init PROVE ClientInvariant
  OBVIOUS
<1> USE DEF Init
<1>1. TypeOK
  <2>0. 0 \in 0 .. MaxKernel
    BY BoundsAssumption
  <2>1. KernelTypes /\ ClientTypes /\ SetTypes
    BY <2>0 DEF KernelTypes, ClientTypes, SetTypes
  <2>2. ThreadTypes
    BY DEF ThreadTypes, Places
  <2> QED BY <2>1, <2>2, TypeParts
<1>2. NoWorkerEscapes /\ Known
  BY ThreadsThere DEF NoWorkerEscapes, Known, Made, DoneToClients, LifecycleToClients, ClosingPlaces
<1>3. RetireIsLast /\ SurfaceStopsFirst /\ RetiredIsGone /\ StoppedIsDead
  BY ThreadsThere DEF RetireIsLast, SurfaceStopsFirst, RetiredIsGone, StoppedIsDead
<1>5. OperationRecorded /\ CloseFences /\ CloseCutsFirst
  BY ThreadsThere DEF OperationRecorded, CloseFences, CloseCutsFirst
<1>4. LaneHeld /\ TeardownReachesAll /\ LooseAtHome
  BY ThreadsThere DEF LaneHeld, TeardownPlaces, TeardownReachesAll, NoneLoose, Loose, LooseAtHome
<1> QED BY <1>1, <1>2, <1>3, <1>4, <1>5 DEF ClientInvariant

-----------------------------------------------------------------------------
(* Each part of the invariant is preserved.                                *)

\* Whoever stops or closes, stops or closes a client.
LEMMA SubjectIsClient ==
  ASSUME Known, NEW t \in Threads \ {Execute}, at[t] \in ClosingPlaces
  PROVE  Subject(t) \in Client /\ client[Subject(t)] # "none"
<1>1. CASE t = Lifecycle
  BY <1>1 DEF Subject, Known, LifecycleToClients
<1>2. CASE t # Lifecycle
  <2>1. t[2] \in Client /\ at[t] # "idle"
    BY <1>2, OfClients DEF ClosingPlaces
  <2> QED BY <1>2, <2>1 DEF Subject, Known, DoneToClients
<1> QED BY <1>1, <1>2

\* The kernel, and the runtimes.
LEMMA KernelTypesStep ==
  KernelTypes /\ [Next]_vars => KernelTypes'
<1> SUFFICES ASSUME KernelTypes, [Next]_vars PROVE KernelTypes'
  OBVIOUS
<1> USE BoundsAssumption DEF KernelTypes, kernelVars, clientVars, workerVars,
        lifecycleVars
<1>1. ASSUME StopEnters PROVE KernelTypes'
  BY <1>1 DEF StopEnters, Ends, Rests, EnterTeardown, Goes
<1>2. ASSUME PollFindsDeath \/ ExecFindsDeath PROVE KernelTypes'
  BY <1>2 DEF PollFindsDeath, ExecFindsDeath, EnterTeardown, Goes
<1>3. ASSUME TeardownEnds PROVE KernelTypes'
  <2>1. UNCHANGED <<kernel, on, runtime>> /\ untorn' = FALSE /\ active' \in {0, active}
    BY <1>3 DEF TeardownEnds
  <2>2. active' \in 0 .. MaxKernel
    BY <2>1
  <2>3. kernel' \in 0 .. MaxKernel /\ on' \in BOOLEAN /\ runtime' \in 0 .. MaxKernel
    BY <2>1
  <2>4. untorn' \in BOOLEAN
    BY <2>1
  <2> QED BY <2>2, <2>3, <2>4
<1>4. ASSUME KernelOff PROVE KernelTypes'
  BY <1>4 DEF KernelOff, Ends, Rests, Goes
<1>5. ASSUME KernelStarts PROVE KernelTypes'
  <2>1. kernel' = kernel \/ (kernel < MaxKernel /\ kernel' = kernel + 1)
    BY <1>5 DEF KernelStarts
  <2>2. /\ \/ on' = FALSE /\ runtime' = 0
           \/ UNCHANGED <<on, runtime>>
        /\ UNCHANGED <<active, untorn>>
    BY <1>5 DEF KernelStarts
  <2>3. kernel' \in 0 .. MaxKernel
    BY <2>1
  <2>4. runtime' \in 0 .. MaxKernel /\ active' \in 0 .. MaxKernel
    BY <2>2
  <2> QED BY <2>2, <2>3, <2>4
<1>6. ASSUME Activate PROVE KernelTypes'
  BY <1>6 DEF Activate, Ends, Rests, Goes
<1>7. ASSUME \/ \E t \in Threads \ {Execute} : StopPop(t)
             \/ \E t \in Threads \ {Execute} : StopAtOnce(t)
             \/ \E t \in Threads \ {Execute} : StopAsk(t)
     PROVE KernelTypes'
  BY <1>7 DEF StopPop, Subject, Goes, Stopped, StopAtOnce, Kill, StopAsk
<1>8. ASSUME \/ \E t \in Threads \ {Execute} : StopEnds(t)
             \/ \E t \in Threads \ {Execute} : TakeLane(t)
             \/ \E t \in Threads \ {Execute} : CloseSurfaces(t)
     PROVE KernelTypes'
  BY <1>8 DEF StopEnds, Subject, Goes, Stopped, StopRaises, Kill, TakeLane, TakeLaneFor,
      Returned, CloseSurfaces
<1>9. ASSUME \/ \E t \in Threads \ {Execute} : Retire(t)
             \/ \E c \in Client : OpAdmit(c)
             \/ \E c \in Client : OpLookUp(c)
     PROVE KernelTypes'
  BY <1>9 DEF Retire, Subject, Goes, RetireAll, Leave, Returned, OpAdmit, OpLookUp
<1>10. ASSUME \/ \E c \in Client : OpBegin(c)
              \/ \E c \in Client : OpAnswer(c)
              \/ \E c \in Client : OpBreak(c)
     PROVE KernelTypes'
  BY <1>10 DEF OpBegin, Goes, OpAnswer, OpBreak, OpBreakLeaving
<1>11. ASSUME \/ \E c \in Client : OpInvalid(c)
              \/ \E c \in Client : OpError(c)
              \/ \E c \in Client : CloseBegin(c)
     PROVE KernelTypes'
  BY <1>11 DEF OpInvalid, Goes, OpError, CloseBegin, CloseBeginAt
<1>12. ASSUME \/ \E c \in Client : InterruptBegin(c)
              \/ \E c \in Client : InterruptEnds(c)
              \/ \E c \in Client : SurfaceDies(c)
     PROVE KernelTypes'
  BY <1>12 DEF InterruptBegin, Goes, InterruptEnds, Kill, SurfaceDies
<1>13. ASSUME \/ ExecHandsOff \/ ExecClient
              \/ \E c \in Client : WorkerDies(c)
     PROVE KernelTypes'
  BY <1>13 DEF WorkerDies, Kill, ExecHandsOff, Goes, ExecClient, ExecLeave
<1>14. ASSUME StopBegin \/ CloseEach \/ StopGivesUp PROVE KernelTypes'
  BY <1>14 DEF StopBegin, Goes, CloseEach, StopGivesUp, Rests
<1>15. ASSUME StartEnters \/ TeardownSurfaces \/ TeardownItem PROVE KernelTypes'
  BY <1>15 DEF StartEnters, EnterTeardown, Goes, TeardownSurfaces, TeardownSurfacesOf,
      Ends, Rests, TeardownItem, Kill
<1>16. ASSUME TeardownStopped PROVE KernelTypes'
  BY <1>16 DEF TeardownStopped, Goes, Kill
<1>17. ASSUME UNCHANGED vars PROVE KernelTypes'
  BY <1>17 DEF vars
<1>18. ASSUME ExecBegin \/ ExecEnds \/ CompleteTurnsOff \/ InterruptTurnsOff
     PROVE KernelTypes'
  BY <1>18 DEF ExecBegin, ExecEnds, CompleteTurnsOff, InterruptTurnsOff, TurnsOff, Goes
<1> QED BY <1>1, <1>2, <1>3, <1>4, <1>5, <1>6, <1>7, <1>8, <1>9, <1>10, <1>11, <1>12,
      <1>13, <1>14, <1>15, <1>16, <1>17, <1>18 DEF Next, Closing, Operation, Teardown

\* Clients, their workers and their surfaces.
LEMMA ClientTypesStep ==
  KernelTypes /\ ClientTypes /\ [Next]_vars => ClientTypes'
<1> SUFFICES ASSUME KernelTypes, ClientTypes, [Next]_vars PROVE ClientTypes'
  OBVIOUS
<1> USE DEF KernelTypes, ClientTypes, kernelVars, clientVars, workerVars, lifecycleVars
<1>1. ASSUME NEW t \in Threads \ {Execute}, StopAtOnce(t) PROVE ClientTypes'
  BY <1>1 DEF StopAtOnce, Subject, Goes, Stopped, Kill
<1>2. ASSUME NEW t \in Threads \ {Execute}, StopEnds(t) PROVE ClientTypes'
  BY <1>2 DEF StopEnds, Subject, Goes, Stopped, StopRaises, Kill
<1>3. ASSUME NEW t \in Threads \ {Execute}, CloseSurfaces(t) PROVE ClientTypes'
  BY <1>3 DEF CloseSurfaces, Subject, Goes
<1>4. ASSUME NEW t \in Threads \ {Execute}, Retire(t) PROVE ClientTypes'
  BY <1>4 DEF Retire, Subject, Goes, RetireAll, Leave, Returned
<1>5. ASSUME NEW c \in Client, OpBreak(c) PROVE ClientTypes'
  BY <1>5 DEF OpBreak, OpBreakLeaving, Goes
<1>6. ASSUME NEW c \in Client, InterruptEnds(c) PROVE ClientTypes'
  BY <1>6 DEF InterruptEnds, Goes, Kill
<1>7. ASSUME NEW c \in Client, WorkerDies(c) PROVE ClientTypes'
  BY <1>7 DEF WorkerDies, Kill
<1>8. ASSUME ExecHandsOff PROVE ClientTypes'
  BY <1>8 DEF ExecHandsOff, Goes
<1>9. ASSUME ExecClient PROVE ClientTypes'
  BY <1>9 DEF ExecClient, ExecLeave, Goes, Kill
<1>10. ASSUME TeardownSurfaces PROVE ClientTypes'
  BY <1>10 DEF TeardownSurfaces, TeardownSurfacesOf, Ends, Rests, Goes
<1>11. ASSUME TeardownItem PROVE ClientTypes'
  BY <1>11 DEF TeardownItem, Goes, Kill
<1>12. ASSUME TeardownStopped PROVE ClientTypes'
  BY <1>12 DEF TeardownStopped, Goes, Kill
<1>13. ASSUME TeardownEnds PROVE ClientTypes'
  BY <1>13 DEF TeardownEnds, RetireAll, Ends, Rests, Goes
<1>14. ASSUME \/ \E t \in Threads \ {Execute} : StopPop(t)
              \/ \E t \in Threads \ {Execute} : StopAsk(t)
              \/ \E t \in Threads \ {Execute} : TakeLane(t)
     PROVE ClientTypes'
  BY <1>14 DEF StopPop, Subject, Goes, Stopped, StopAsk, TakeLane, TakeLaneFor, Returned
<1>15. ASSUME \/ \E c \in Client : OpAdmit(c)
              \/ \E c \in Client : OpLookUp(c)
              \/ \E c \in Client : OpBegin(c)
     PROVE ClientTypes'
  BY <1>15 DEF OpAdmit, Goes, OpLookUp, OpBegin
<1>16. ASSUME \/ \E c \in Client : OpAnswer(c)
              \/ \E c \in Client : OpInvalid(c)
              \/ \E c \in Client : OpError(c)
     PROVE ClientTypes'
  BY <1>16 DEF OpAnswer, Goes, OpInvalid, OpError
<1>17. ASSUME \/ \E c \in Client : CloseBegin(c)
              \/ \E c \in Client : InterruptBegin(c)
              \/ \E c \in Client : SurfaceDies(c)
     PROVE ClientTypes'
  BY <1>17 DEF CloseBegin, CloseBeginAt, Goes, InterruptBegin, SurfaceDies
<1>18. ASSUME StopBegin \/ CloseEach \/ StopGivesUp PROVE ClientTypes'
  BY <1>18 DEF StopBegin, Goes, CloseEach, StopGivesUp, Rests
<1>19. ASSUME StopEnters \/ StartEnters \/ PollFindsDeath \/ ExecFindsDeath PROVE ClientTypes'
  BY <1>19 DEF StopEnters, Ends, Rests, EnterTeardown, Goes, StartEnters, PollFindsDeath,
      ExecFindsDeath
<1>20. ASSUME KernelOff \/ KernelStarts \/ Activate PROVE ClientTypes'
  BY <1>20 DEF KernelOff, Ends, Rests, Goes, KernelStarts, Activate
<1>21. ASSUME UNCHANGED vars PROVE ClientTypes'
  BY <1>21 DEF vars
<1>22. ASSUME ExecBegin \/ ExecEnds \/ CompleteTurnsOff \/ InterruptTurnsOff
     PROVE ClientTypes'
  BY <1>22 DEF ExecBegin, ExecEnds, CompleteTurnsOff, InterruptTurnsOff, TurnsOff, Goes
<1> QED BY <1>1, <1>2, <1>3, <1>4, <1>5, <1>6, <1>7, <1>8, <1>9, <1>10, <1>11, <1>12,
      <1>13, <1>14, <1>15, <1>16, <1>17, <1>18, <1>19, <1>20, <1>21, <1>22 DEF Next,
      Closing, Operation, Teardown

\* The tables, and the locals of a lifecycle request.
LEMMA SetTypesStep ==
  SetTypes /\ Known /\ [Next]_vars => SetTypes'
<1> SUFFICES ASSUME SetTypes, Known, [Next]_vars PROVE SetTypes'
  OBVIOUS
<1> USE DEF SetTypes, OfRuntime, kernelVars, clientVars, workerVars, lifecycleVars
<1>1. ASSUME NEW t \in Threads \ {Execute}, StopPop(t) PROVE SetTypes'
  BY <1>1 DEF StopPop, Subject, Goes, Stopped
<1>2. ASSUME NEW t \in Threads \ {Execute}, StopAtOnce(t) PROVE SetTypes'
  BY <1>2 DEF StopAtOnce, Subject, Goes, Stopped, Kill
<1>3. ASSUME NEW t \in Threads \ {Execute}, StopAsk(t) PROVE SetTypes'
  BY <1>3 DEF StopAsk, Subject, Goes
<1>4. ASSUME NEW t \in Threads \ {Execute}, StopEnds(t) PROVE SetTypes'
  <2>1. Subject(t) \in Client
    BY <1>4, SubjectIsClient DEF StopEnds, ClosingPlaces
  <2> QED BY <1>4, <2>1 DEF StopEnds
<1>5. ASSUME NEW t \in Threads \ {Execute}, TakeLane(t) PROVE SetTypes'
  BY <1>5 DEF TakeLane, Subject, Goes, TakeLaneFor, Returned
<1>6. ASSUME NEW t \in Threads \ {Execute}, CloseSurfaces(t) PROVE SetTypes'
  BY <1>6 DEF CloseSurfaces, Subject, Goes
<1>7. ASSUME NEW t \in Threads \ {Execute}, Retire(t) PROVE SetTypes'
  BY <1>7 DEF Retire, Subject, Goes, RetireAll, Leave, Returned
<1>8. ASSUME NEW c \in Client, OpAdmit(c) PROVE SetTypes'
  BY <1>8 DEF OpAdmit, Goes
<1>9. ASSUME NEW c \in Client, OpLookUp(c) PROVE SetTypes'
  BY <1>9 DEF OpLookUp, Goes
<1>10. ASSUME NEW c \in Client, OpBegin(c) PROVE SetTypes'
  BY <1>10 DEF OpBegin, Goes
<1>11. ASSUME NEW c \in Client, OpAnswer(c) PROVE SetTypes'
  BY <1>11 DEF OpAnswer, Goes
<1>12. ASSUME NEW c \in Client, OpBreak(c) PROVE SetTypes'
  BY <1>12 DEF OpBreak, OpBreakLeaving, Goes
<1>13. ASSUME NEW c \in Client, OpInvalid(c) PROVE SetTypes'
  BY <1>13 DEF OpInvalid, Goes
<1>14. ASSUME NEW c \in Client, OpError(c) PROVE SetTypes'
  BY <1>14 DEF OpError, Goes
<1>15. ASSUME NEW c \in Client, CloseBegin(c) PROVE SetTypes'
  BY <1>15 DEF CloseBegin, CloseBeginAt, Goes
<1>16. ASSUME NEW c \in Client, InterruptBegin(c) PROVE SetTypes'
  BY <1>16 DEF InterruptBegin, Goes
<1>17. ASSUME NEW c \in Client, InterruptEnds(c) PROVE SetTypes'
  BY <1>17 DEF InterruptEnds, Goes, Kill
<1>18. ASSUME NEW c \in Client, SurfaceDies(c) PROVE SetTypes'
  BY <1>18 DEF SurfaceDies, Goes
<1>19. ASSUME NEW c \in Client, WorkerDies(c) PROVE SetTypes'
  BY <1>19 DEF WorkerDies, Kill
<1>20. ASSUME ExecHandsOff PROVE SetTypes'
  BY <1>20 DEF ExecHandsOff, Goes
<1>21. ASSUME ExecClient PROVE SetTypes'
  BY <1>21 DEF ExecClient, ExecLeave, Goes, Kill
<1>22. ASSUME StopBegin PROVE SetTypes'
  BY <1>22 DEF StopBegin, Goes
<1>23. ASSUME CloseEach PROVE SetTypes'
  BY <1>23 DEF CloseEach, Goes
<1>24. ASSUME StopGivesUp PROVE SetTypes'
  BY <1>24 DEF StopGivesUp, Rests, Goes
<1>25. ASSUME StopEnters PROVE SetTypes'
  BY <1>25 DEF StopEnters, Ends, Rests, EnterTeardown, Goes
<1>26. ASSUME StartEnters PROVE SetTypes'
  BY <1>26 DEF StartEnters, EnterTeardown, Goes
<1>27. ASSUME PollFindsDeath \/ ExecFindsDeath PROVE SetTypes'
  BY <1>27 DEF PollFindsDeath, ExecFindsDeath, EnterTeardown, Goes
<1>28. ASSUME TeardownSurfaces PROVE SetTypes'
  BY <1>28 DEF TeardownSurfaces, TeardownSurfacesOf, Ends, Rests, Goes
<1>29. ASSUME TeardownItem PROVE SetTypes'
  <2>1. PICK c \in todo :
          /\ todo' = todo \ {c} /\ target' = c
          /\ \/ workers' = workers \ {c} /\ stopped' = stopped \cup {c}
             \/ UNCHANGED <<workers, stopped>>
    BY <1>29 DEF TeardownItem
  <2> QED BY <1>29, <2>1 DEF TeardownItem
<1>30. ASSUME TeardownStopped PROVE SetTypes'
  <2>1. target \in Client
    BY <1>30 DEF TeardownStopped, Known, LifecycleToClients
  <2> QED BY <1>30, <2>1 DEF TeardownStopped
<1>31. ASSUME TeardownEnds PROVE SetTypes'
  BY <1>31 DEF TeardownEnds, RetireAll, Ends, Rests, Goes
<1>32. ASSUME KernelOff PROVE SetTypes'
  BY <1>32 DEF KernelOff, Ends, Rests, Goes
<1>33. ASSUME KernelStarts PROVE SetTypes'
  BY <1>33 DEF KernelStarts, Ends, Rests, Goes
<1>34. ASSUME Activate PROVE SetTypes'
  BY <1>34 DEF Activate, Ends, Rests, Goes
<1>35. ASSUME UNCHANGED vars PROVE SetTypes'
  BY <1>35 DEF vars
<1>36. ASSUME ExecBegin \/ ExecEnds \/ CompleteTurnsOff \/ InterruptTurnsOff
     PROVE SetTypes'
  BY <1>36 DEF ExecBegin, ExecEnds, CompleteTurnsOff, InterruptTurnsOff, TurnsOff, Goes
<1> QED BY <1>1, <1>2, <1>3, <1>4, <1>5, <1>6, <1>7, <1>8, <1>9, <1>10, <1>11, <1>12,
      <1>13, <1>14, <1>15, <1>16, <1>17, <1>18, <1>19, <1>20, <1>21, <1>22, <1>23,
      <1>24, <1>25, <1>26, <1>27, <1>28, <1>29, <1>30, <1>31, <1>32, <1>33, <1>34,
      <1>35, <1>36 DEF Next, Closing, Operation, Teardown

\* Threads and their places.
LEMMA ThreadTypesStep ==
  ThreadTypes /\ [Next]_vars => ThreadTypes'
<1> SUFFICES ASSUME ThreadTypes, [Next]_vars PROVE ThreadTypes'
  OBVIOUS
<1> USE ThreadsThere DEF ThreadTypes, Places, kernelVars, clientVars, workerVars,
        lifecycleVars
<1>1. ASSUME NEW t \in Threads \ {Execute}, StopPop(t) PROVE ThreadTypes'
  BY <1>1 DEF StopPop, Subject, Goes, Stopped
<1>2. ASSUME NEW t \in Threads \ {Execute}, StopAtOnce(t) PROVE ThreadTypes'
  BY <1>2 DEF StopAtOnce, Subject, Goes, Stopped, Kill
<1>3. ASSUME NEW t \in Threads \ {Execute}, StopAsk(t) PROVE ThreadTypes'
  BY <1>3 DEF StopAsk, Subject, Goes
<1>4. ASSUME NEW t \in Threads \ {Execute}, StopEnds(t) PROVE ThreadTypes'
  BY <1>4 DEF StopEnds, Subject, Goes, Stopped, StopRaises, Kill
<1>5. ASSUME NEW t \in Threads \ {Execute}, TakeLane(t) PROVE ThreadTypes'
  BY <1>5 DEF TakeLane, Subject, Goes, TakeLaneFor, Returned
<1>6. ASSUME NEW t \in Threads \ {Execute}, CloseSurfaces(t) PROVE ThreadTypes'
  BY <1>6 DEF CloseSurfaces, Subject, Goes
<1>7. ASSUME NEW t \in Threads \ {Execute}, Retire(t) PROVE ThreadTypes'
  BY <1>7 DEF Retire, Subject, Goes, RetireAll, Leave, Returned
<1>8. ASSUME NEW c \in Client, OpAdmit(c) PROVE ThreadTypes'
  BY <1>8 DEF OpAdmit, Goes
<1>9. ASSUME NEW c \in Client, OpLookUp(c) PROVE ThreadTypes'
  BY <1>9 DEF OpLookUp, Goes
<1>10. ASSUME NEW c \in Client, OpBegin(c) PROVE ThreadTypes'
  BY <1>10 DEF OpBegin, Goes
<1>11. ASSUME NEW c \in Client, OpAnswer(c) PROVE ThreadTypes'
  BY <1>11 DEF OpAnswer, Goes
<1>12. ASSUME NEW c \in Client, OpBreak(c) PROVE ThreadTypes'
  BY <1>12 DEF OpBreak, OpBreakLeaving, Goes
<1>13. ASSUME NEW c \in Client, OpInvalid(c) PROVE ThreadTypes'
  BY <1>13 DEF OpInvalid, Goes
<1>14. ASSUME NEW c \in Client, OpError(c) PROVE ThreadTypes'
  BY <1>14 DEF OpError, Goes
<1>15. ASSUME NEW c \in Client, CloseBegin(c) PROVE ThreadTypes'
  BY <1>15 DEF CloseBegin, CloseBeginAt, Goes
<1>16. ASSUME NEW c \in Client, InterruptBegin(c) PROVE ThreadTypes'
  BY <1>16 DEF InterruptBegin, Goes
<1>17. ASSUME NEW c \in Client, InterruptEnds(c) PROVE ThreadTypes'
  BY <1>17 DEF InterruptEnds, Goes, Kill
<1>18. ASSUME NEW c \in Client, SurfaceDies(c) PROVE ThreadTypes'
  BY <1>18 DEF SurfaceDies, Goes
<1>19. ASSUME NEW c \in Client, WorkerDies(c) PROVE ThreadTypes'
  BY <1>19 DEF WorkerDies, Kill
<1>20. ASSUME ExecHandsOff PROVE ThreadTypes'
  BY <1>20 DEF ExecHandsOff, Goes
<1>21. ASSUME ExecClient PROVE ThreadTypes'
  BY <1>21 DEF ExecClient, ExecLeave, Goes, Kill
<1>22. ASSUME StopBegin PROVE ThreadTypes'
  BY <1>22 DEF StopBegin, Goes
<1>23. ASSUME CloseEach PROVE ThreadTypes'
  BY <1>23 DEF CloseEach, Goes
<1>24. ASSUME StopGivesUp PROVE ThreadTypes'
  BY <1>24 DEF StopGivesUp, Rests, Goes
<1>25. ASSUME StopEnters PROVE ThreadTypes'
  BY <1>25 DEF StopEnters, Ends, Rests, EnterTeardown, Goes
<1>26. ASSUME StartEnters PROVE ThreadTypes'
  BY <1>26 DEF StartEnters, EnterTeardown, Goes
<1>27. ASSUME PollFindsDeath \/ ExecFindsDeath PROVE ThreadTypes'
  BY <1>27 DEF PollFindsDeath, ExecFindsDeath, EnterTeardown, Goes
<1>28. ASSUME TeardownSurfaces PROVE ThreadTypes'
  BY <1>28 DEF TeardownSurfaces, TeardownSurfacesOf, Ends, Rests, Goes
<1>29. ASSUME TeardownItem PROVE ThreadTypes'
  BY <1>29 DEF TeardownItem, Goes, Kill
<1>30. ASSUME TeardownStopped PROVE ThreadTypes'
  BY <1>30 DEF TeardownStopped, Goes, Kill
<1>31. ASSUME TeardownEnds PROVE ThreadTypes'
  BY <1>31 DEF TeardownEnds, RetireAll, Ends, Rests, Goes
<1>32. ASSUME KernelOff PROVE ThreadTypes'
  BY <1>32 DEF KernelOff, Ends, Rests, Goes
<1>33. ASSUME KernelStarts PROVE ThreadTypes'
  BY <1>33 DEF KernelStarts, Ends, Rests, Goes
<1>34. ASSUME Activate PROVE ThreadTypes'
  BY <1>34 DEF Activate, Ends, Rests, Goes
<1>35. ASSUME UNCHANGED vars PROVE ThreadTypes'
  BY <1>35 DEF vars
<1>36. ASSUME ExecBegin \/ ExecEnds \/ CompleteTurnsOff \/ InterruptTurnsOff
     PROVE ThreadTypes'
  BY <1>36 DEF ExecBegin, ExecEnds, CompleteTurnsOff, InterruptTurnsOff, TurnsOff, Goes
<1> QED BY <1>1, <1>2, <1>3, <1>4, <1>5, <1>6, <1>7, <1>8, <1>9, <1>10, <1>11, <1>12,
      <1>13, <1>14, <1>15, <1>16, <1>17, <1>18, <1>19, <1>20, <1>21, <1>22, <1>23,
      <1>24, <1>25, <1>26, <1>27, <1>28, <1>29, <1>30, <1>31, <1>32, <1>33, <1>34,
      <1>35, <1>36 DEF Next, Closing, Operation, Teardown

\* All of them together.
LEMMA TypesStep == TypeOK /\ Known /\ [Next]_vars => TypeOK'
<1> SUFFICES ASSUME TypeOK, Known, [Next]_vars PROVE TypeOK'
  OBVIOUS
<1>1. KernelTypes' /\ ClientTypes' /\ SetTypes' /\ ThreadTypes'
  BY TypeParts, KernelTypesStep, ClientTypesStep, SetTypesStep, ThreadTypesStep
<1> QED BY <1>1 DEF TypeOK, KernelTypes, ClientTypes, SetTypes, ThreadTypes, Places

-----------------------------------------------------------------------------
(* What becomes of workers.                                                *)

Hands == {"popped", "stopping"}

\* Whoever has taken a worker out of the table goes on with it, until it is dead.
HandsHold ==
  \A t \in Threads :
    at[t] \in Hands =>
      /\ t = Lifecycle => UNCHANGED target
      /\ at'[t] \in Hands \/ process'[Subject(t)] = "dead"

\* A worker dies, or it stays as it is and reachable, or it is started.
WorkersStay ==
  \A c \in Client :
    \/ process'[c] = "dead"
    \/ process'[c] = process[c] /\ process[c] # "alive"
    \/ process'[c] = process[c]
       /\ (c \in workers => c \in workers' \/ \E t \in Threads : Subject(t)' = c /\ at'[t] \in Hands)
    \/ process[c] = "none" /\ process'[c] = "alive" /\ c \in workers'
DeadStays == \A c \in Client : process[c] = "dead" => process'[c] = "dead"

\* No other step ends a stop.
LEMMA HandsStep ==
  ThreadTypes /\ ClientTypes /\ Known /\ [Next]_vars => HandsHold
<1> SUFFICES ASSUME ThreadTypes, ClientTypes, Known, [Next]_vars PROVE HandsHold
  OBVIOUS
<1> USE ThreadsThere DEF ThreadTypes, ClientTypes, HandsHold, Hands, kernelVars,
        clientVars, workerVars, lifecycleVars
<1>1. ASSUME NEW t \in Threads \ {Execute}, StopPop(t) PROVE HandsHold
  BY <1>1 DEF StopPop, Subject, Goes, Stopped
<1>2. ASSUME NEW t \in Threads \ {Execute}, StopAtOnce(t) PROVE HandsHold
  <2>1. Subject(t) \in Client
    BY <1>2, SubjectIsClient DEF StopAtOnce, ClosingPlaces
  <2>2. process'[Subject(t)] = "dead"
    BY <1>2, <2>1 DEF StopAtOnce, Kill
  <2>3. UNCHANGED target /\ \E p : at' = [at EXCEPT ![t] = p]
    BY <1>2 DEF StopAtOnce, Stopped, Goes
  <2> QED BY <2>2, <2>3
<1>3. ASSUME NEW t \in Threads \ {Execute}, StopAsk(t) PROVE HandsHold
  BY <1>3 DEF StopAsk, Subject, Goes
<1>4. ASSUME NEW t \in Threads \ {Execute}, StopEnds(t) PROVE HandsHold
  <2>1. Subject(t) \in Client
    BY <1>4, SubjectIsClient DEF StopEnds, ClosingPlaces
  <2>2. process'[Subject(t)] = "dead"
    BY <1>4, <2>1 DEF StopEnds, Kill
  <2>3. UNCHANGED target /\ \E p : at' = [at EXCEPT ![t] = p]
    BY <1>4 DEF StopEnds, Stopped, Goes, StopRaises
  <2> QED BY <2>2, <2>3
<1>5. ASSUME NEW t \in Threads \ {Execute}, TakeLane(t) PROVE HandsHold
  BY <1>5 DEF TakeLane, Subject, Goes, TakeLaneFor, Returned
<1>6. ASSUME NEW t \in Threads \ {Execute}, CloseSurfaces(t) PROVE HandsHold
  BY <1>6 DEF CloseSurfaces, Subject, Goes
<1>7. ASSUME NEW t \in Threads \ {Execute}, Retire(t) PROVE HandsHold
  BY <1>7 DEF Retire, Subject, Goes, RetireAll, Leave, Returned
<1>8. ASSUME NEW c \in Client, OpAdmit(c) PROVE HandsHold
  BY <1>8 DEF OpAdmit, Goes
<1>9. ASSUME NEW c \in Client, OpLookUp(c) PROVE HandsHold
  BY <1>9 DEF OpLookUp, Goes
<1>10. ASSUME NEW c \in Client, OpBegin(c) PROVE HandsHold
  BY <1>10 DEF OpBegin, Goes
<1>11. ASSUME NEW c \in Client, OpAnswer(c) PROVE HandsHold
  BY <1>11 DEF OpAnswer, Goes
<1>12. ASSUME NEW c \in Client, OpBreak(c) PROVE HandsHold
  BY <1>12 DEF OpBreak, OpBreakLeaving, Goes
<1>13. ASSUME NEW c \in Client, OpInvalid(c) PROVE HandsHold
  BY <1>13 DEF OpInvalid, Goes
<1>14. ASSUME NEW c \in Client, OpError(c) PROVE HandsHold
  BY <1>14 DEF OpError, Goes
<1>15. ASSUME NEW c \in Client, CloseBegin(c) PROVE HandsHold
  BY <1>15 DEF CloseBegin, CloseBeginAt, Goes
<1>16. ASSUME NEW c \in Client, InterruptBegin(c) PROVE HandsHold
  BY <1>16 DEF InterruptBegin, Goes
<1>17. ASSUME NEW c \in Client, InterruptEnds(c) PROVE HandsHold
  BY <1>17 DEF InterruptEnds, Goes, Kill
<1>18. ASSUME NEW c \in Client, SurfaceDies(c) PROVE HandsHold
  BY <1>18 DEF SurfaceDies, Goes
<1>19. ASSUME NEW c \in Client, WorkerDies(c) PROVE HandsHold
  BY <1>19 DEF WorkerDies, Kill
<1>20. ASSUME ExecHandsOff PROVE HandsHold
  BY <1>20 DEF ExecHandsOff, Goes
<1>21. ASSUME ExecClient PROVE HandsHold
  BY <1>21 DEF ExecClient, ExecLeave, Goes, Kill
<1>22. ASSUME StopBegin PROVE HandsHold
  BY <1>22 DEF StopBegin, Goes
<1>23. ASSUME CloseEach PROVE HandsHold
  BY <1>23 DEF CloseEach, Goes
<1>24. ASSUME StopGivesUp PROVE HandsHold
  BY <1>24 DEF StopGivesUp, Rests, Goes
<1>25. ASSUME StopEnters PROVE HandsHold
  BY <1>25 DEF StopEnters, Ends, Rests, EnterTeardown, Goes
<1>26. ASSUME StartEnters PROVE HandsHold
  BY <1>26 DEF StartEnters, EnterTeardown, Goes
<1>27. ASSUME PollFindsDeath \/ ExecFindsDeath PROVE HandsHold
  BY <1>27 DEF PollFindsDeath, ExecFindsDeath, EnterTeardown, Goes
<1>28. ASSUME TeardownSurfaces PROVE HandsHold
  BY <1>28 DEF TeardownSurfaces, TeardownSurfacesOf, Ends, Rests, Goes
<1>29. ASSUME TeardownItem PROVE HandsHold
  BY <1>29 DEF TeardownItem, Goes, Kill
<1>30. ASSUME TeardownStopped PROVE HandsHold
  BY <1>30 DEF TeardownStopped, Goes, Kill
<1>31. ASSUME TeardownEnds PROVE HandsHold
  BY <1>31 DEF TeardownEnds, RetireAll, Ends, Rests, Goes
<1>32. ASSUME KernelOff PROVE HandsHold
  BY <1>32 DEF KernelOff, Ends, Rests, Goes
<1>33. ASSUME KernelStarts PROVE HandsHold
  BY <1>33 DEF KernelStarts, Ends, Rests, Goes
<1>34. ASSUME Activate PROVE HandsHold
  BY <1>34 DEF Activate, Ends, Rests, Goes
<1>35. ASSUME UNCHANGED vars PROVE HandsHold
  BY <1>35 DEF vars
<1>36. ASSUME ExecBegin \/ ExecEnds \/ CompleteTurnsOff \/ InterruptTurnsOff
     PROVE HandsHold
  BY <1>36 DEF ExecBegin, ExecEnds, CompleteTurnsOff, InterruptTurnsOff, TurnsOff, Goes
<1> QED BY <1>1, <1>2, <1>3, <1>4, <1>5, <1>6, <1>7, <1>8, <1>9, <1>10, <1>11, <1>12,
      <1>13, <1>14, <1>15, <1>16, <1>17, <1>18, <1>19, <1>20, <1>21, <1>22, <1>23,
      <1>24, <1>25, <1>26, <1>27, <1>28, <1>29, <1>30, <1>31, <1>32, <1>33, <1>34,
      <1>35, <1>36 DEF Next, Closing, Operation, Teardown

\* The dead stay dead.
LEMMA DeadStep ==
  ClientTypes /\ [Next]_vars => DeadStays
<1> SUFFICES ASSUME ClientTypes, [Next]_vars PROVE DeadStays
  OBVIOUS
<1> USE DEF ClientTypes, DeadStays, kernelVars, clientVars, workerVars, lifecycleVars
<1>1. ASSUME NEW t \in Threads \ {Execute}, StopAtOnce(t) PROVE DeadStays
  BY <1>1 DEF StopAtOnce, Subject, Goes, Stopped, Kill
<1>2. ASSUME NEW t \in Threads \ {Execute}, StopEnds(t) PROVE DeadStays
  BY <1>2 DEF StopEnds, Subject, Goes, Stopped, StopRaises, Kill
<1>3. ASSUME NEW c \in Client, OpBreak(c) PROVE DeadStays
  BY <1>3 DEF OpBreak, OpBreakLeaving, Goes
<1>4. ASSUME NEW c \in Client, InterruptEnds(c) PROVE DeadStays
  BY <1>4 DEF InterruptEnds, Goes, Kill
<1>5. ASSUME NEW c \in Client, WorkerDies(c) PROVE DeadStays
  BY <1>5 DEF WorkerDies, Kill
<1>6. ASSUME ExecHandsOff PROVE DeadStays
  BY <1>6 DEF ExecHandsOff, Goes
<1>7. ASSUME ExecClient PROVE DeadStays
  BY <1>7 DEF ExecClient, ExecLeave, Goes, Kill
<1>8. ASSUME TeardownItem PROVE DeadStays
  BY <1>8 DEF TeardownItem, Goes, Kill
<1>9. ASSUME TeardownStopped PROVE DeadStays
  BY <1>9 DEF TeardownStopped, Goes, Kill
<1>10. ASSUME \/ \E t \in Threads \ {Execute} : StopPop(t)
              \/ \E t \in Threads \ {Execute} : StopAsk(t)
              \/ \E t \in Threads \ {Execute} : TakeLane(t)
     PROVE DeadStays
  BY <1>10 DEF StopPop, Subject, Goes, Stopped, StopAsk, TakeLane, TakeLaneFor, Returned
<1>11. ASSUME \/ \E t \in Threads \ {Execute} : CloseSurfaces(t)
              \/ \E t \in Threads \ {Execute} : Retire(t)
              \/ \E c \in Client : OpAdmit(c)
     PROVE DeadStays
  BY <1>11 DEF CloseSurfaces, Subject, Goes, Retire, RetireAll, Leave, Returned, OpAdmit
<1>12. ASSUME \/ \E c \in Client : OpLookUp(c)
              \/ \E c \in Client : OpBegin(c)
              \/ \E c \in Client : OpAnswer(c)
     PROVE DeadStays
  BY <1>12 DEF OpLookUp, Goes, OpBegin, OpAnswer
<1>13. ASSUME \/ \E c \in Client : OpInvalid(c)
              \/ \E c \in Client : OpError(c)
              \/ \E c \in Client : CloseBegin(c)
     PROVE DeadStays
  BY <1>13 DEF OpInvalid, Goes, OpError, CloseBegin, CloseBeginAt
<1>14. ASSUME \/ StopBegin
              \/ \E c \in Client : InterruptBegin(c)
              \/ \E c \in Client : SurfaceDies(c)
     PROVE DeadStays
  BY <1>14 DEF InterruptBegin, Goes, SurfaceDies, StopBegin
<1>15. ASSUME CloseEach \/ StopGivesUp \/ StopEnters PROVE DeadStays
  BY <1>15 DEF CloseEach, Goes, StopGivesUp, Rests, StopEnters, Ends, EnterTeardown
<1>16. ASSUME StartEnters \/ PollFindsDeath \/ ExecFindsDeath \/ TeardownSurfaces PROVE DeadStays
  BY <1>16 DEF StartEnters, EnterTeardown, Goes, PollFindsDeath, ExecFindsDeath, TeardownSurfaces,
      TeardownSurfacesOf, Ends, Rests
<1>17. ASSUME TeardownEnds \/ KernelOff \/ KernelStarts PROVE DeadStays
  BY <1>17 DEF TeardownEnds, RetireAll, Ends, Rests, Goes, KernelOff, KernelStarts
<1>18. ASSUME Activate PROVE DeadStays
  BY <1>18 DEF Activate, Ends, Rests, Goes
<1>19. ASSUME UNCHANGED vars PROVE DeadStays
  BY <1>19 DEF vars
<1>20. ASSUME ExecBegin \/ ExecEnds \/ CompleteTurnsOff \/ InterruptTurnsOff
     PROVE DeadStays
  BY <1>20 DEF ExecBegin, ExecEnds, CompleteTurnsOff, InterruptTurnsOff, TurnsOff, Goes
<1> QED BY <1>1, <1>2, <1>3, <1>4, <1>5, <1>6, <1>7, <1>8, <1>9, <1>10, <1>11, <1>12,
      <1>13, <1>14, <1>15, <1>16, <1>17, <1>18, <1>19, <1>20 DEF Next, Closing,
      Operation, Teardown

\* All of them follow from the tables.
LEMMA WorkersStep ==
  ThreadTypes /\ ClientTypes /\ Known /\ [Next]_vars => WorkersStay
<1> SUFFICES ASSUME ThreadTypes, ClientTypes, Known, [Next]_vars PROVE WorkersStay
  OBVIOUS
<1> USE DEF ThreadTypes, ClientTypes, WorkersStay, Hands, kernelVars, clientVars,
        workerVars, lifecycleVars
<1>1. ASSUME NEW t \in Threads \ {Execute}, StopPop(t) PROVE WorkersStay
  BY <1>1 DEF StopPop, Subject, Goes, Stopped
<1>2. ASSUME NEW t \in Threads \ {Execute}, StopAtOnce(t) PROVE WorkersStay
  BY <1>2 DEF StopAtOnce, Subject, Goes, Stopped, Kill
<1>3. ASSUME NEW t \in Threads \ {Execute}, StopAsk(t) PROVE WorkersStay
  BY <1>3 DEF StopAsk, Subject, Goes
<1>4. ASSUME NEW t \in Threads \ {Execute}, StopEnds(t) PROVE WorkersStay
  BY <1>4 DEF StopEnds, Subject, Goes, Stopped, StopRaises, Kill
<1>5. ASSUME NEW t \in Threads \ {Execute}, TakeLane(t) PROVE WorkersStay
  BY <1>5 DEF TakeLane, Subject, Goes, TakeLaneFor, Returned
<1>6. ASSUME NEW t \in Threads \ {Execute}, CloseSurfaces(t) PROVE WorkersStay
  BY <1>6 DEF CloseSurfaces, Subject, Goes
<1>7. ASSUME NEW t \in Threads \ {Execute}, Retire(t) PROVE WorkersStay
  BY <1>7 DEF Retire, Subject, Goes, RetireAll, Leave, Returned
<1>8. ASSUME NEW c \in Client, OpAdmit(c) PROVE WorkersStay
  BY <1>8 DEF OpAdmit, Goes
<1>9. ASSUME NEW c \in Client, OpLookUp(c) PROVE WorkersStay
  BY <1>9 DEF OpLookUp, Goes
<1>10. ASSUME NEW c \in Client, OpBegin(c) PROVE WorkersStay
  BY <1>10 DEF OpBegin, Goes
<1>11. ASSUME NEW c \in Client, OpAnswer(c) PROVE WorkersStay
  BY <1>11 DEF OpAnswer, Goes
<1>12. ASSUME NEW c \in Client, OpBreak(c) PROVE WorkersStay
  BY <1>12 DEF OpBreak, OpBreakLeaving, Goes
<1>13. ASSUME NEW c \in Client, OpInvalid(c) PROVE WorkersStay
  BY <1>13 DEF OpInvalid, Goes
<1>14. ASSUME NEW c \in Client, OpError(c) PROVE WorkersStay
  BY <1>14 DEF OpError, Goes
<1>15. ASSUME NEW c \in Client, CloseBegin(c) PROVE WorkersStay
  BY <1>15 DEF CloseBegin, CloseBeginAt, Goes
<1>16. ASSUME NEW c \in Client, InterruptBegin(c) PROVE WorkersStay
  BY <1>16 DEF InterruptBegin, Goes
<1>17. ASSUME NEW c \in Client, InterruptEnds(c) PROVE WorkersStay
  BY <1>17 DEF InterruptEnds, Goes, Kill
<1>18. ASSUME NEW c \in Client, SurfaceDies(c) PROVE WorkersStay
  BY <1>18 DEF SurfaceDies, Goes
<1>19. ASSUME NEW c \in Client, WorkerDies(c) PROVE WorkersStay
  BY <1>19 DEF WorkerDies, Kill
<1>20. ASSUME ExecHandsOff PROVE WorkersStay
  BY <1>20 DEF ExecHandsOff, Goes
<1>21. ASSUME ExecClient PROVE WorkersStay
  BY <1>21 DEF ExecClient, ExecLeave, Goes, Kill
<1>22. ASSUME StopBegin PROVE WorkersStay
  BY <1>22 DEF StopBegin, Goes
<1>23. ASSUME CloseEach PROVE WorkersStay
  BY <1>23 DEF CloseEach, Goes
<1>24. ASSUME StopGivesUp PROVE WorkersStay
  BY <1>24 DEF StopGivesUp, Rests, Goes
<1>25. ASSUME StopEnters PROVE WorkersStay
  BY <1>25 DEF StopEnters, Ends, Rests, EnterTeardown, Goes
<1>26. ASSUME StartEnters PROVE WorkersStay
  BY <1>26 DEF StartEnters, EnterTeardown, Goes
<1>27. ASSUME PollFindsDeath \/ ExecFindsDeath PROVE WorkersStay
  BY <1>27 DEF PollFindsDeath, ExecFindsDeath, EnterTeardown, Goes
<1>28. ASSUME TeardownSurfaces PROVE WorkersStay
  BY <1>28 DEF TeardownSurfaces, TeardownSurfacesOf, Ends, Rests, Goes
<1>29. ASSUME TeardownItem PROVE WorkersStay
  BY <1>29 DEF TeardownItem, Goes, Kill
<1>30. ASSUME TeardownStopped PROVE WorkersStay
  BY <1>30 DEF TeardownStopped, Goes, Kill
<1>31. ASSUME TeardownEnds PROVE WorkersStay
  BY <1>31 DEF TeardownEnds, RetireAll, Ends, Rests, Goes
<1>32. ASSUME KernelOff PROVE WorkersStay
  BY <1>32 DEF KernelOff, Ends, Rests, Goes
<1>33. ASSUME KernelStarts PROVE WorkersStay
  BY <1>33 DEF KernelStarts, Ends, Rests, Goes
<1>34. ASSUME Activate PROVE WorkersStay
  BY <1>34 DEF Activate, Ends, Rests, Goes
<1>35. ASSUME UNCHANGED vars PROVE WorkersStay
  BY <1>35 DEF vars
<1>36. ASSUME ExecBegin \/ ExecEnds \/ CompleteTurnsOff \/ InterruptTurnsOff
     PROVE WorkersStay
  BY <1>36 DEF ExecBegin, ExecEnds, CompleteTurnsOff, InterruptTurnsOff, TurnsOff, Goes
<1> QED BY <1>1, <1>2, <1>3, <1>4, <1>5, <1>6, <1>7, <1>8, <1>9, <1>10, <1>11, <1>12,
      <1>13, <1>14, <1>15, <1>16, <1>17, <1>18, <1>19, <1>20, <1>21, <1>22, <1>23,
      <1>24, <1>25, <1>26, <1>27, <1>28, <1>29, <1>30, <1>31, <1>32, <1>33, <1>34,
      <1>35, <1>36 DEF Next, Closing, Operation, Teardown

\* What is gone stays gone.
LEMMA GoneStays ==
  ASSUME TypeOK, Known, [Next]_vars
  PROVE  \A c \in Client : Gone(c) => Gone(c)'
<1>1. HandsHold /\ DeadStays /\ WorkersStay
  BY TypeParts, HandsStep, DeadStep, WorkersStep
<1> SUFFICES ASSUME NEW c \in Client, Gone(c) PROVE Gone(c)'
  OBVIOUS
<1>2. CASE process[c] = "dead"
  BY <1>1, <1>2 DEF DeadStays, Gone
<1>3. CASE process[c] = "alive" /\ BeingStopped(c)
  <2>1. PICK t \in Threads : Subject(t) = c /\ at[t] \in Hands
    BY <1>3 DEF BeingStopped, Hands
  <2>2. Subject(t)' = c /\ (at'[t] \in Hands \/ process'[c] = "dead")
    BY <1>1, <2>1 DEF HandsHold, Subject
  <2>3. process'[c] \in {"dead", "alive"}
    BY <1>1, <1>3 DEF WorkersStay
  <2> QED BY <2>2, <2>3 DEF Gone, BeingStopped, Hands
<1> QED BY <1>2, <1>3 DEF Gone

\* A worker leaves the table dead, or in the hands of a thread that stops it.
LEMMA EscapesStep == TypeOK /\ Known /\ NoWorkerEscapes /\ [Next]_vars => NoWorkerEscapes'
<1> SUFFICES ASSUME TypeOK, Known, NoWorkerEscapes, [Next]_vars,
                    NEW c \in Client, process'[c] = "alive"
             PROVE  c \in workers' \/ BeingStopped(c)'
  BY DEF NoWorkerEscapes
<1>1. HandsHold /\ WorkersStay
  BY TypeParts, HandsStep, WorkersStep
<1>2. CASE process[c] = "alive" /\ c \in workers
  BY <1>1, <1>2 DEF WorkersStay, Hands, BeingStopped
<1>3. CASE process[c] = "alive" /\ c \notin workers
  <2>1. BeingStopped(c)
    BY <1>3 DEF NoWorkerEscapes
  <2>2. Gone(c)'
    BY <1>3, <2>1, GoneStays DEF Gone
  <2> QED BY <2>2 DEF Gone
<1>4. CASE process[c] # "alive"
  BY <1>1, <1>4 DEF WorkersStay
<1> QED BY <1>2, <1>3, <1>4

-----------------------------------------------------------------------------
(* The other parts of the invariant.                                       *)

\* A client never becomes none again.
ClientsStay == \A c \in Client : client[c] # "none" => client'[c] # "none"

\* No step unmakes one.
LEMMA ClientsStep ==
  ClientTypes /\ [Next]_vars => ClientsStay
<1> SUFFICES ASSUME ClientTypes, [Next]_vars PROVE ClientsStay
  OBVIOUS
<1> USE DEF ClientTypes, ClientsStay, kernelVars, clientVars, workerVars, lifecycleVars
<1>1. ASSUME NEW t \in Threads \ {Execute}, Retire(t) PROVE ClientsStay
  BY <1>1 DEF Retire, Subject, Goes, RetireAll, Leave, Returned
<1>2. ASSUME ExecClient PROVE ClientsStay
  BY <1>2 DEF ExecClient, ExecLeave, Goes, Kill
<1>3. ASSUME TeardownEnds PROVE ClientsStay
  BY <1>3 DEF TeardownEnds, RetireAll, Ends, Rests, Goes
<1>4. ASSUME \/ \E t \in Threads \ {Execute} : StopPop(t)
             \/ \E t \in Threads \ {Execute} : StopAtOnce(t)
             \/ \E t \in Threads \ {Execute} : StopAsk(t)
     PROVE ClientsStay
  BY <1>4 DEF StopPop, Subject, Goes, Stopped, StopAtOnce, Kill, StopAsk
<1>5. ASSUME \/ \E t \in Threads \ {Execute} : StopEnds(t)
             \/ \E t \in Threads \ {Execute} : TakeLane(t)
             \/ \E t \in Threads \ {Execute} : CloseSurfaces(t)
     PROVE ClientsStay
  BY <1>5 DEF StopEnds, Subject, Goes, Stopped, StopRaises, Kill, TakeLane, TakeLaneFor,
      Returned, CloseSurfaces
<1>6. ASSUME \/ \E c \in Client : OpAdmit(c)
             \/ \E c \in Client : OpLookUp(c)
             \/ \E c \in Client : OpBegin(c)
     PROVE ClientsStay
  BY <1>6 DEF OpAdmit, Goes, OpLookUp, OpBegin
<1>7. ASSUME \/ \E c \in Client : OpAnswer(c)
             \/ \E c \in Client : OpBreak(c)
             \/ \E c \in Client : OpInvalid(c)
     PROVE ClientsStay
  BY <1>7 DEF OpAnswer, Goes, OpBreak, OpBreakLeaving, OpInvalid
<1>8. ASSUME \/ \E c \in Client : OpError(c)
             \/ \E c \in Client : CloseBegin(c)
             \/ \E c \in Client : InterruptBegin(c)
     PROVE ClientsStay
  BY <1>8 DEF OpError, Goes, CloseBegin, CloseBeginAt, InterruptBegin
<1>9. ASSUME \/ \E c \in Client : InterruptEnds(c)
             \/ \E c \in Client : SurfaceDies(c)
             \/ \E c \in Client : WorkerDies(c)
     PROVE ClientsStay
  BY <1>9 DEF InterruptEnds, Goes, Kill, SurfaceDies, WorkerDies
<1>10. ASSUME ExecHandsOff \/ StopBegin \/ CloseEach PROVE ClientsStay
  BY <1>10 DEF ExecHandsOff, Goes, StopBegin, CloseEach
<1>11. ASSUME StopGivesUp \/ StopEnters \/ StartEnters PROVE ClientsStay
  BY <1>11 DEF StopGivesUp, Rests, Goes, StopEnters, Ends, EnterTeardown, StartEnters
<1>12. ASSUME PollFindsDeath \/ ExecFindsDeath \/ TeardownSurfaces \/ TeardownItem PROVE ClientsStay
  BY <1>12 DEF PollFindsDeath, ExecFindsDeath, EnterTeardown, Goes, TeardownSurfaces,
      TeardownSurfacesOf, Ends, Rests, TeardownItem, Kill
<1>13. ASSUME TeardownStopped \/ KernelOff \/ KernelStarts PROVE ClientsStay
  BY <1>13 DEF TeardownStopped, Goes, Kill, KernelOff, Ends, Rests, KernelStarts
<1>14. ASSUME Activate PROVE ClientsStay
  BY <1>14 DEF Activate, Ends, Rests, Goes
<1>15. ASSUME UNCHANGED vars PROVE ClientsStay
  BY <1>15 DEF vars
<1>16. ASSUME ExecBegin \/ ExecEnds \/ CompleteTurnsOff \/ InterruptTurnsOff
     PROVE ClientsStay
  BY <1>16 DEF ExecBegin, ExecEnds, CompleteTurnsOff, InterruptTurnsOff, TurnsOff, Goes
<1> QED BY <1>1, <1>2, <1>3, <1>4, <1>5, <1>6, <1>7, <1>8, <1>9, <1>10, <1>11, <1>12,
      <1>13, <1>14, <1>15, <1>16 DEF Next, Closing, Operation, Teardown

\* A client is made of a worker.
LEMMA MadeStep ==
  ClientTypes /\ Known /\ Made /\ [Next]_vars => Made'
<1> SUFFICES ASSUME ClientTypes, Known, Made, [Next]_vars PROVE Made'
  OBVIOUS
<1> USE DEF ClientTypes, Made, kernelVars, clientVars, workerVars, lifecycleVars
<1>1. ASSUME NEW t \in Threads \ {Execute}, StopPop(t) PROVE Made'
  BY <1>1 DEF StopPop, Subject, Goes, Stopped
<1>2. ASSUME NEW t \in Threads \ {Execute}, StopAtOnce(t) PROVE Made'
  BY <1>2 DEF StopAtOnce, Subject, Goes, Stopped, Kill
<1>3. ASSUME NEW t \in Threads \ {Execute}, StopEnds(t) PROVE Made'
  BY <1>3 DEF StopEnds, Subject, Goes, Stopped, StopRaises, Kill
<1>4. ASSUME NEW t \in Threads \ {Execute}, Retire(t) PROVE Made'
  <2>1. Subject(t) \in Client /\ client[Subject(t)] # "none"
    BY <1>4, SubjectIsClient DEF Retire, ClosingPlaces
  <2>2. \A c \in Client : client'[c] # "none" => client[c] # "none"
    BY <1>4, <2>1 DEF Retire, RetireAll
  <2> QED BY <1>4, <2>2 DEF Retire
<1>5. ASSUME NEW c \in Client, OpBegin(c) PROVE Made'
  BY <1>5 DEF OpBegin, Goes
<1>6. ASSUME NEW c \in Client, OpBreak(c) PROVE Made'
  BY <1>6 DEF OpBreak, OpBreakLeaving, Goes
<1>7. ASSUME NEW c \in Client, InterruptEnds(c) PROVE Made'
  BY <1>7 DEF InterruptEnds, Goes, Kill
<1>8. ASSUME NEW c \in Client, WorkerDies(c) PROVE Made'
  BY <1>8 DEF WorkerDies, Kill
<1>9. ASSUME ExecHandsOff PROVE Made'
  BY <1>9 DEF ExecHandsOff, Goes
<1>10. ASSUME ExecClient PROVE Made'
  BY <1>10 DEF ExecClient, ExecLeave, Goes, Kill
<1>11. ASSUME TeardownItem PROVE Made'
  BY <1>11 DEF TeardownItem, Goes, Kill
<1>12. ASSUME TeardownStopped PROVE Made'
  BY <1>12 DEF TeardownStopped, Goes, Kill
<1>13. ASSUME TeardownEnds PROVE Made'
  BY <1>13 DEF TeardownEnds, RetireAll, Ends, Rests, Goes
<1>14. ASSUME \/ \E t \in Threads \ {Execute} : StopAsk(t)
              \/ \E t \in Threads \ {Execute} : TakeLane(t)
              \/ \E t \in Threads \ {Execute} : CloseSurfaces(t)
     PROVE Made'
  BY <1>14 DEF StopAsk, Subject, Goes, TakeLane, TakeLaneFor, Returned, CloseSurfaces
<1>15. ASSUME \/ \E c \in Client : OpAdmit(c)
              \/ \E c \in Client : OpLookUp(c)
              \/ \E c \in Client : OpAnswer(c)
     PROVE Made'
  BY <1>15 DEF OpAdmit, Goes, OpLookUp, OpAnswer
<1>16. ASSUME \/ \E c \in Client : OpInvalid(c)
              \/ \E c \in Client : OpError(c)
              \/ \E c \in Client : CloseBegin(c)
     PROVE Made'
  BY <1>16 DEF OpInvalid, Goes, OpError, CloseBegin, CloseBeginAt
<1>17. ASSUME \/ StopBegin
              \/ \E c \in Client : InterruptBegin(c)
              \/ \E c \in Client : SurfaceDies(c)
     PROVE Made'
  BY <1>17 DEF InterruptBegin, Goes, SurfaceDies, StopBegin
<1>18. ASSUME CloseEach \/ StopGivesUp \/ StopEnters PROVE Made'
  BY <1>18 DEF CloseEach, Goes, StopGivesUp, Rests, StopEnters, Ends, EnterTeardown
<1>19. ASSUME StartEnters \/ PollFindsDeath \/ ExecFindsDeath \/ TeardownSurfaces PROVE Made'
  BY <1>19 DEF StartEnters, EnterTeardown, Goes, PollFindsDeath, ExecFindsDeath, TeardownSurfaces,
      TeardownSurfacesOf, Ends, Rests
<1>20. ASSUME KernelOff \/ KernelStarts \/ Activate PROVE Made'
  BY <1>20 DEF KernelOff, Ends, Rests, Goes, KernelStarts, Activate
<1>21. ASSUME UNCHANGED vars PROVE Made'
  BY <1>21 DEF vars
<1>22. ASSUME ExecBegin \/ ExecEnds \/ CompleteTurnsOff \/ InterruptTurnsOff
     PROVE Made'
  BY <1>22 DEF ExecBegin, ExecEnds, CompleteTurnsOff, InterruptTurnsOff, TurnsOff, Goes
<1> QED BY <1>1, <1>2, <1>3, <1>4, <1>5, <1>6, <1>7, <1>8, <1>9, <1>10, <1>11, <1>12,
      <1>13, <1>14, <1>15, <1>16, <1>17, <1>18, <1>19, <1>20, <1>21, <1>22 DEF Next,
      Closing, Operation, Teardown

\* A thread begins for a client that is live.
LEMMA DoneStep ==
  ThreadTypes /\ ClientTypes /\ DoneToClients /\ [Next]_vars => DoneToClients'
<1> SUFFICES ASSUME ThreadTypes, ClientTypes, DoneToClients, [Next]_vars PROVE
    DoneToClients'
  OBVIOUS
<1> USE OfClients, ThreadsThere DEF ThreadTypes, ClientTypes, DoneToClients, kernelVars,
        clientVars, workerVars, lifecycleVars
<1>1. ASSUME NEW t \in Threads \ {Execute}, StopPop(t) PROVE DoneToClients'
  BY <1>1 DEF StopPop, Subject, Goes, Stopped
<1>2. ASSUME NEW t \in Threads \ {Execute}, StopAtOnce(t) PROVE DoneToClients'
  BY <1>2 DEF StopAtOnce, Subject, Goes, Stopped, Kill
<1>3. ASSUME NEW t \in Threads \ {Execute}, StopAsk(t) PROVE DoneToClients'
  BY <1>3 DEF StopAsk, Subject, Goes
<1>4. ASSUME NEW t \in Threads \ {Execute}, StopEnds(t) PROVE DoneToClients'
  BY <1>4 DEF StopEnds, Subject, Goes, Stopped, StopRaises, Kill
<1>5. ASSUME NEW t \in Threads \ {Execute}, TakeLane(t) PROVE DoneToClients'
  BY <1>5 DEF TakeLane, Subject, Goes, TakeLaneFor, Returned
<1>6. ASSUME NEW t \in Threads \ {Execute}, CloseSurfaces(t) PROVE DoneToClients'
  BY <1>6 DEF CloseSurfaces, Subject, Goes
<1>7. ASSUME NEW t \in Threads \ {Execute}, Retire(t) PROVE DoneToClients'
  BY <1>7 DEF Retire, Subject, Goes, RetireAll, Leave, Returned
<1>8. ASSUME NEW c \in Client, OpAdmit(c) PROVE DoneToClients'
  BY <1>8 DEF OpAdmit, Goes
<1>9. ASSUME NEW c \in Client, OpLookUp(c) PROVE DoneToClients'
  BY <1>9 DEF OpLookUp, Goes
<1>10. ASSUME NEW c \in Client, OpBegin(c) PROVE DoneToClients'
  <2>1. UNCHANGED client /\ at[Op(c)] # "idle" /\ \E p : at' = [at EXCEPT ![Op(c)] = p]
    BY <1>10 DEF OpBegin, Goes
  <2> QED BY <2>1
<1>11. ASSUME NEW c \in Client, OpAnswer(c) PROVE DoneToClients'
  BY <1>11 DEF OpAnswer, Goes
<1>12. ASSUME NEW c \in Client, OpBreak(c) PROVE DoneToClients'
  <2>1. UNCHANGED client /\ at[Op(c)] # "idle" /\ \E p : at' = [at EXCEPT ![Op(c)] = p]
    BY <1>12 DEF OpBreak, OpBreakLeaving, Goes
  <2> QED BY <2>1
<1>13. ASSUME NEW c \in Client, OpInvalid(c) PROVE DoneToClients'
  BY <1>13 DEF OpInvalid, Goes
<1>14. ASSUME NEW c \in Client, OpError(c) PROVE DoneToClients'
  BY <1>14 DEF OpError, Goes
<1>15. ASSUME NEW c \in Client, CloseBegin(c) PROVE DoneToClients'
  BY <1>15 DEF CloseBegin, CloseBeginAt, Goes
<1>16. ASSUME NEW c \in Client, InterruptBegin(c) PROVE DoneToClients'
  BY <1>16 DEF InterruptBegin, Goes
<1>17. ASSUME NEW c \in Client, InterruptEnds(c) PROVE DoneToClients'
  BY <1>17 DEF InterruptEnds, Goes, Kill
<1>18. ASSUME NEW c \in Client, SurfaceDies(c) PROVE DoneToClients'
  BY <1>18 DEF SurfaceDies, Goes
<1>19. ASSUME NEW c \in Client, WorkerDies(c) PROVE DoneToClients'
  BY <1>19 DEF WorkerDies, Kill
<1>20. ASSUME ExecHandsOff PROVE DoneToClients'
  BY <1>20 DEF ExecHandsOff, Goes
<1>21. ASSUME ExecClient PROVE DoneToClients'
  BY <1>21 DEF ExecClient, ExecLeave, Goes, Kill
<1>22. ASSUME StopBegin PROVE DoneToClients'
  BY <1>22 DEF StopBegin, Goes
<1>23. ASSUME CloseEach PROVE DoneToClients'
  BY <1>23 DEF CloseEach, Goes
<1>24. ASSUME StopGivesUp PROVE DoneToClients'
  BY <1>24 DEF StopGivesUp, Rests, Goes
<1>25. ASSUME StopEnters PROVE DoneToClients'
  BY <1>25 DEF StopEnters, Ends, Rests, EnterTeardown, Goes
<1>26. ASSUME StartEnters PROVE DoneToClients'
  BY <1>26 DEF StartEnters, EnterTeardown, Goes
<1>27. ASSUME PollFindsDeath \/ ExecFindsDeath PROVE DoneToClients'
  BY <1>27 DEF PollFindsDeath, ExecFindsDeath, EnterTeardown, Goes
<1>28. ASSUME TeardownSurfaces PROVE DoneToClients'
  BY <1>28 DEF TeardownSurfaces, TeardownSurfacesOf, Ends, Rests, Goes
<1>29. ASSUME TeardownItem PROVE DoneToClients'
  <2>1. UNCHANGED client /\ \E p : at' = at \/ at' = [at EXCEPT ![Lifecycle] = p]
    BY <1>29 DEF TeardownItem, Goes
  <2> QED BY <2>1
<1>30. ASSUME TeardownStopped PROVE DoneToClients'
  BY <1>30 DEF TeardownStopped, Goes, Kill
<1>31. ASSUME TeardownEnds PROVE DoneToClients'
  BY <1>31 DEF TeardownEnds, RetireAll, Ends, Rests, Goes
<1>32. ASSUME KernelOff PROVE DoneToClients'
  BY <1>32 DEF KernelOff, Ends, Rests, Goes
<1>33. ASSUME KernelStarts PROVE DoneToClients'
  BY <1>33 DEF KernelStarts, Ends, Rests, Goes
<1>34. ASSUME Activate PROVE DoneToClients'
  BY <1>34 DEF Activate, Ends, Rests, Goes
<1>35. ASSUME UNCHANGED vars PROVE DoneToClients'
  BY <1>35 DEF vars
<1>36. ASSUME ExecBegin \/ ExecEnds \/ CompleteTurnsOff \/ InterruptTurnsOff
     PROVE DoneToClients'
  BY <1>36 DEF ExecBegin, ExecEnds, CompleteTurnsOff, InterruptTurnsOff, TurnsOff, Goes
<1> QED BY <1>1, <1>2, <1>3, <1>4, <1>5, <1>6, <1>7, <1>8, <1>9, <1>10, <1>11, <1>12,
      <1>13, <1>14, <1>15, <1>16, <1>17, <1>18, <1>19, <1>20, <1>21, <1>22, <1>23,
      <1>24, <1>25, <1>26, <1>27, <1>28, <1>29, <1>30, <1>31, <1>32, <1>33, <1>34,
      <1>35, <1>36 DEF Next, Closing, Operation, Teardown

\* A lifecycle request closes clients that are live.
LEMMA LifecycleToStep ==
  ThreadTypes /\ ClientTypes /\ SetTypes /\ LifecycleToClients /\ [Next]_vars => LifecycleToClients'
<1> SUFFICES ASSUME ThreadTypes, ClientTypes, SetTypes, LifecycleToClients, [Next]_vars
    PROVE LifecycleToClients'
  OBVIOUS
<1> USE ThreadsThere, Apart DEF ThreadTypes, ClientTypes, SetTypes, LifecycleToClients,
        ClosingPlaces, kernelVars, clientVars, workerVars, lifecycleVars
<1>1. ASSUME NEW t \in Threads \ {Execute}, StopPop(t) PROVE LifecycleToClients'
  BY <1>1 DEF StopPop, Subject, Goes, Stopped
<1>2. ASSUME NEW t \in Threads \ {Execute}, StopAtOnce(t) PROVE LifecycleToClients'
  BY <1>2 DEF StopAtOnce, Subject, Goes, Stopped, Kill
<1>3. ASSUME NEW t \in Threads \ {Execute}, StopAsk(t) PROVE LifecycleToClients'
  BY <1>3 DEF StopAsk, Subject, Goes
<1>4. ASSUME NEW t \in Threads \ {Execute}, StopEnds(t) PROVE LifecycleToClients'
  BY <1>4 DEF StopEnds, Subject, Goes, Stopped, StopRaises, Kill
<1>5. ASSUME NEW t \in Threads \ {Execute}, TakeLane(t) PROVE LifecycleToClients'
  BY <1>5 DEF TakeLane, Subject, Goes, TakeLaneFor, Returned
<1>6. ASSUME NEW t \in Threads \ {Execute}, CloseSurfaces(t) PROVE LifecycleToClients'
  BY <1>6 DEF CloseSurfaces, Subject, Goes
<1>7. ASSUME NEW t \in Threads \ {Execute}, Retire(t) PROVE LifecycleToClients'
  BY <1>7 DEF Retire, Subject, Goes, RetireAll, Leave, Returned
<1>8. ASSUME NEW c \in Client, OpAdmit(c) PROVE LifecycleToClients'
  BY <1>8 DEF OpAdmit, Goes
<1>9. ASSUME NEW c \in Client, OpLookUp(c) PROVE LifecycleToClients'
  BY <1>9 DEF OpLookUp, Goes
<1>10. ASSUME NEW c \in Client, OpBegin(c) PROVE LifecycleToClients'
  BY <1>10 DEF OpBegin, Goes
<1>11. ASSUME NEW c \in Client, OpAnswer(c) PROVE LifecycleToClients'
  BY <1>11 DEF OpAnswer, Goes
<1>12. ASSUME NEW c \in Client, OpBreak(c) PROVE LifecycleToClients'
  BY <1>12 DEF OpBreak, OpBreakLeaving, Goes
<1>13. ASSUME NEW c \in Client, OpInvalid(c) PROVE LifecycleToClients'
  BY <1>13 DEF OpInvalid, Goes
<1>14. ASSUME NEW c \in Client, OpError(c) PROVE LifecycleToClients'
  BY <1>14 DEF OpError, Goes
<1>15. ASSUME NEW c \in Client, CloseBegin(c) PROVE LifecycleToClients'
  BY <1>15 DEF CloseBegin, CloseBeginAt, Goes
<1>16. ASSUME NEW c \in Client, InterruptBegin(c) PROVE LifecycleToClients'
  BY <1>16 DEF InterruptBegin, Goes
<1>17. ASSUME NEW c \in Client, InterruptEnds(c) PROVE LifecycleToClients'
  BY <1>17 DEF InterruptEnds, Goes, Kill
<1>18. ASSUME NEW c \in Client, SurfaceDies(c) PROVE LifecycleToClients'
  BY <1>18 DEF SurfaceDies, Goes
<1>19. ASSUME NEW c \in Client, WorkerDies(c) PROVE LifecycleToClients'
  BY <1>19 DEF WorkerDies, Kill
<1>20. ASSUME ExecHandsOff PROVE LifecycleToClients'
  BY <1>20 DEF ExecHandsOff, Goes
<1>21. ASSUME ExecClient PROVE LifecycleToClients'
  BY <1>21 DEF ExecClient, ExecLeave, Goes, Kill
<1>22. ASSUME StopBegin PROVE LifecycleToClients'
  BY <1>22 DEF StopBegin, Goes
<1>23. ASSUME CloseEach PROVE LifecycleToClients'
  BY <1>23 DEF CloseEach, Goes
<1>24. ASSUME StopGivesUp PROVE LifecycleToClients'
  BY <1>24 DEF StopGivesUp, Rests, Goes
<1>25. ASSUME StopEnters PROVE LifecycleToClients'
  BY <1>25 DEF StopEnters, Ends, Rests, EnterTeardown, Goes
<1>26. ASSUME StartEnters PROVE LifecycleToClients'
  BY <1>26 DEF StartEnters, EnterTeardown, Goes
<1>27. ASSUME PollFindsDeath \/ ExecFindsDeath PROVE LifecycleToClients'
  BY <1>27 DEF PollFindsDeath, ExecFindsDeath, EnterTeardown, Goes
<1>28. ASSUME TeardownSurfaces PROVE LifecycleToClients'
  BY <1>28 DEF TeardownSurfaces, TeardownSurfacesOf, Ends, Rests, Goes
<1>29. ASSUME TeardownItem PROVE LifecycleToClients'
  BY <1>29 DEF TeardownItem, Goes, Kill
<1>30. ASSUME TeardownStopped PROVE LifecycleToClients'
  BY <1>30 DEF TeardownStopped, Goes, Kill
<1>31. ASSUME TeardownEnds PROVE LifecycleToClients'
  BY <1>31 DEF TeardownEnds, RetireAll, Ends, Rests, Goes
<1>32. ASSUME KernelOff PROVE LifecycleToClients'
  BY <1>32 DEF KernelOff, Ends, Rests, Goes
<1>33. ASSUME KernelStarts PROVE LifecycleToClients'
  BY <1>33 DEF KernelStarts, Ends, Rests, Goes
<1>34. ASSUME Activate PROVE LifecycleToClients'
  BY <1>34 DEF Activate, Ends, Rests, Goes
<1>35. ASSUME UNCHANGED vars PROVE LifecycleToClients'
  BY <1>35 DEF vars
<1>36. ASSUME ExecBegin \/ ExecEnds \/ CompleteTurnsOff \/ InterruptTurnsOff
     PROVE LifecycleToClients'
  BY <1>36 DEF ExecBegin, ExecEnds, CompleteTurnsOff, InterruptTurnsOff, TurnsOff, Goes
<1> QED BY <1>1, <1>2, <1>3, <1>4, <1>5, <1>6, <1>7, <1>8, <1>9, <1>10, <1>11, <1>12,
      <1>13, <1>14, <1>15, <1>16, <1>17, <1>18, <1>19, <1>20, <1>21, <1>22, <1>23,
      <1>24, <1>25, <1>26, <1>27, <1>28, <1>29, <1>30, <1>31, <1>32, <1>33, <1>34,
      <1>35, <1>36 DEF Next, Closing, Operation, Teardown

\* The three of them.
LEMMA KnownStep == TypeOK /\ Known /\ [Next]_vars => Known'
<1> SUFFICES ASSUME TypeOK, Known, [Next]_vars PROVE Known'
  OBVIOUS
<1>1. ThreadTypes /\ ClientTypes /\ SetTypes
  BY TypeParts
<1> QED BY <1>1, MadeStep, DoneStep, LifecycleToStep DEF Known

\* What the steps are known to leave gone.
GonePersists ==
  /\ \A c \in Client : Gone(c) => Gone(c)'
  /\ \A c \in Client : process'[c] = "dead" => Gone(c)'

\* GoneStays, and what is dead is gone.
LEMMA GoneStep == TypeOK /\ Known /\ [Next]_vars => GonePersists
  BY GoneStays DEF GonePersists, Gone

\* A worker that is not in the table has gone, if there was one.
LEMMA AbsentIsGone ==
  ASSUME ClientTypes, NoWorkerEscapes, Known, NEW c \in Client, client[c] # "none", c \notin workers
  PROVE  Gone(c)
  BY DEF ClientTypes, NoWorkerEscapes, Known, Made, Gone

\* To retire is the last step of a close, after the stop.
LEMMA RetireStep ==
  ThreadTypes /\ ClientTypes /\ SetTypes /\ Known /\ NoWorkerEscapes /\ GonePersists /\
     SurfaceStopsFirst /\ RetireIsLast /\ [Next]_vars => RetireIsLast'
<1> SUFFICES ASSUME ThreadTypes, ClientTypes, SetTypes, Known, NoWorkerEscapes,
    GonePersists, SurfaceStopsFirst, RetireIsLast, [Next]_vars PROVE RetireIsLast'
  OBVIOUS
<1> USE ThreadsThere, Apart DEF ThreadTypes, GonePersists, RetireIsLast, Subject,
        kernelVars, clientVars, workerVars, lifecycleVars
<1>1. ASSUME NEW t \in Threads \ {Execute}, StopPop(t) PROVE RetireIsLast'
  <2>1. PICK d \in Client : d = Subject(t) /\ client[d] # "none"
    BY <1>1, SubjectIsClient DEF StopPop, ClosingPlaces
  <2>2. UNCHANGED target /\ \E p : at' = [at EXCEPT ![t] = p]
                           /\ (p \in {"retire", "wait"} => d \notin workers)
    BY <1>1, <2>1 DEF StopPop, Stopped, Goes
  <2>3. d \notin workers => Gone(d)'
    BY <2>1, AbsentIsGone DEF GonePersists
  <2> QED BY <2>1, <2>2, <2>3 DEF Subject
<1>2. ASSUME NEW t \in Threads \ {Execute}, StopAtOnce(t) PROVE RetireIsLast'
  <2>1. PICK d \in Client : d = Subject(t)
    BY <1>2, SubjectIsClient DEF StopAtOnce, ClosingPlaces
  <2>2. process'[d] = "dead"
    BY <1>2, <2>1 DEF StopAtOnce, Kill, ClientTypes
  <2>3. Gone(d)'
    BY <2>2 DEF GonePersists
  <2>4. UNCHANGED target /\ \E p : at' = [at EXCEPT ![t] = p]
    BY <1>2 DEF StopAtOnce, Stopped, Goes
  <2> QED BY <2>1, <2>3, <2>4 DEF Subject
<1>3. ASSUME NEW t \in Threads \ {Execute}, StopAsk(t) PROVE RetireIsLast'
  BY <1>3 DEF StopAsk, Subject, Goes
<1>4. ASSUME NEW t \in Threads \ {Execute}, StopEnds(t) PROVE RetireIsLast'
  <2>1. PICK d \in Client : d = Subject(t)
    BY <1>4, SubjectIsClient DEF StopEnds, ClosingPlaces
  <2>2. process'[d] = "dead"
    BY <1>4, <2>1 DEF StopEnds, Kill, ClientTypes
  <2>3. Gone(d)'
    BY <2>2 DEF GonePersists
  <2>4. UNCHANGED target /\ \E p : at' = [at EXCEPT ![t] = p]
    BY <1>4 DEF StopEnds, Stopped, Goes, StopRaises
  <2> QED BY <2>1, <2>3, <2>4 DEF Subject
<1>5. ASSUME NEW t \in Threads \ {Execute}, TakeLane(t) PROVE RetireIsLast'
  <2>1. CASE t[1] = "surface"
    <3>1. t = Surface(t[2]) /\ t[2] \in Client /\ t # Lifecycle
      BY <2>1, Names, OfClients
    <3>2. at[t] = "wait" => Gone(t[2])
      BY <3>1 DEF SurfaceStopsFirst
    <3> QED BY <1>5, <3>1, <3>2 DEF TakeLane, TakeLaneFor, Returned, Goes, Subject
  <2>2. CASE t[1] # "surface"
    BY <1>5, <2>2 DEF TakeLane, TakeLaneFor, Returned, Goes, Subject
  <2> QED BY <2>1, <2>2
<1>6. ASSUME NEW t \in Threads \ {Execute}, CloseSurfaces(t) PROVE RetireIsLast'
  BY <1>6 DEF CloseSurfaces, Subject, Goes
<1>7. ASSUME NEW t \in Threads \ {Execute}, Retire(t) PROVE RetireIsLast'
  BY <1>7 DEF Retire, Subject, Goes, RetireAll, Leave, Returned
<1>8. ASSUME NEW c \in Client, OpAdmit(c) PROVE RetireIsLast'
  BY <1>8 DEF OpAdmit, Goes
<1>9. ASSUME NEW c \in Client, OpLookUp(c) PROVE RetireIsLast'
  BY <1>9 DEF OpLookUp, Goes
<1>10. ASSUME NEW c \in Client, OpBegin(c) PROVE RetireIsLast'
  BY <1>10 DEF OpBegin, Goes
<1>11. ASSUME NEW c \in Client, OpAnswer(c) PROVE RetireIsLast'
  BY <1>11 DEF OpAnswer, Goes
<1>12. ASSUME NEW c \in Client, OpBreak(c) PROVE RetireIsLast'
  BY <1>12 DEF OpBreak, OpBreakLeaving, Goes
<1>13. ASSUME NEW c \in Client, OpInvalid(c) PROVE RetireIsLast'
  BY <1>13 DEF OpInvalid, Goes
<1>14. ASSUME NEW c \in Client, OpError(c) PROVE RetireIsLast'
  BY <1>14 DEF OpError, Goes
<1>15. ASSUME NEW c \in Client, CloseBegin(c) PROVE RetireIsLast'
  BY <1>15 DEF CloseBegin, CloseBeginAt, Goes
<1>16. ASSUME NEW c \in Client, InterruptBegin(c) PROVE RetireIsLast'
  BY <1>16 DEF InterruptBegin, Goes
<1>17. ASSUME NEW c \in Client, InterruptEnds(c) PROVE RetireIsLast'
  BY <1>17 DEF InterruptEnds, Goes, Kill
<1>18. ASSUME NEW c \in Client, SurfaceDies(c) PROVE RetireIsLast'
  BY <1>18 DEF SurfaceDies, Goes
<1>19. ASSUME NEW c \in Client, WorkerDies(c) PROVE RetireIsLast'
  BY <1>19 DEF WorkerDies, Kill
<1>20. ASSUME ExecHandsOff PROVE RetireIsLast'
  BY <1>20 DEF ExecHandsOff, Goes
<1>21. ASSUME ExecClient PROVE RetireIsLast'
  BY <1>21 DEF ExecClient, ExecLeave, Goes, Kill
<1>22. ASSUME StopBegin PROVE RetireIsLast'
  BY <1>22 DEF StopBegin, Goes
<1>23. ASSUME CloseEach PROVE RetireIsLast'
  BY <1>23 DEF CloseEach, Goes
<1>24. ASSUME StopGivesUp PROVE RetireIsLast'
  BY <1>24 DEF StopGivesUp, Rests, Goes
<1>25. ASSUME StopEnters PROVE RetireIsLast'
  BY <1>25 DEF StopEnters, Ends, Rests, EnterTeardown, Goes
<1>26. ASSUME StartEnters PROVE RetireIsLast'
  BY <1>26 DEF StartEnters, EnterTeardown, Goes
<1>27. ASSUME PollFindsDeath \/ ExecFindsDeath PROVE RetireIsLast'
  BY <1>27 DEF PollFindsDeath, ExecFindsDeath, EnterTeardown, Goes
<1>28. ASSUME TeardownSurfaces PROVE RetireIsLast'
  BY <1>28 DEF TeardownSurfaces, TeardownSurfacesOf, Ends, Rests, Goes
<1>29. ASSUME TeardownItem PROVE RetireIsLast'
  BY <1>29 DEF TeardownItem, Goes, Kill
<1>30. ASSUME TeardownStopped PROVE RetireIsLast'
  BY <1>30 DEF TeardownStopped, Goes, Kill
<1>31. ASSUME TeardownEnds PROVE RetireIsLast'
  BY <1>31 DEF TeardownEnds, RetireAll, Ends, Rests, Goes
<1>32. ASSUME KernelOff PROVE RetireIsLast'
  BY <1>32 DEF KernelOff, Ends, Rests, Goes
<1>33. ASSUME KernelStarts PROVE RetireIsLast'
  BY <1>33 DEF KernelStarts, Ends, Rests, Goes
<1>34. ASSUME Activate PROVE RetireIsLast'
  BY <1>34 DEF Activate, Ends, Rests, Goes
<1>35. ASSUME UNCHANGED vars PROVE RetireIsLast'
  BY <1>35 DEF vars
<1>36. ASSUME ExecBegin \/ ExecEnds \/ CompleteTurnsOff \/ InterruptTurnsOff
     PROVE RetireIsLast'
  BY <1>36 DEF ExecBegin, ExecEnds, CompleteTurnsOff, InterruptTurnsOff, TurnsOff, Goes
<1> QED BY <1>1, <1>2, <1>3, <1>4, <1>5, <1>6, <1>7, <1>8, <1>9, <1>10, <1>11, <1>12,
      <1>13, <1>14, <1>15, <1>16, <1>17, <1>18, <1>19, <1>20, <1>21, <1>22, <1>23,
      <1>24, <1>25, <1>26, <1>27, <1>28, <1>29, <1>30, <1>31, <1>32, <1>33, <1>34,
      <1>35, <1>36 DEF Next, Closing, Operation, Teardown

\* A surface that died waits for the lane after the stop.
LEMMA SurfaceStep ==
  ThreadTypes /\ ClientTypes /\ SetTypes /\ Known /\ NoWorkerEscapes /\ GonePersists /\
     SurfaceStopsFirst /\ [Next]_vars => SurfaceStopsFirst'
<1> SUFFICES ASSUME ThreadTypes, ClientTypes, SetTypes, Known, NoWorkerEscapes,
    GonePersists, SurfaceStopsFirst, [Next]_vars PROVE SurfaceStopsFirst'
  OBVIOUS
<1> USE ThreadsThere, Apart, Distinct DEF ThreadTypes, GonePersists, SurfaceStopsFirst,
        kernelVars, clientVars, workerVars, lifecycleVars
<1>1. ASSUME NEW t \in Threads \ {Execute}, StopPop(t) PROVE SurfaceStopsFirst'
  <2>1. PICK d \in Client : d = Subject(t) /\ client[d] # "none"
    BY <1>1, SubjectIsClient DEF StopPop, ClosingPlaces
  <2>2. UNCHANGED target /\ \E p : at' = [at EXCEPT ![t] = p]
                           /\ (p \in {"retire", "wait"} => d \notin workers)
    BY <1>1, <2>1 DEF StopPop, Stopped, Goes
  <2>3. d \notin workers => Gone(d)'
    BY <2>1, AbsentIsGone DEF GonePersists
  <2> QED BY <2>1, <2>2, <2>3, OfClients, Apart DEF Subject
<1>2. ASSUME NEW t \in Threads \ {Execute}, StopAtOnce(t) PROVE SurfaceStopsFirst'
  <2>1. PICK d \in Client : d = Subject(t)
    BY <1>2, SubjectIsClient DEF StopAtOnce, ClosingPlaces
  <2>2. process'[d] = "dead"
    BY <1>2, <2>1 DEF StopAtOnce, Kill, ClientTypes
  <2>3. Gone(d)'
    BY <2>2 DEF GonePersists
  <2>4. UNCHANGED target /\ \E p : at' = [at EXCEPT ![t] = p]
    BY <1>2 DEF StopAtOnce, Stopped, Goes
  <2> QED BY <2>1, <2>3, <2>4, OfClients, Apart DEF Subject
<1>3. ASSUME NEW t \in Threads \ {Execute}, StopAsk(t) PROVE SurfaceStopsFirst'
  BY <1>3 DEF StopAsk, Subject, Goes
<1>4. ASSUME NEW t \in Threads \ {Execute}, StopEnds(t) PROVE SurfaceStopsFirst'
  <2>1. PICK d \in Client : d = Subject(t)
    BY <1>4, SubjectIsClient DEF StopEnds, ClosingPlaces
  <2>2. process'[d] = "dead"
    BY <1>4, <2>1 DEF StopEnds, Kill, ClientTypes
  <2>3. Gone(d)'
    BY <2>2 DEF GonePersists
  <2>4. UNCHANGED target /\ \E p : at' = [at EXCEPT ![t] = p]
    BY <1>4 DEF StopEnds, Stopped, Goes, StopRaises
  <2> QED BY <2>1, <2>3, <2>4, OfClients, Apart DEF Subject
<1>5. ASSUME NEW t \in Threads \ {Execute}, TakeLane(t) PROVE SurfaceStopsFirst'
  BY <1>5 DEF TakeLane, Subject, Goes, TakeLaneFor, Returned
<1>6. ASSUME NEW t \in Threads \ {Execute}, CloseSurfaces(t) PROVE SurfaceStopsFirst'
  BY <1>6 DEF CloseSurfaces, Subject, Goes
<1>7. ASSUME NEW t \in Threads \ {Execute}, Retire(t) PROVE SurfaceStopsFirst'
  BY <1>7 DEF Retire, Subject, Goes, RetireAll, Leave, Returned
<1>8. ASSUME NEW c \in Client, OpAdmit(c) PROVE SurfaceStopsFirst'
  BY <1>8 DEF OpAdmit, Goes
<1>9. ASSUME NEW c \in Client, OpLookUp(c) PROVE SurfaceStopsFirst'
  BY <1>9 DEF OpLookUp, Goes
<1>10. ASSUME NEW c \in Client, OpBegin(c) PROVE SurfaceStopsFirst'
  BY <1>10 DEF OpBegin, Goes
<1>11. ASSUME NEW c \in Client, OpAnswer(c) PROVE SurfaceStopsFirst'
  BY <1>11 DEF OpAnswer, Goes
<1>12. ASSUME NEW c \in Client, OpBreak(c) PROVE SurfaceStopsFirst'
  BY <1>12 DEF OpBreak, OpBreakLeaving, Goes
<1>13. ASSUME NEW c \in Client, OpInvalid(c) PROVE SurfaceStopsFirst'
  BY <1>13 DEF OpInvalid, Goes
<1>14. ASSUME NEW c \in Client, OpError(c) PROVE SurfaceStopsFirst'
  BY <1>14 DEF OpError, Goes
<1>15. ASSUME NEW c \in Client, CloseBegin(c) PROVE SurfaceStopsFirst'
  BY <1>15 DEF CloseBegin, CloseBeginAt, Goes
<1>16. ASSUME NEW c \in Client, InterruptBegin(c) PROVE SurfaceStopsFirst'
  BY <1>16 DEF InterruptBegin, Goes
<1>17. ASSUME NEW c \in Client, InterruptEnds(c) PROVE SurfaceStopsFirst'
  BY <1>17 DEF InterruptEnds, Goes, Kill
<1>18. ASSUME NEW c \in Client, SurfaceDies(c) PROVE SurfaceStopsFirst'
  BY <1>18 DEF SurfaceDies, Goes
<1>19. ASSUME NEW c \in Client, WorkerDies(c) PROVE SurfaceStopsFirst'
  BY <1>19 DEF WorkerDies, Kill
<1>20. ASSUME ExecHandsOff PROVE SurfaceStopsFirst'
  BY <1>20 DEF ExecHandsOff, Goes
<1>21. ASSUME ExecClient PROVE SurfaceStopsFirst'
  BY <1>21 DEF ExecClient, ExecLeave, Goes, Kill
<1>22. ASSUME StopBegin PROVE SurfaceStopsFirst'
  BY <1>22 DEF StopBegin, Goes
<1>23. ASSUME CloseEach PROVE SurfaceStopsFirst'
  BY <1>23 DEF CloseEach, Goes
<1>24. ASSUME StopGivesUp PROVE SurfaceStopsFirst'
  BY <1>24 DEF StopGivesUp, Rests, Goes
<1>25. ASSUME StopEnters PROVE SurfaceStopsFirst'
  BY <1>25 DEF StopEnters, Ends, Rests, EnterTeardown, Goes
<1>26. ASSUME StartEnters PROVE SurfaceStopsFirst'
  BY <1>26 DEF StartEnters, EnterTeardown, Goes
<1>27. ASSUME PollFindsDeath \/ ExecFindsDeath PROVE SurfaceStopsFirst'
  BY <1>27 DEF PollFindsDeath, ExecFindsDeath, EnterTeardown, Goes
<1>28. ASSUME TeardownSurfaces PROVE SurfaceStopsFirst'
  BY <1>28 DEF TeardownSurfaces, TeardownSurfacesOf, Ends, Rests, Goes
<1>29. ASSUME TeardownItem PROVE SurfaceStopsFirst'
  BY <1>29 DEF TeardownItem, Goes, Kill
<1>30. ASSUME TeardownStopped PROVE SurfaceStopsFirst'
  BY <1>30 DEF TeardownStopped, Goes, Kill
<1>31. ASSUME TeardownEnds PROVE SurfaceStopsFirst'
  BY <1>31 DEF TeardownEnds, RetireAll, Ends, Rests, Goes
<1>32. ASSUME KernelOff PROVE SurfaceStopsFirst'
  BY <1>32 DEF KernelOff, Ends, Rests, Goes
<1>33. ASSUME KernelStarts PROVE SurfaceStopsFirst'
  BY <1>33 DEF KernelStarts, Ends, Rests, Goes
<1>34. ASSUME Activate PROVE SurfaceStopsFirst'
  BY <1>34 DEF Activate, Ends, Rests, Goes
<1>35. ASSUME UNCHANGED vars PROVE SurfaceStopsFirst'
  BY <1>35 DEF vars
<1>36. ASSUME ExecBegin \/ ExecEnds \/ CompleteTurnsOff \/ InterruptTurnsOff
     PROVE SurfaceStopsFirst'
  BY <1>36 DEF ExecBegin, ExecEnds, CompleteTurnsOff, InterruptTurnsOff, TurnsOff, Goes
<1> QED BY <1>1, <1>2, <1>3, <1>4, <1>5, <1>6, <1>7, <1>8, <1>9, <1>10, <1>11, <1>12,
      <1>13, <1>14, <1>15, <1>16, <1>17, <1>18, <1>19, <1>20, <1>21, <1>22, <1>23,
      <1>24, <1>25, <1>26, <1>27, <1>28, <1>29, <1>30, <1>31, <1>32, <1>33, <1>34,
      <1>35, <1>36 DEF Next, Closing, Operation, Teardown

\* A client is retired once its worker has gone.
LEMMA RetiredStep ==
  ThreadTypes /\ ClientTypes /\ SetTypes /\ Known /\ NoWorkerEscapes /\ GonePersists /\
     RetireIsLast /\ StoppedIsDead /\ RetiredIsGone /\ [Next]_vars => RetiredIsGone'
<1> SUFFICES ASSUME ThreadTypes, ClientTypes, SetTypes, Known, NoWorkerEscapes,
    GonePersists, RetireIsLast, StoppedIsDead, RetiredIsGone, [Next]_vars PROVE
    RetiredIsGone'
  OBVIOUS
<1> USE DEF ClientTypes, GonePersists, RetiredIsGone, kernelVars, clientVars,
        workerVars, lifecycleVars
<1>1. ASSUME NEW t \in Threads \ {Execute}, Retire(t) PROVE RetiredIsGone'
  <2>1. PICK d \in Client : d = Subject(t)
    BY <1>1, SubjectIsClient DEF Retire, ClosingPlaces
  <2>2. Gone(d)'
    BY <1>1, <2>1 DEF Retire, RetireIsLast, GonePersists
  <2> QED BY <1>1, <2>1, <2>2 DEF Retire, RetireAll
<1>2. ASSUME ExecClient PROVE RetiredIsGone'
  BY <1>2 DEF ExecClient, ExecLeave, Goes, Kill
<1>3. ASSUME TeardownEnds PROVE RetiredIsGone'
  <2>1. \A c \in stopped \cap Client : process'[c] = "dead"
    BY <1>3 DEF TeardownEnds, StoppedIsDead
  <2>2. \A c \in stopped \cap Client : Gone(c)'
    BY <2>1 DEF GonePersists
  <2> QED BY <1>3, <2>2 DEF TeardownEnds, RetireAll
<1>4. ASSUME \/ \E t \in Threads \ {Execute} : StopPop(t)
             \/ \E t \in Threads \ {Execute} : StopAtOnce(t)
             \/ \E t \in Threads \ {Execute} : StopAsk(t)
     PROVE RetiredIsGone'
  BY <1>4 DEF StopPop, Subject, Goes, Stopped, StopAtOnce, Kill, StopAsk
<1>5. ASSUME \/ \E t \in Threads \ {Execute} : StopEnds(t)
             \/ \E t \in Threads \ {Execute} : TakeLane(t)
             \/ \E t \in Threads \ {Execute} : CloseSurfaces(t)
     PROVE RetiredIsGone'
  BY <1>5 DEF StopEnds, Subject, Goes, Stopped, StopRaises, Kill, TakeLane, TakeLaneFor,
      Returned, CloseSurfaces
<1>6. ASSUME \/ \E c \in Client : OpAdmit(c)
             \/ \E c \in Client : OpLookUp(c)
             \/ \E c \in Client : OpBegin(c)
     PROVE RetiredIsGone'
  BY <1>6 DEF OpAdmit, Goes, OpLookUp, OpBegin
<1>7. ASSUME \/ \E c \in Client : OpAnswer(c)
             \/ \E c \in Client : OpBreak(c)
             \/ \E c \in Client : OpInvalid(c)
     PROVE RetiredIsGone'
  BY <1>7 DEF OpAnswer, Goes, OpBreak, OpBreakLeaving, OpInvalid
<1>8. ASSUME \/ \E c \in Client : OpError(c)
             \/ \E c \in Client : CloseBegin(c)
             \/ \E c \in Client : InterruptBegin(c)
     PROVE RetiredIsGone'
  BY <1>8 DEF OpError, Goes, CloseBegin, CloseBeginAt, InterruptBegin
<1>9. ASSUME \/ \E c \in Client : InterruptEnds(c)
             \/ \E c \in Client : SurfaceDies(c)
             \/ \E c \in Client : WorkerDies(c)
     PROVE RetiredIsGone'
  BY <1>9 DEF InterruptEnds, Goes, Kill, SurfaceDies, WorkerDies
<1>10. ASSUME ExecHandsOff \/ StopBegin \/ CloseEach PROVE RetiredIsGone'
  BY <1>10 DEF ExecHandsOff, Goes, StopBegin, CloseEach
<1>11. ASSUME StopGivesUp \/ StopEnters \/ StartEnters PROVE RetiredIsGone'
  BY <1>11 DEF StopGivesUp, Rests, Goes, StopEnters, Ends, EnterTeardown, StartEnters
<1>12. ASSUME PollFindsDeath \/ ExecFindsDeath \/ TeardownSurfaces \/ TeardownItem
     PROVE RetiredIsGone'
  BY <1>12 DEF PollFindsDeath, ExecFindsDeath, EnterTeardown, Goes, TeardownSurfaces,
      TeardownSurfacesOf, Ends, Rests, TeardownItem, Kill
<1>13. ASSUME TeardownStopped \/ KernelOff \/ KernelStarts PROVE RetiredIsGone'
  BY <1>13 DEF TeardownStopped, Goes, Kill, KernelOff, Ends, Rests, KernelStarts
<1>14. ASSUME Activate PROVE RetiredIsGone'
  BY <1>14 DEF Activate, Ends, Rests, Goes
<1>15. ASSUME UNCHANGED vars PROVE RetiredIsGone'
  BY <1>15 DEF vars
<1>16. ASSUME ExecBegin \/ ExecEnds \/ CompleteTurnsOff \/ InterruptTurnsOff
     PROVE RetiredIsGone'
  BY <1>16 DEF ExecBegin, ExecEnds, CompleteTurnsOff, InterruptTurnsOff, TurnsOff, Goes
<1> QED BY <1>1, <1>2, <1>3, <1>4, <1>5, <1>6, <1>7, <1>8, <1>9, <1>10, <1>11, <1>12,
      <1>13, <1>14, <1>15, <1>16 DEF Next, Closing, Operation, Teardown

\* A teardown remembers the workers it has stopped.
LEMMA StoppedStep ==
  ClientTypes /\ DeadStays /\ StoppedIsDead /\ [Next]_vars => StoppedIsDead'
<1> SUFFICES ASSUME ClientTypes, DeadStays, StoppedIsDead, [Next]_vars PROVE StoppedIsDead'
  OBVIOUS
<1> USE DEF ClientTypes, DeadStays, StoppedIsDead, kernelVars, clientVars, workerVars,
        lifecycleVars
<1>1. ASSUME NEW t \in Threads \ {Execute}, StopAtOnce(t) PROVE StoppedIsDead'
  BY <1>1 DEF StopAtOnce, Subject, Goes, Stopped, Kill
<1>2. ASSUME NEW t \in Threads \ {Execute}, StopEnds(t) PROVE StoppedIsDead'
  BY <1>2 DEF StopEnds, Subject, Goes, Stopped, StopRaises, Kill
<1>3. ASSUME NEW c \in Client, OpBreak(c) PROVE StoppedIsDead'
  BY <1>3 DEF OpBreak, OpBreakLeaving, Goes
<1>4. ASSUME NEW c \in Client, InterruptEnds(c) PROVE StoppedIsDead'
  BY <1>4 DEF InterruptEnds, Goes, Kill
<1>5. ASSUME NEW c \in Client, WorkerDies(c) PROVE StoppedIsDead'
  BY <1>5 DEF WorkerDies, Kill
<1>6. ASSUME ExecHandsOff PROVE StoppedIsDead'
  BY <1>6 DEF ExecHandsOff, Goes
<1>7. ASSUME ExecClient PROVE StoppedIsDead'
  BY <1>7 DEF ExecClient, ExecLeave, Goes, Kill
<1>8. ASSUME StopBegin PROVE StoppedIsDead'
  BY <1>8 DEF StopBegin, Goes
<1>9. ASSUME CloseEach PROVE StoppedIsDead'
  BY <1>9 DEF CloseEach, Goes
<1>10. ASSUME StopGivesUp PROVE StoppedIsDead'
  BY <1>10 DEF StopGivesUp, Rests, Goes
<1>11. ASSUME StopEnters PROVE StoppedIsDead'
  BY <1>11 DEF StopEnters, Ends, Rests, EnterTeardown, Goes
<1>12. ASSUME StartEnters PROVE StoppedIsDead'
  BY <1>12 DEF StartEnters, EnterTeardown, Goes
<1>13. ASSUME PollFindsDeath \/ ExecFindsDeath PROVE StoppedIsDead'
  BY <1>13 DEF PollFindsDeath, ExecFindsDeath, EnterTeardown, Goes
<1>14. ASSUME TeardownSurfaces PROVE StoppedIsDead'
  BY <1>14 DEF TeardownSurfaces, TeardownSurfacesOf, Ends, Rests, Goes
<1>15. ASSUME TeardownItem PROVE StoppedIsDead'
  <2>1. PICK d \in todo : stopped' = stopped \/ (stopped' = stopped \cup {d} /\ Kill(d))
    BY <1>15 DEF TeardownItem
  <2> QED BY <2>1 DEF Kill
<1>16. ASSUME TeardownStopped PROVE StoppedIsDead'
  BY <1>16 DEF TeardownStopped, Goes, Kill
<1>17. ASSUME TeardownEnds PROVE StoppedIsDead'
  BY <1>17 DEF TeardownEnds, RetireAll, Ends, Rests, Goes
<1>18. ASSUME KernelOff PROVE StoppedIsDead'
  BY <1>18 DEF KernelOff, Ends, Rests, Goes
<1>19. ASSUME KernelStarts PROVE StoppedIsDead'
  BY <1>19 DEF KernelStarts, Ends, Rests, Goes
<1>20. ASSUME Activate PROVE StoppedIsDead'
  BY <1>20 DEF Activate, Ends, Rests, Goes
<1>21. ASSUME \/ \E t \in Threads \ {Execute} : StopPop(t)
              \/ \E t \in Threads \ {Execute} : StopAsk(t)
              \/ \E t \in Threads \ {Execute} : TakeLane(t)
     PROVE StoppedIsDead'
  BY <1>21 DEF StopPop, Subject, Goes, Stopped, StopAsk, TakeLane, TakeLaneFor, Returned
<1>22. ASSUME \/ \E t \in Threads \ {Execute} : CloseSurfaces(t)
              \/ \E t \in Threads \ {Execute} : Retire(t)
              \/ \E c \in Client : OpAdmit(c)
     PROVE StoppedIsDead'
  BY <1>22 DEF CloseSurfaces, Subject, Goes, Retire, RetireAll, Leave, Returned, OpAdmit
<1>23. ASSUME \/ \E c \in Client : OpLookUp(c)
              \/ \E c \in Client : OpBegin(c)
              \/ \E c \in Client : OpAnswer(c)
     PROVE StoppedIsDead'
  BY <1>23 DEF OpLookUp, Goes, OpBegin, OpAnswer
<1>24. ASSUME \/ \E c \in Client : OpInvalid(c)
              \/ \E c \in Client : OpError(c)
              \/ \E c \in Client : CloseBegin(c)
     PROVE StoppedIsDead'
  BY <1>24 DEF OpInvalid, Goes, OpError, CloseBegin, CloseBeginAt
<1>25. ASSUME \/ \E c \in Client : InterruptBegin(c)
              \/ \E c \in Client : SurfaceDies(c)
     PROVE StoppedIsDead'
  BY <1>25 DEF InterruptBegin, Goes, SurfaceDies
<1>26. ASSUME UNCHANGED vars PROVE StoppedIsDead'
  BY <1>26 DEF vars
<1>27. ASSUME ExecBegin \/ ExecEnds \/ CompleteTurnsOff \/ InterruptTurnsOff
     PROVE StoppedIsDead'
  BY <1>27 DEF ExecBegin, ExecEnds, CompleteTurnsOff, InterruptTurnsOff, TurnsOff, Goes
<1> QED BY <1>1, <1>2, <1>3, <1>4, <1>5, <1>6, <1>7, <1>8, <1>9, <1>10, <1>11, <1>12,
      <1>13, <1>14, <1>15, <1>16, <1>17, <1>18, <1>19, <1>20, <1>21, <1>22, <1>23,
      <1>24, <1>25, <1>26, <1>27 DEF Next, Closing, Operation, Teardown

\* The record of an operation goes with it.
LEMMA RecordedStep ==
  ThreadTypes /\ OperationRecorded /\ [Next]_vars => OperationRecorded'
<1> SUFFICES ASSUME ThreadTypes, OperationRecorded, [Next]_vars PROVE OperationRecorded'
  OBVIOUS
<1> USE ThreadsThere, Apart, Distinct DEF ThreadTypes, OperationRecorded, kernelVars,
        clientVars, workerVars, lifecycleVars
<1>1. ASSUME NEW t \in Threads \ {Execute}, StopPop(t) PROVE OperationRecorded'
  BY <1>1 DEF StopPop, Subject, Goes, Stopped
<1>2. ASSUME NEW t \in Threads \ {Execute}, StopAtOnce(t) PROVE OperationRecorded'
  BY <1>2 DEF StopAtOnce, Subject, Goes, Stopped, Kill
<1>3. ASSUME NEW t \in Threads \ {Execute}, StopAsk(t) PROVE OperationRecorded'
  BY <1>3 DEF StopAsk, Subject, Goes
<1>4. ASSUME NEW t \in Threads \ {Execute}, StopEnds(t) PROVE OperationRecorded'
  BY <1>4 DEF StopEnds, Subject, Goes, Stopped, StopRaises, Kill
<1>5. ASSUME NEW t \in Threads \ {Execute}, TakeLane(t) PROVE OperationRecorded'
  BY <1>5 DEF TakeLane, Subject, Goes, TakeLaneFor, Returned
<1>6. ASSUME NEW t \in Threads \ {Execute}, CloseSurfaces(t) PROVE OperationRecorded'
  BY <1>6 DEF CloseSurfaces, Subject, Goes
<1>7. ASSUME NEW t \in Threads \ {Execute}, Retire(t) PROVE OperationRecorded'
  BY <1>7 DEF Retire, Subject, Goes, RetireAll, Leave, Returned
<1>8. ASSUME NEW c \in Client, OpAdmit(c) PROVE OperationRecorded'
  BY <1>8 DEF OpAdmit, Goes
<1>9. ASSUME NEW c \in Client, OpLookUp(c) PROVE OperationRecorded'
  <2>1. \/ at' = [at EXCEPT ![Op(c)] = "called"] /\ UNCHANGED recorded /\ at[Op(c)] = "admitted"
        \/ at' = [at EXCEPT ![Op(c)] = "idle"] /\ recorded' = recorded \ {c}
    BY <1>9 DEF OpLookUp, Goes
  <2> QED BY <2>1
<1>10. ASSUME NEW c \in Client, OpBegin(c) PROVE OperationRecorded'
  BY <1>10 DEF OpBegin, Goes
<1>11. ASSUME NEW c \in Client, OpAnswer(c) PROVE OperationRecorded'
  BY <1>11 DEF OpAnswer, Goes
<1>12. ASSUME NEW c \in Client, OpBreak(c) PROVE OperationRecorded'
  BY <1>12 DEF OpBreak, OpBreakLeaving, Goes
<1>13. ASSUME NEW c \in Client, OpInvalid(c) PROVE OperationRecorded'
  BY <1>13 DEF OpInvalid, Goes
<1>14. ASSUME NEW c \in Client, OpError(c) PROVE OperationRecorded'
  BY <1>14 DEF OpError, Goes
<1>15. ASSUME NEW c \in Client, CloseBegin(c) PROVE OperationRecorded'
  BY <1>15 DEF CloseBegin, CloseBeginAt, Goes
<1>16. ASSUME NEW c \in Client, InterruptBegin(c) PROVE OperationRecorded'
  BY <1>16 DEF InterruptBegin, Goes
<1>17. ASSUME NEW c \in Client, InterruptEnds(c) PROVE OperationRecorded'
  BY <1>17 DEF InterruptEnds, Goes, Kill
<1>18. ASSUME NEW c \in Client, SurfaceDies(c) PROVE OperationRecorded'
  BY <1>18 DEF SurfaceDies, Goes
<1>19. ASSUME NEW c \in Client, WorkerDies(c) PROVE OperationRecorded'
  BY <1>19 DEF WorkerDies, Kill
<1>20. ASSUME ExecHandsOff PROVE OperationRecorded'
  BY <1>20 DEF ExecHandsOff, Goes
<1>21. ASSUME ExecClient PROVE OperationRecorded'
  BY <1>21 DEF ExecClient, ExecLeave, Goes, Kill
<1>22. ASSUME StopBegin PROVE OperationRecorded'
  BY <1>22 DEF StopBegin, Goes
<1>23. ASSUME CloseEach PROVE OperationRecorded'
  BY <1>23 DEF CloseEach, Goes
<1>24. ASSUME StopGivesUp PROVE OperationRecorded'
  BY <1>24 DEF StopGivesUp, Rests, Goes
<1>25. ASSUME StopEnters PROVE OperationRecorded'
  BY <1>25 DEF StopEnters, Ends, Rests, EnterTeardown, Goes
<1>26. ASSUME StartEnters PROVE OperationRecorded'
  BY <1>26 DEF StartEnters, EnterTeardown, Goes
<1>27. ASSUME PollFindsDeath \/ ExecFindsDeath PROVE OperationRecorded'
  BY <1>27 DEF PollFindsDeath, ExecFindsDeath, EnterTeardown, Goes
<1>28. ASSUME TeardownSurfaces PROVE OperationRecorded'
  BY <1>28 DEF TeardownSurfaces, TeardownSurfacesOf, Ends, Rests, Goes
<1>29. ASSUME TeardownItem PROVE OperationRecorded'
  BY <1>29 DEF TeardownItem, Goes, Kill
<1>30. ASSUME TeardownStopped PROVE OperationRecorded'
  BY <1>30 DEF TeardownStopped, Goes, Kill
<1>31. ASSUME TeardownEnds PROVE OperationRecorded'
  BY <1>31 DEF TeardownEnds, RetireAll, Ends, Rests, Goes
<1>32. ASSUME KernelOff PROVE OperationRecorded'
  BY <1>32 DEF KernelOff, Ends, Rests, Goes
<1>33. ASSUME KernelStarts PROVE OperationRecorded'
  BY <1>33 DEF KernelStarts, Ends, Rests, Goes
<1>34. ASSUME Activate PROVE OperationRecorded'
  BY <1>34 DEF Activate, Ends, Rests, Goes
<1>35. ASSUME UNCHANGED vars PROVE OperationRecorded'
  BY <1>35 DEF vars
<1>36. ASSUME ExecBegin \/ ExecEnds \/ CompleteTurnsOff \/ InterruptTurnsOff
     PROVE OperationRecorded'
  BY <1>36 DEF ExecBegin, ExecEnds, CompleteTurnsOff, InterruptTurnsOff, TurnsOff, Goes
<1> QED BY <1>1, <1>2, <1>3, <1>4, <1>5, <1>6, <1>7, <1>8, <1>9, <1>10, <1>11, <1>12,
      <1>13, <1>14, <1>15, <1>16, <1>17, <1>18, <1>19, <1>20, <1>21, <1>22, <1>23,
      <1>24, <1>25, <1>26, <1>27, <1>28, <1>29, <1>30, <1>31, <1>32, <1>33, <1>34,
      <1>35, <1>36 DEF Next, Closing, Operation, Teardown

\* A fence stays.
LEMMA FencesStep ==
  ThreadTypes /\ CloseFences /\ [Next]_vars => CloseFences'
<1> SUFFICES ASSUME ThreadTypes, CloseFences, [Next]_vars PROVE CloseFences'
  OBVIOUS
<1> USE ThreadsThere, Apart, Distinct DEF ThreadTypes, CloseFences, kernelVars,
        clientVars, workerVars, lifecycleVars
<1>1. ASSUME NEW t \in Threads \ {Execute}, StopPop(t) PROVE CloseFences'
  BY <1>1 DEF StopPop, Subject, Goes, Stopped
<1>2. ASSUME NEW t \in Threads \ {Execute}, StopAtOnce(t) PROVE CloseFences'
  BY <1>2 DEF StopAtOnce, Subject, Goes, Stopped, Kill
<1>3. ASSUME NEW t \in Threads \ {Execute}, StopAsk(t) PROVE CloseFences'
  BY <1>3 DEF StopAsk, Subject, Goes
<1>4. ASSUME NEW t \in Threads \ {Execute}, StopEnds(t) PROVE CloseFences'
  BY <1>4 DEF StopEnds, Subject, Goes, Stopped, StopRaises, Kill
<1>5. ASSUME NEW t \in Threads \ {Execute}, TakeLane(t) PROVE CloseFences'
  BY <1>5 DEF TakeLane, Subject, Goes, TakeLaneFor, Returned
<1>6. ASSUME NEW t \in Threads \ {Execute}, CloseSurfaces(t) PROVE CloseFences'
  BY <1>6 DEF CloseSurfaces, Subject, Goes
<1>7. ASSUME NEW t \in Threads \ {Execute}, Retire(t) PROVE CloseFences'
  BY <1>7 DEF Retire, Subject, Goes, RetireAll, Leave, Returned
<1>8. ASSUME NEW c \in Client, OpAdmit(c) PROVE CloseFences'
  BY <1>8 DEF OpAdmit, Goes
<1>9. ASSUME NEW c \in Client, OpLookUp(c) PROVE CloseFences'
  BY <1>9 DEF OpLookUp, Goes
<1>10. ASSUME NEW c \in Client, OpBegin(c) PROVE CloseFences'
  BY <1>10 DEF OpBegin, Goes
<1>11. ASSUME NEW c \in Client, OpAnswer(c) PROVE CloseFences'
  BY <1>11 DEF OpAnswer, Goes
<1>12. ASSUME NEW c \in Client, OpBreak(c) PROVE CloseFences'
  BY <1>12 DEF OpBreak, OpBreakLeaving, Goes
<1>13. ASSUME NEW c \in Client, OpInvalid(c) PROVE CloseFences'
  BY <1>13 DEF OpInvalid, Goes
<1>14. ASSUME NEW c \in Client, OpError(c) PROVE CloseFences'
  BY <1>14 DEF OpError, Goes
<1>15. ASSUME NEW c \in Client, CloseBegin(c) PROVE CloseFences'
  BY <1>15 DEF CloseBegin, CloseBeginAt, Goes
<1>16. ASSUME NEW c \in Client, InterruptBegin(c) PROVE CloseFences'
  BY <1>16 DEF InterruptBegin, Goes
<1>17. ASSUME NEW c \in Client, InterruptEnds(c) PROVE CloseFences'
  BY <1>17 DEF InterruptEnds, Goes, Kill
<1>18. ASSUME NEW c \in Client, SurfaceDies(c) PROVE CloseFences'
  BY <1>18 DEF SurfaceDies, Goes
<1>19. ASSUME NEW c \in Client, WorkerDies(c) PROVE CloseFences'
  BY <1>19 DEF WorkerDies, Kill
<1>20. ASSUME ExecHandsOff PROVE CloseFences'
  BY <1>20 DEF ExecHandsOff, Goes
<1>21. ASSUME ExecClient PROVE CloseFences'
  BY <1>21 DEF ExecClient, ExecLeave, Goes, Kill
<1>22. ASSUME StopBegin PROVE CloseFences'
  BY <1>22 DEF StopBegin, Goes
<1>23. ASSUME CloseEach PROVE CloseFences'
  BY <1>23 DEF CloseEach, Goes
<1>24. ASSUME StopGivesUp PROVE CloseFences'
  BY <1>24 DEF StopGivesUp, Rests, Goes
<1>25. ASSUME StopEnters PROVE CloseFences'
  BY <1>25 DEF StopEnters, Ends, Rests, EnterTeardown, Goes
<1>26. ASSUME StartEnters PROVE CloseFences'
  BY <1>26 DEF StartEnters, EnterTeardown, Goes
<1>27. ASSUME PollFindsDeath \/ ExecFindsDeath PROVE CloseFences'
  BY <1>27 DEF PollFindsDeath, ExecFindsDeath, EnterTeardown, Goes
<1>28. ASSUME TeardownSurfaces PROVE CloseFences'
  BY <1>28 DEF TeardownSurfaces, TeardownSurfacesOf, Ends, Rests, Goes
<1>29. ASSUME TeardownItem PROVE CloseFences'
  BY <1>29 DEF TeardownItem, Goes, Kill
<1>30. ASSUME TeardownStopped PROVE CloseFences'
  BY <1>30 DEF TeardownStopped, Goes, Kill
<1>31. ASSUME TeardownEnds PROVE CloseFences'
  BY <1>31 DEF TeardownEnds, RetireAll, Ends, Rests, Goes
<1>32. ASSUME KernelOff PROVE CloseFences'
  BY <1>32 DEF KernelOff, Ends, Rests, Goes
<1>33. ASSUME KernelStarts PROVE CloseFences'
  BY <1>33 DEF KernelStarts, Ends, Rests, Goes
<1>34. ASSUME Activate PROVE CloseFences'
  BY <1>34 DEF Activate, Ends, Rests, Goes
<1>35. ASSUME UNCHANGED vars PROVE CloseFences'
  BY <1>35 DEF vars
<1>36. ASSUME ExecBegin \/ ExecEnds \/ CompleteTurnsOff \/ InterruptTurnsOff
     PROVE CloseFences'
  BY <1>36 DEF ExecBegin, ExecEnds, CompleteTurnsOff, InterruptTurnsOff, TurnsOff, Goes
<1> QED BY <1>1, <1>2, <1>3, <1>4, <1>5, <1>6, <1>7, <1>8, <1>9, <1>10, <1>11, <1>12,
      <1>13, <1>14, <1>15, <1>16, <1>17, <1>18, <1>19, <1>20, <1>21, <1>22, <1>23,
      <1>24, <1>25, <1>26, <1>27, <1>28, <1>29, <1>30, <1>31, <1>32, <1>33, <1>34,
      <1>35, <1>36 DEF Next, Closing, Operation, Teardown

\* A close waits with the operation cut off, or none.
LEMMA CutsStep ==
  ThreadTypes /\ ClientTypes /\ SetTypes /\ Known /\ NoWorkerEscapes /\ GonePersists /\
     CloseFences /\ CloseCutsFirst /\ [Next]_vars => CloseCutsFirst'
<1> SUFFICES ASSUME ThreadTypes, ClientTypes, SetTypes, Known, NoWorkerEscapes,
    GonePersists, CloseFences, CloseCutsFirst, [Next]_vars PROVE CloseCutsFirst'
  OBVIOUS
<1> USE ThreadsThere, Apart, Distinct DEF ThreadTypes, GonePersists, CloseFences,
        CloseCutsFirst, kernelVars, clientVars, workerVars, lifecycleVars
<1>1. ASSUME NEW t \in Threads \ {Execute}, StopPop(t) PROVE CloseCutsFirst'
  <2>1. PICK d \in Client : d = Subject(t) /\ client[d] # "none"
    BY <1>1, SubjectIsClient DEF StopPop, ClosingPlaces
  <2>2. UNCHANGED <<target, recorded>> /\ \E p : at' = [at EXCEPT ![t] = p]
                           /\ (p \in {"retire", "wait"} => d \notin workers)
    BY <1>1, <2>1 DEF StopPop, Stopped, Goes
  <2>3. d \notin workers => Gone(d)'
    BY <2>1, AbsentIsGone DEF GonePersists
  <2> QED BY <2>1, <2>2, <2>3, OfClients, Apart DEF Subject
<1>2. ASSUME NEW t \in Threads \ {Execute}, StopAtOnce(t) PROVE CloseCutsFirst'
  <2>1. PICK d \in Client : d = Subject(t)
    BY <1>2, SubjectIsClient DEF StopAtOnce, ClosingPlaces
  <2>2. process'[d] = "dead"
    BY <1>2, <2>1 DEF StopAtOnce, Kill, ClientTypes
  <2>3. Gone(d)'
    BY <2>2 DEF GonePersists
  <2>4. UNCHANGED <<target, recorded>> /\ \E p : at' = [at EXCEPT ![t] = p]
    BY <1>2 DEF StopAtOnce, Stopped, Goes
  <2> QED BY <2>1, <2>3, <2>4, OfClients, Apart DEF Subject
<1>3. ASSUME NEW t \in Threads \ {Execute}, StopAsk(t) PROVE CloseCutsFirst'
  BY <1>3 DEF StopAsk, Subject, Goes
<1>4. ASSUME NEW t \in Threads \ {Execute}, StopEnds(t) PROVE CloseCutsFirst'
  <2>1. PICK d \in Client : d = Subject(t)
    BY <1>4, SubjectIsClient DEF StopEnds, ClosingPlaces
  <2>2. process'[d] = "dead"
    BY <1>4, <2>1 DEF StopEnds, Kill, ClientTypes
  <2>3. Gone(d)'
    BY <2>2 DEF GonePersists
  <2>4. UNCHANGED <<target, recorded>> /\ \E p : at' = [at EXCEPT ![t] = p]
    BY <1>4 DEF StopEnds, Stopped, Goes, StopRaises
  <2> QED BY <2>1, <2>3, <2>4, OfClients, Apart DEF Subject
<1>5. ASSUME NEW t \in Threads \ {Execute}, TakeLane(t) PROVE CloseCutsFirst'
  BY <1>5 DEF TakeLane, Subject, Goes, TakeLaneFor, Returned
<1>6. ASSUME NEW t \in Threads \ {Execute}, CloseSurfaces(t) PROVE CloseCutsFirst'
  BY <1>6 DEF CloseSurfaces, Subject, Goes
<1>7. ASSUME NEW t \in Threads \ {Execute}, Retire(t) PROVE CloseCutsFirst'
  BY <1>7 DEF Retire, Subject, Goes, RetireAll, Leave, Returned
<1>8. ASSUME NEW c \in Client, OpAdmit(c) PROVE CloseCutsFirst'
  BY <1>8 DEF OpAdmit, Goes
<1>9. ASSUME NEW c \in Client, OpLookUp(c) PROVE CloseCutsFirst'
  BY <1>9 DEF OpLookUp, Goes
<1>10. ASSUME NEW c \in Client, OpBegin(c) PROVE CloseCutsFirst'
  BY <1>10 DEF OpBegin, Goes
<1>11. ASSUME NEW c \in Client, OpAnswer(c) PROVE CloseCutsFirst'
  BY <1>11 DEF OpAnswer, Goes
<1>12. ASSUME NEW c \in Client, OpBreak(c) PROVE CloseCutsFirst'
  BY <1>12 DEF OpBreak, OpBreakLeaving, Goes
<1>13. ASSUME NEW c \in Client, OpInvalid(c) PROVE CloseCutsFirst'
  BY <1>13 DEF OpInvalid, Goes
<1>14. ASSUME NEW c \in Client, OpError(c) PROVE CloseCutsFirst'
  BY <1>14 DEF OpError, Goes
<1>15. ASSUME NEW c \in Client, CloseBegin(c) PROVE CloseCutsFirst'
  BY <1>15 DEF CloseBegin, CloseBeginAt, Goes
<1>16. ASSUME NEW c \in Client, InterruptBegin(c) PROVE CloseCutsFirst'
  BY <1>16 DEF InterruptBegin, Goes
<1>17. ASSUME NEW c \in Client, InterruptEnds(c) PROVE CloseCutsFirst'
  BY <1>17 DEF InterruptEnds, Goes, Kill
<1>18. ASSUME NEW c \in Client, SurfaceDies(c) PROVE CloseCutsFirst'
  BY <1>18 DEF SurfaceDies, Goes
<1>19. ASSUME NEW c \in Client, WorkerDies(c) PROVE CloseCutsFirst'
  BY <1>19 DEF WorkerDies, Kill
<1>20. ASSUME ExecHandsOff PROVE CloseCutsFirst'
  BY <1>20 DEF ExecHandsOff, Goes
<1>21. ASSUME ExecClient PROVE CloseCutsFirst'
  BY <1>21 DEF ExecClient, ExecLeave, Goes, Kill
<1>22. ASSUME StopBegin PROVE CloseCutsFirst'
  BY <1>22 DEF StopBegin, Goes
<1>23. ASSUME CloseEach PROVE CloseCutsFirst'
  BY <1>23 DEF CloseEach, Goes
<1>24. ASSUME StopGivesUp PROVE CloseCutsFirst'
  BY <1>24 DEF StopGivesUp, Rests, Goes
<1>25. ASSUME StopEnters PROVE CloseCutsFirst'
  BY <1>25 DEF StopEnters, Ends, Rests, EnterTeardown, Goes
<1>26. ASSUME StartEnters PROVE CloseCutsFirst'
  BY <1>26 DEF StartEnters, EnterTeardown, Goes
<1>27. ASSUME PollFindsDeath \/ ExecFindsDeath PROVE CloseCutsFirst'
  BY <1>27 DEF PollFindsDeath, ExecFindsDeath, EnterTeardown, Goes
<1>28. ASSUME TeardownSurfaces PROVE CloseCutsFirst'
  BY <1>28 DEF TeardownSurfaces, TeardownSurfacesOf, Ends, Rests, Goes
<1>29. ASSUME TeardownItem PROVE CloseCutsFirst'
  BY <1>29 DEF TeardownItem, Goes, Kill
<1>30. ASSUME TeardownStopped PROVE CloseCutsFirst'
  BY <1>30 DEF TeardownStopped, Goes, Kill
<1>31. ASSUME TeardownEnds PROVE CloseCutsFirst'
  BY <1>31 DEF TeardownEnds, RetireAll, Ends, Rests, Goes
<1>32. ASSUME KernelOff PROVE CloseCutsFirst'
  BY <1>32 DEF KernelOff, Ends, Rests, Goes
<1>33. ASSUME KernelStarts PROVE CloseCutsFirst'
  BY <1>33 DEF KernelStarts, Ends, Rests, Goes
<1>34. ASSUME Activate PROVE CloseCutsFirst'
  BY <1>34 DEF Activate, Ends, Rests, Goes
<1>35. ASSUME UNCHANGED vars PROVE CloseCutsFirst'
  BY <1>35 DEF vars
<1>36. ASSUME ExecBegin \/ ExecEnds \/ CompleteTurnsOff \/ InterruptTurnsOff
     PROVE CloseCutsFirst'
  BY <1>36 DEF ExecBegin, ExecEnds, CompleteTurnsOff, InterruptTurnsOff, TurnsOff, Goes
<1> QED BY <1>1, <1>2, <1>3, <1>4, <1>5, <1>6, <1>7, <1>8, <1>9, <1>10, <1>11, <1>12,
      <1>13, <1>14, <1>15, <1>16, <1>17, <1>18, <1>19, <1>20, <1>21, <1>22, <1>23,
      <1>24, <1>25, <1>26, <1>27, <1>28, <1>29, <1>30, <1>31, <1>32, <1>33, <1>34,
      <1>35, <1>36 DEF Next, Closing, Operation, Teardown

\* The lane is held by one.
LEMMA LaneStep ==
  ThreadTypes /\ LaneHeld /\ [Next]_vars => LaneHeld'
<1> SUFFICES ASSUME ThreadTypes, LaneHeld, [Next]_vars PROVE LaneHeld'
  OBVIOUS
<1> USE ThreadsThere, Apart, NobodyIsNoThread DEF ThreadTypes, LaneHeld, TeardownPlaces,
        kernelVars, clientVars, workerVars, lifecycleVars
<1>1. ASSUME NEW t \in Threads \ {Execute}, StopPop(t) PROVE LaneHeld'
  BY <1>1 DEF StopPop, Subject, Goes, Stopped
<1>2. ASSUME NEW t \in Threads \ {Execute}, StopAtOnce(t) PROVE LaneHeld'
  BY <1>2 DEF StopAtOnce, Subject, Goes, Stopped, Kill
<1>3. ASSUME NEW t \in Threads \ {Execute}, StopAsk(t) PROVE LaneHeld'
  BY <1>3 DEF StopAsk, Subject, Goes
<1>4. ASSUME NEW t \in Threads \ {Execute}, StopEnds(t) PROVE LaneHeld'
  BY <1>4 DEF StopEnds, Subject, Goes, Stopped, StopRaises, Kill
<1>5. ASSUME NEW t \in Threads \ {Execute}, TakeLane(t) PROVE LaneHeld'
  BY <1>5 DEF TakeLane, Subject, Goes, TakeLaneFor, Returned
<1>6. ASSUME NEW t \in Threads \ {Execute}, CloseSurfaces(t) PROVE LaneHeld'
  <2>1. at[t] = "surfaces" /\ lane = t
    BY <1>6 DEF CloseSurfaces
  <2>2. \/ UNCHANGED lane /\ at' = [at EXCEPT ![t] = "pop"]
        \/ at' = [at EXCEPT ![t] = "idle"]
    BY <1>6 DEF CloseSurfaces, Goes
  <2> QED BY <2>1, <2>2
<1>7. ASSUME NEW t \in Threads \ {Execute}, Retire(t) PROVE LaneHeld'
  BY <1>7 DEF Retire, Subject, Goes, RetireAll, Leave, Returned
<1>8. ASSUME NEW c \in Client, OpAdmit(c) PROVE LaneHeld'
  BY <1>8 DEF OpAdmit, Goes
<1>9. ASSUME NEW c \in Client, OpLookUp(c) PROVE LaneHeld'
  BY <1>9 DEF OpLookUp, Goes
<1>10. ASSUME NEW c \in Client, OpBegin(c) PROVE LaneHeld'
  BY <1>10 DEF OpBegin, Goes
<1>11. ASSUME NEW c \in Client, OpAnswer(c) PROVE LaneHeld'
  BY <1>11 DEF OpAnswer, Goes
<1>12. ASSUME NEW c \in Client, OpBreak(c) PROVE LaneHeld'
  BY <1>12 DEF OpBreak, OpBreakLeaving, Goes
<1>13. ASSUME NEW c \in Client, OpInvalid(c) PROVE LaneHeld'
  BY <1>13 DEF OpInvalid, Goes
<1>14. ASSUME NEW c \in Client, OpError(c) PROVE LaneHeld'
  BY <1>14 DEF OpError, Goes
<1>15. ASSUME NEW c \in Client, CloseBegin(c) PROVE LaneHeld'
  BY <1>15 DEF CloseBegin, CloseBeginAt, Goes
<1>16. ASSUME NEW c \in Client, InterruptBegin(c) PROVE LaneHeld'
  BY <1>16 DEF InterruptBegin, Goes
<1>17. ASSUME NEW c \in Client, InterruptEnds(c) PROVE LaneHeld'
  BY <1>17 DEF InterruptEnds, Goes, Kill
<1>18. ASSUME NEW c \in Client, SurfaceDies(c) PROVE LaneHeld'
  BY <1>18 DEF SurfaceDies, Goes
<1>19. ASSUME NEW c \in Client, WorkerDies(c) PROVE LaneHeld'
  BY <1>19 DEF WorkerDies, Kill
<1>20. ASSUME ExecHandsOff PROVE LaneHeld'
  BY <1>20 DEF ExecHandsOff, Goes
<1>21. ASSUME ExecClient PROVE LaneHeld'
  BY <1>21 DEF ExecClient, ExecLeave, Goes, Kill
<1>22. ASSUME StopBegin PROVE LaneHeld'
  BY <1>22 DEF StopBegin, Goes
<1>23. ASSUME CloseEach PROVE LaneHeld'
  BY <1>23 DEF CloseEach, Goes
<1>24. ASSUME StopGivesUp PROVE LaneHeld'
  BY <1>24 DEF StopGivesUp, Rests, Goes
<1>25. ASSUME StopEnters PROVE LaneHeld'
  BY <1>25 DEF StopEnters, Ends, Rests, EnterTeardown, Goes
<1>26. ASSUME StartEnters PROVE LaneHeld'
  BY <1>26 DEF StartEnters, EnterTeardown, Goes
<1>27. ASSUME PollFindsDeath \/ ExecFindsDeath PROVE LaneHeld'
  BY <1>27 DEF PollFindsDeath, ExecFindsDeath, EnterTeardown, Goes
<1>28. ASSUME TeardownSurfaces PROVE LaneHeld'
  BY <1>28 DEF TeardownSurfaces, TeardownSurfacesOf, Ends, Rests, Goes
<1>29. ASSUME TeardownItem PROVE LaneHeld'
  BY <1>29 DEF TeardownItem, Goes, Kill
<1>30. ASSUME TeardownStopped PROVE LaneHeld'
  BY <1>30 DEF TeardownStopped, Goes, Kill
<1>31. ASSUME TeardownEnds PROVE LaneHeld'
  BY <1>31 DEF TeardownEnds, RetireAll, Ends, Rests, Goes
<1>32. ASSUME KernelOff PROVE LaneHeld'
  BY <1>32 DEF KernelOff, Ends, Rests, Goes
<1>33. ASSUME KernelStarts PROVE LaneHeld'
  BY <1>33 DEF KernelStarts, Ends, Rests, Goes
<1>34. ASSUME Activate PROVE LaneHeld'
  BY <1>34 DEF Activate, Ends, Rests, Goes
<1>35. ASSUME UNCHANGED vars PROVE LaneHeld'
  BY <1>35 DEF vars
<1>36. ASSUME ExecBegin \/ ExecEnds \/ CompleteTurnsOff \/ InterruptTurnsOff
     PROVE LaneHeld'
  BY <1>36 DEF ExecBegin, ExecEnds, CompleteTurnsOff, InterruptTurnsOff, TurnsOff, Goes
<1> QED BY <1>1, <1>2, <1>3, <1>4, <1>5, <1>6, <1>7, <1>8, <1>9, <1>10, <1>11, <1>12,
      <1>13, <1>14, <1>15, <1>16, <1>17, <1>18, <1>19, <1>20, <1>21, <1>22, <1>23,
      <1>24, <1>25, <1>26, <1>27, <1>28, <1>29, <1>30, <1>31, <1>32, <1>33, <1>34,
      <1>35, <1>36 DEF Next, Closing, Operation, Teardown

\* A kernel has a number that is not 0.
LEMMA NextKernel == KernelTypes => kernel + 1 # 0
  BY BoundsAssumption DEF KernelTypes

\* A worker is let loose by an execution only.
LooseShrinks == \A c \in Client : Loose(c)' => Loose(c)

\* A stop that fails puts back a dead worker.
LEMMA LooseStep ==
  ClientTypes /\ Known /\ [Next]_vars => ExecHandsOff \/ LooseShrinks
<1> SUFFICES ASSUME ClientTypes, Known, [Next]_vars PROVE ExecHandsOff \/ LooseShrinks
  OBVIOUS
<1> USE DEF ClientTypes, LooseShrinks, Loose, kernelVars, clientVars, workerVars,
        lifecycleVars
<1>1. ASSUME NEW t \in Threads \ {Execute}, StopPop(t) PROVE ExecHandsOff \/ LooseShrinks
  BY <1>1 DEF StopPop, Subject, Goes, Stopped
<1>2. ASSUME NEW t \in Threads \ {Execute}, StopAtOnce(t) PROVE ExecHandsOff \/ LooseShrinks
  BY <1>2 DEF StopAtOnce, Subject, Goes, Stopped, Kill
<1>3. ASSUME NEW t \in Threads \ {Execute}, StopAsk(t) PROVE ExecHandsOff \/ LooseShrinks
  BY <1>3 DEF StopAsk, Subject, Goes
<1>4. ASSUME NEW t \in Threads \ {Execute}, StopEnds(t) PROVE ExecHandsOff \/ LooseShrinks
  <2>1. PICK d \in Client : d = Subject(t)
    BY <1>4, SubjectIsClient DEF StopEnds, ClosingPlaces
  <2> QED BY <1>4, <2>1 DEF StopEnds, Kill
<1>5. ASSUME NEW t \in Threads \ {Execute}, TakeLane(t) PROVE ExecHandsOff \/ LooseShrinks
  BY <1>5 DEF TakeLane, Subject, Goes, TakeLaneFor, Returned
<1>6. ASSUME NEW t \in Threads \ {Execute}, CloseSurfaces(t) PROVE ExecHandsOff \/ LooseShrinks
  BY <1>6 DEF CloseSurfaces, Subject, Goes
<1>7. ASSUME NEW t \in Threads \ {Execute}, Retire(t) PROVE ExecHandsOff \/ LooseShrinks
  BY <1>7 DEF Retire, Subject, Goes, RetireAll, Leave, Returned
<1>8. ASSUME NEW c \in Client, OpAdmit(c) PROVE ExecHandsOff \/ LooseShrinks
  BY <1>8 DEF OpAdmit, Goes
<1>9. ASSUME NEW c \in Client, OpLookUp(c) PROVE ExecHandsOff \/ LooseShrinks
  BY <1>9 DEF OpLookUp, Goes
<1>10. ASSUME NEW c \in Client, OpBegin(c) PROVE ExecHandsOff \/ LooseShrinks
  BY <1>10 DEF OpBegin, Goes
<1>11. ASSUME NEW c \in Client, OpAnswer(c) PROVE ExecHandsOff \/ LooseShrinks
  BY <1>11 DEF OpAnswer, Goes
<1>12. ASSUME NEW c \in Client, OpBreak(c) PROVE ExecHandsOff \/ LooseShrinks
  BY <1>12 DEF OpBreak, OpBreakLeaving, Goes
<1>13. ASSUME NEW c \in Client, OpInvalid(c) PROVE ExecHandsOff \/ LooseShrinks
  BY <1>13 DEF OpInvalid, Goes
<1>14. ASSUME NEW c \in Client, OpError(c) PROVE ExecHandsOff \/ LooseShrinks
  BY <1>14 DEF OpError, Goes
<1>15. ASSUME NEW c \in Client, CloseBegin(c) PROVE ExecHandsOff \/ LooseShrinks
  BY <1>15 DEF CloseBegin, CloseBeginAt, Goes
<1>16. ASSUME NEW c \in Client, InterruptBegin(c) PROVE ExecHandsOff \/ LooseShrinks
  BY <1>16 DEF InterruptBegin, Goes
<1>17. ASSUME NEW c \in Client, InterruptEnds(c) PROVE ExecHandsOff \/ LooseShrinks
  BY <1>17 DEF InterruptEnds, Goes, Kill
<1>18. ASSUME NEW c \in Client, SurfaceDies(c) PROVE ExecHandsOff \/ LooseShrinks
  BY <1>18 DEF SurfaceDies, Goes
<1>19. ASSUME NEW c \in Client, WorkerDies(c) PROVE ExecHandsOff \/ LooseShrinks
  BY <1>19 DEF WorkerDies, Kill
<1>20. ASSUME ExecHandsOff PROVE ExecHandsOff \/ LooseShrinks
  BY <1>20 DEF ExecHandsOff, Goes
<1>21. ASSUME ExecClient PROVE ExecHandsOff \/ LooseShrinks
  BY <1>21 DEF ExecClient, ExecLeave, Goes, Kill
<1>22. ASSUME StopBegin PROVE ExecHandsOff \/ LooseShrinks
  BY <1>22 DEF StopBegin, Goes
<1>23. ASSUME CloseEach PROVE ExecHandsOff \/ LooseShrinks
  BY <1>23 DEF CloseEach, Goes
<1>24. ASSUME StopGivesUp PROVE ExecHandsOff \/ LooseShrinks
  BY <1>24 DEF StopGivesUp, Rests, Goes
<1>25. ASSUME StopEnters PROVE ExecHandsOff \/ LooseShrinks
  BY <1>25 DEF StopEnters, Ends, Rests, EnterTeardown, Goes
<1>26. ASSUME StartEnters PROVE ExecHandsOff \/ LooseShrinks
  BY <1>26 DEF StartEnters, EnterTeardown, Goes
<1>27. ASSUME PollFindsDeath \/ ExecFindsDeath PROVE ExecHandsOff \/ LooseShrinks
  BY <1>27 DEF PollFindsDeath, ExecFindsDeath, EnterTeardown, Goes
<1>28. ASSUME TeardownSurfaces PROVE ExecHandsOff \/ LooseShrinks
  BY <1>28 DEF TeardownSurfaces, TeardownSurfacesOf, Ends, Rests, Goes
<1>29. ASSUME TeardownItem PROVE ExecHandsOff \/ LooseShrinks
  BY <1>29 DEF TeardownItem, Goes, Kill
<1>30. ASSUME TeardownStopped PROVE ExecHandsOff \/ LooseShrinks
  BY <1>30 DEF TeardownStopped, Goes, Kill
<1>31. ASSUME TeardownEnds PROVE ExecHandsOff \/ LooseShrinks
  BY <1>31 DEF TeardownEnds, RetireAll, Ends, Rests, Goes
<1>32. ASSUME KernelOff PROVE ExecHandsOff \/ LooseShrinks
  BY <1>32 DEF KernelOff, Ends, Rests, Goes
<1>33. ASSUME KernelStarts PROVE ExecHandsOff \/ LooseShrinks
  BY <1>33 DEF KernelStarts, Ends, Rests, Goes
<1>34. ASSUME Activate PROVE ExecHandsOff \/ LooseShrinks
  BY <1>34 DEF Activate, Ends, Rests, Goes
<1>35. ASSUME UNCHANGED vars PROVE ExecHandsOff \/ LooseShrinks
  BY <1>35 DEF vars
<1>36. ASSUME ExecBegin \/ ExecEnds \/ CompleteTurnsOff \/ InterruptTurnsOff
     PROVE ExecHandsOff \/ LooseShrinks
  BY <1>36 DEF ExecBegin, ExecEnds, CompleteTurnsOff, InterruptTurnsOff, TurnsOff, Goes
<1> QED BY <1>1, <1>2, <1>3, <1>4, <1>5, <1>6, <1>7, <1>8, <1>9, <1>10, <1>11, <1>12,
      <1>13, <1>14, <1>15, <1>16, <1>17, <1>18, <1>19, <1>20, <1>21, <1>22, <1>23,
      <1>24, <1>25, <1>26, <1>27, <1>28, <1>29, <1>30, <1>31, <1>32, <1>33, <1>34,
      <1>35, <1>36 DEF Next, Closing, Operation, Teardown

\* A teardown sees to every worker.
LEMMA ReachesStep ==
  KernelTypes /\ ThreadTypes /\ ClientTypes /\ SetTypes /\ Known /\ LaneHeld /\
     LooseShrinks /\ TeardownReachesAll /\ [Next]_vars => TeardownReachesAll'
<1> SUFFICES ASSUME KernelTypes, ThreadTypes, ClientTypes, SetTypes, Known, LaneHeld,
    LooseShrinks, TeardownReachesAll, [Next]_vars PROVE TeardownReachesAll'
  OBVIOUS
<1> USE ThreadsThere, Apart DEF KernelTypes, ThreadTypes, TeardownPlaces,
        TeardownReachesAll, LooseShrinks, NoneLoose, Strict, kernelVars, clientVars,
        workerVars, lifecycleVars
<1>0. at[Lifecycle] \in TeardownPlaces => at[Execute] # "executing"
  BY DEF LaneHeld
<1>1. ASSUME NEW t \in Threads \ {Execute}, StopPop(t) PROVE TeardownReachesAll'
  BY <1>1 DEF StopPop, Subject, Goes, Stopped
<1>2. ASSUME NEW t \in Threads \ {Execute}, StopAtOnce(t) PROVE TeardownReachesAll'
  BY <1>2 DEF StopAtOnce, Subject, Goes, Stopped, Kill
<1>3. ASSUME NEW t \in Threads \ {Execute}, StopAsk(t) PROVE TeardownReachesAll'
  BY <1>3 DEF StopAsk, Subject, Goes
<1>4. ASSUME NEW t \in Threads \ {Execute}, StopEnds(t) PROVE TeardownReachesAll'
  BY <1>4 DEF StopEnds, Subject, Goes, Stopped, StopRaises, Kill
<1>5. ASSUME NEW t \in Threads \ {Execute}, TakeLane(t) PROVE TeardownReachesAll'
  BY <1>5 DEF TakeLane, Subject, Goes, TakeLaneFor, Returned
<1>6. ASSUME NEW t \in Threads \ {Execute}, CloseSurfaces(t) PROVE TeardownReachesAll'
  BY <1>6 DEF CloseSurfaces, Subject, Goes
<1>7. ASSUME NEW t \in Threads \ {Execute}, Retire(t) PROVE TeardownReachesAll'
  BY <1>7 DEF Retire, Subject, Goes, RetireAll, Leave, Returned
<1>8. ASSUME NEW c \in Client, OpAdmit(c) PROVE TeardownReachesAll'
  BY <1>8 DEF OpAdmit, Goes
<1>9. ASSUME NEW c \in Client, OpLookUp(c) PROVE TeardownReachesAll'
  BY <1>9 DEF OpLookUp, Goes
<1>10. ASSUME NEW c \in Client, OpBegin(c) PROVE TeardownReachesAll'
  BY <1>10 DEF OpBegin, Goes
<1>11. ASSUME NEW c \in Client, OpAnswer(c) PROVE TeardownReachesAll'
  BY <1>11 DEF OpAnswer, Goes
<1>12. ASSUME NEW c \in Client, OpBreak(c) PROVE TeardownReachesAll'
  BY <1>12 DEF OpBreak, OpBreakLeaving, Goes
<1>13. ASSUME NEW c \in Client, OpInvalid(c) PROVE TeardownReachesAll'
  BY <1>13 DEF OpInvalid, Goes
<1>14. ASSUME NEW c \in Client, OpError(c) PROVE TeardownReachesAll'
  BY <1>14 DEF OpError, Goes
<1>15. ASSUME NEW c \in Client, CloseBegin(c) PROVE TeardownReachesAll'
  BY <1>15 DEF CloseBegin, CloseBeginAt, Goes
<1>16. ASSUME NEW c \in Client, InterruptBegin(c) PROVE TeardownReachesAll'
  BY <1>16 DEF InterruptBegin, Goes
<1>17. ASSUME NEW c \in Client, InterruptEnds(c) PROVE TeardownReachesAll'
  BY <1>17 DEF InterruptEnds, Goes, Kill
<1>18. ASSUME NEW c \in Client, SurfaceDies(c) PROVE TeardownReachesAll'
  BY <1>18 DEF SurfaceDies, Goes
<1>19. ASSUME NEW c \in Client, WorkerDies(c) PROVE TeardownReachesAll'
  BY <1>19 DEF WorkerDies, Kill
<1>20. ASSUME ExecHandsOff PROVE TeardownReachesAll'
  <2>1. /\ at[Execute] = "executing" /\ active = runtime
        /\ at' = [at EXCEPT ![Execute] = "handoff"]
        /\ UNCHANGED <<on, runtime, active, kernel, untorn>>
    BY <1>20 DEF ExecHandsOff, Goes
  <2>2. at[Lifecycle] \notin TeardownPlaces
    BY <2>1 DEF LaneHeld
  <2> QED BY <2>1, <2>2 DEF TeardownPlaces
<1>21. ASSUME ExecClient PROVE TeardownReachesAll'
  BY <1>21 DEF ExecClient, ExecLeave, Goes, Kill
<1>22. ASSUME StopBegin PROVE TeardownReachesAll'
  BY <1>22 DEF StopBegin, Goes
<1>23. ASSUME CloseEach PROVE TeardownReachesAll'
  BY <1>23 DEF CloseEach, Goes
<1>24. ASSUME StopGivesUp PROVE TeardownReachesAll'
  BY <1>24 DEF StopGivesUp, Rests, Goes
<1>25. ASSUME StopEnters PROVE TeardownReachesAll'
  BY <1>25 DEF StopEnters, Ends, Rests, EnterTeardown, Goes
<1>26. ASSUME StartEnters PROVE TeardownReachesAll'
  BY <1>26 DEF StartEnters, EnterTeardown, Goes
<1>27. ASSUME PollFindsDeath \/ ExecFindsDeath PROVE TeardownReachesAll'
  <2>1. /\ at[Lifecycle] = "idle" /\ at[Lifecycle] \notin TeardownPlaces
        /\ UNCHANGED <<kernel, runtime, active, untorn>> /\ request' = "poll"
    BY <1>27 DEF PollFindsDeath, ExecFindsDeath, EnterTeardown
  <2>2. at'[Lifecycle] = "teardown"
    BY <1>27 DEF PollFindsDeath, ExecFindsDeath, Goes
  <2>3. at'[Execute] # "executing"
    BY <1>27, NobodyIsNoThread DEF PollFindsDeath, ExecFindsDeath, Goes, LaneHeld
  <2>4. on' => on
    BY <1>27 DEF PollFindsDeath, ExecFindsDeath
  <2> QED BY <2>1, <2>2, <2>3, <2>4
<1>28. ASSUME TeardownSurfaces PROVE TeardownReachesAll'
  <2>1. at[Lifecycle] = "teardown" /\ UNCHANGED <<on, runtime, active, kernel, untorn>>
    BY <1>28 DEF TeardownSurfaces, TeardownSurfacesOf
  <2>2. \/ at' = [at EXCEPT ![Lifecycle] = "idle"] /\ Strict
        \/ /\ at' = [at EXCEPT ![Lifecycle] = "items"]
           /\ runtime # 0 /\ active # 0 => todo' = workers
    BY <1>28 DEF TeardownSurfaces, TeardownSurfacesOf, Ends, Rests, Goes
  <2>3. CASE at' = [at EXCEPT ![Lifecycle] = "idle"] /\ Strict
    BY <2>1, <2>3
  <2>4. CASE at' = [at EXCEPT ![Lifecycle] = "items"] /\ (runtime # 0 /\ active # 0 => todo' = workers)
    <3>1. \A c \in Client : Loose(c)' => c \in todo'
      BY <2>1, <2>4 DEF Loose
    <3> QED BY <2>1, <2>4, <3>1
  <2> QED BY <2>2, <2>3, <2>4
<1>29. ASSUME TeardownItem PROVE TeardownReachesAll'
  <2>1. PICK d \in todo :
          /\ todo' = todo \ {d} /\ target' = d
          /\ \/ Kill(d) /\ UNCHANGED at
             \/ at' = [at EXCEPT ![Lifecycle] = "stopping item"]
    BY <1>29 DEF TeardownItem, Goes
  <2>2. at[Lifecycle] = "items" /\ UNCHANGED <<on, runtime, active, kernel, untorn, request>>
    BY <1>29 DEF TeardownItem
  <2>3. \A c \in Client : Loose(c)' => Loose(c) /\ c \in todo
    BY <2>2 DEF LooseShrinks
  <2>4. Kill(d) => ~Loose(d)'
    BY <2>1 DEF Kill, Loose, ClientTypes, SetTypes
  <2> QED BY <2>1, <2>2, <2>3, <2>4 DEF TeardownPlaces
<1>30. ASSUME TeardownStopped PROVE TeardownReachesAll'
  <2>1. PICK d \in Client : d = target /\ process' = [process EXCEPT ![d] = "dead"]
    BY <1>30 DEF TeardownStopped, Kill, Known, LifecycleToClients
  <2>2. ~Loose(d)'
    BY <2>1 DEF Loose, ClientTypes
  <2>3. /\ at[Lifecycle] = "stopping item" /\ at' = [at EXCEPT ![Lifecycle] = "items"]
        /\ UNCHANGED <<on, runtime, active, kernel, untorn, request, target, todo>>
    BY <1>30 DEF TeardownStopped, Goes
  <2>4. \A c \in Client : Loose(c)' => Loose(c)
    BY DEF LooseShrinks
  <2> QED BY <2>1, <2>2, <2>3, <2>4
<1>31. ASSUME TeardownEnds PROVE TeardownReachesAll'
  BY <1>0, <1>31 DEF TeardownEnds, RetireAll, Ends, Rests, Goes
<1>32. ASSUME KernelOff PROVE TeardownReachesAll'
  BY <1>0, <1>32 DEF KernelOff, Ends, Rests, Goes
<1>33. ASSUME KernelStarts PROVE TeardownReachesAll'
  <2>1. /\ at[Lifecycle] = "cleaned"
        /\ \/ on' = FALSE
           \/ UNCHANGED <<on, runtime>>
        /\ \/ at' = [at EXCEPT ![Lifecycle] = "idle"]
           \/ at' = [at EXCEPT ![Lifecycle] = "activating"] /\ kernel' = kernel + 1
    BY <1>33 DEF KernelStarts, Ends, Rests, Goes
  <2>2. kernel + 1 # 0
    BY NextKernel
  <2>3. NoneLoose'
    BY <2>1
  <2>4. at'[Execute] # "executing" /\ (on' => runtime' # 0)
    BY <1>0, <2>1
  <2>5. \/ at'[Lifecycle] = "idle"
        \/ at'[Lifecycle] = "activating" /\ kernel' # 0
    BY <2>1, <2>2
  <2> QED BY <2>3, <2>4, <2>5
<1>34. ASSUME Activate PROVE TeardownReachesAll'
  BY <1>0, <1>34 DEF Activate, Ends, Rests, Goes
<1>35. ASSUME UNCHANGED vars PROVE TeardownReachesAll'
  BY <1>35 DEF vars
<1>36. ASSUME ExecBegin \/ ExecEnds \/ CompleteTurnsOff \/ InterruptTurnsOff
     PROVE TeardownReachesAll'
  BY <1>36 DEF ExecBegin, ExecEnds, CompleteTurnsOff, InterruptTurnsOff, TurnsOff, Goes
<1> QED BY <1>1, <1>2, <1>3, <1>4, <1>5, <1>6, <1>7, <1>8, <1>9, <1>10, <1>11, <1>12,
      <1>13, <1>14, <1>15, <1>16, <1>17, <1>18, <1>19, <1>20, <1>21, <1>22, <1>23,
      <1>24, <1>25, <1>26, <1>27, <1>28, <1>29, <1>30, <1>31, <1>32, <1>33, <1>34,
      <1>35, <1>36 DEF Next, Closing, Operation, Teardown

\* A hand-off has a kernel that is on, or was when its execution began, and the manager's
\* runtime.
LEMMA HandsOffReaches ==
  ASSUME ThreadTypes, LaneHeld, TeardownReachesAll, ExecHandsOff
  PROVE  TeardownReachesAll'
<1>1. /\ at[Execute] = "executing" /\ active = runtime
      /\ at' = [at EXCEPT ![Execute] = "handoff"]
      /\ UNCHANGED <<on, runtime, active, kernel, untorn>>
  BY DEF ExecHandsOff, Goes
<1>2. at[Lifecycle] \notin TeardownPlaces /\ at'[Lifecycle] = at[Lifecycle]
  BY <1>1, ThreadsThere, Apart DEF LaneHeld, ThreadTypes
<1>3. at'[Execute] = "handoff"
  BY <1>1, ThreadsThere DEF ThreadTypes
<1> QED BY <1>1, <1>2, <1>3 DEF TeardownReachesAll, TeardownPlaces

\* A client gets its kernel from the execution that starts its worker.
HomeStays == ExecHandsOff \/ KernelStarts \/ UNCHANGED <<kernel, home>>

\* No other step has to do with it.
LEMMA HomeStep ==
  [Next]_vars => HomeStays
<1> SUFFICES ASSUME [Next]_vars PROVE HomeStays
  OBVIOUS
<1> USE DEF HomeStays, kernelVars, clientVars, workerVars, lifecycleVars
<1>1. ASSUME NEW t \in Threads \ {Execute}, Retire(t) PROVE HomeStays
  BY <1>1 DEF Retire, Subject, Goes, RetireAll, Leave, Returned
<1>2. ASSUME ExecClient PROVE HomeStays
  BY <1>2 DEF ExecClient, ExecLeave, Goes, Kill
<1>3. ASSUME TeardownEnds PROVE HomeStays
  BY <1>3 DEF TeardownEnds, RetireAll, Ends, Rests, Goes
<1>4. ASSUME \/ \E t \in Threads \ {Execute} : StopPop(t)
             \/ \E t \in Threads \ {Execute} : StopAtOnce(t)
             \/ \E t \in Threads \ {Execute} : StopAsk(t)
     PROVE HomeStays
  BY <1>4 DEF StopPop, Subject, Goes, Stopped, StopAtOnce, Kill, StopAsk
<1>5. ASSUME \/ \E t \in Threads \ {Execute} : StopEnds(t)
             \/ \E t \in Threads \ {Execute} : TakeLane(t)
             \/ \E t \in Threads \ {Execute} : CloseSurfaces(t)
     PROVE HomeStays
  BY <1>5 DEF StopEnds, Subject, Goes, Stopped, StopRaises, Kill, TakeLane, TakeLaneFor,
      Returned, CloseSurfaces
<1>6. ASSUME \/ \E c \in Client : OpAdmit(c)
             \/ \E c \in Client : OpLookUp(c)
             \/ \E c \in Client : OpBegin(c)
     PROVE HomeStays
  BY <1>6 DEF OpAdmit, Goes, OpLookUp, OpBegin
<1>7. ASSUME \/ \E c \in Client : OpAnswer(c)
             \/ \E c \in Client : OpBreak(c)
             \/ \E c \in Client : OpInvalid(c)
     PROVE HomeStays
  BY <1>7 DEF OpAnswer, Goes, OpBreak, OpBreakLeaving, OpInvalid
<1>8. ASSUME \/ \E c \in Client : OpError(c)
             \/ \E c \in Client : CloseBegin(c)
             \/ \E c \in Client : InterruptBegin(c)
     PROVE HomeStays
  BY <1>8 DEF OpError, Goes, CloseBegin, CloseBeginAt, InterruptBegin
<1>9. ASSUME \/ \E c \in Client : InterruptEnds(c)
             \/ \E c \in Client : SurfaceDies(c)
             \/ \E c \in Client : WorkerDies(c)
     PROVE HomeStays
  BY <1>9 DEF InterruptEnds, Goes, Kill, SurfaceDies, WorkerDies
<1>10. ASSUME ExecHandsOff \/ StopBegin \/ CloseEach PROVE HomeStays
  BY <1>10 DEF ExecHandsOff, Goes, StopBegin, CloseEach
<1>11. ASSUME StopGivesUp \/ StopEnters \/ StartEnters PROVE HomeStays
  BY <1>11 DEF StopGivesUp, Rests, Goes, StopEnters, Ends, EnterTeardown, StartEnters
<1>12. ASSUME PollFindsDeath \/ ExecFindsDeath \/ TeardownSurfaces \/ TeardownItem PROVE HomeStays
  BY <1>12 DEF PollFindsDeath, ExecFindsDeath, EnterTeardown, Goes, TeardownSurfaces,
      TeardownSurfacesOf, Ends, Rests, TeardownItem, Kill
<1>13. ASSUME TeardownStopped \/ KernelOff \/ KernelStarts PROVE HomeStays
  BY <1>13 DEF TeardownStopped, Goes, Kill, KernelOff, Ends, Rests, KernelStarts
<1>14. ASSUME Activate PROVE HomeStays
  BY <1>14 DEF Activate, Ends, Rests, Goes
<1>15. ASSUME UNCHANGED vars PROVE HomeStays
  BY <1>15 DEF vars
<1>16. ASSUME ExecBegin \/ ExecEnds \/ CompleteTurnsOff \/ InterruptTurnsOff
     PROVE HomeStays
  BY <1>16 DEF ExecBegin, ExecEnds, CompleteTurnsOff, InterruptTurnsOff, TurnsOff, Goes
<1> QED BY <1>1, <1>2, <1>3, <1>4, <1>5, <1>6, <1>7, <1>8, <1>9, <1>10, <1>11, <1>12,
      <1>13, <1>14, <1>15, <1>16 DEF Next, Closing, Operation, Teardown

\* The workers that are left are those of the kernel.
LEMMA AtHomeStep ==
  ASSUME ThreadTypes, TeardownReachesAll, LooseShrinks, LooseAtHome, ~ExecHandsOff, [Next]_vars
  PROVE  LooseAtHome'
<1>1. CASE KernelStarts
  <2>1. NoneLoose
    BY <1>1 DEF KernelStarts, TeardownReachesAll
  <2> QED BY <2>1 DEF NoneLoose, LooseShrinks, LooseAtHome
<1>2. CASE UNCHANGED <<kernel, home>>
  BY <1>2 DEF LooseShrinks, Loose, LooseAtHome
<1> QED BY <1>1, <1>2, HomeStep DEF HomeStays

\* The one that is started is, too.
LEMMA HandsOffAtHome ==
  ASSUME ClientTypes, LooseAtHome, ExecHandsOff
  PROVE  LooseAtHome'
<1>1. PICK c \in Client :
        /\ process' = [process EXCEPT ![c] = "alive"] /\ workers' = workers \cup {c}
        /\ home' = [home EXCEPT ![c] = kernel]
  BY DEF ExecHandsOff
<1>2. UNCHANGED kernel
  BY DEF ExecHandsOff
<1> QED BY <1>1, <1>2 DEF LooseAtHome, Loose, ClientTypes

-----------------------------------------------------------------------------
(* The theorems.                                                           *)

\* Every step keeps all of it.
LEMMA StepInvariant == ClientInvariant /\ [Next]_vars => ClientInvariant'
<1> SUFFICES ASSUME ClientInvariant, [Next]_vars PROVE ClientInvariant'
  OBVIOUS
<1> USE DEF ClientInvariant
<1>1. KernelTypes /\ ThreadTypes /\ ClientTypes /\ SetTypes
  BY TypeParts
<1>2. TypeOK' /\ Known'
  BY TypesStep, KnownStep
<1>3. NoWorkerEscapes'
  BY EscapesStep
<1>4. GonePersists /\ DeadStays
  BY <1>1, GoneStep, DeadStep
<1>5. RetireIsLast' /\ SurfaceStopsFirst' /\ RetiredIsGone' /\ StoppedIsDead'
  BY <1>1, <1>4, RetireStep, SurfaceStep, RetiredStep, StoppedStep
<1>6. OperationRecorded' /\ CloseFences' /\ CloseCutsFirst'
  BY <1>1, <1>4, RecordedStep, FencesStep, CutsStep
<1>7. LaneHeld'
  BY <1>1, LaneStep
<1>8. TeardownReachesAll' /\ LooseAtHome'
  <2>1. CASE ExecHandsOff
    BY <1>1, <2>1, HandsOffReaches, HandsOffAtHome
  <2>2. CASE ~ExecHandsOff
    BY <1>1, <2>2, LooseStep, ReachesStep, AtHomeStep
  <2> QED BY <2>1, <2>2
<1> QED BY <1>2, <1>3, <1>5, <1>6, <1>7, <1>8

\* The invariant is inductive.
THEOREM ClientInvariantHolds == Spec => []ClientInvariant
<1> QED BY InitInvariant, StepInvariant, PTL DEF Spec

\* Every variable keeps its type.
THEOREM TypeCorrect == Spec => []TypeOK
<1>1. ClientInvariant => TypeOK
  BY DEF ClientInvariant
<1> QED BY <1>1, ClientInvariantHolds, PTL

\* The manager can reach every worker that runs, or a thread is stopping it.
THEOREM WorkersAreReachable == Spec => []NoWorkerEscapes
<1>1. ClientInvariant => NoWorkerEscapes
  BY DEF ClientInvariant
<1> QED BY <1>1, ClientInvariantHolds, PTL

\* Nobody retires a client and leaves its worker at work.
THEOREM RetiredClientsAreDead == Spec => []RetiredIsDead
<1>1. ClientInvariant => RetiredIsDead
  BY DEF ClientInvariant, RetiredIsGone, Gone, RetiredIsDead
<1> QED BY <1>1, ClientInvariantHolds, PTL

\* With the kernel go the workers, but for those of a kernel that was turned off beside
\* every teardown.
THEOREM WorkersEndWithKernel == Spec => []WorkersGoWithKernel
<1>1. ASSUME ClientInvariant, NEW c \in Client, process[c] = "alive", ~BeingStopped(c)
      PROVE  home[c] = kernel /\ (lane # Lifecycle /\ ~on => untorn)
  <2>1. Loose(c)
    BY <1>1 DEF ClientInvariant, NoWorkerEscapes, Loose
  <2>2. home[c] = kernel
    BY <1>1, <2>1 DEF ClientInvariant, LooseAtHome
  <2>3. ASSUME lane # Lifecycle, ~on PROVE untorn
    <3>1. at[Lifecycle] \notin TeardownPlaces
      BY <1>1, <2>3 DEF ClientInvariant, LaneHeld
    <3> QED BY <1>1, <2>1, <2>3, <3>1 DEF ClientInvariant, TeardownReachesAll, NoneLoose
  <2> QED BY <2>2, <2>3
<1>2. ClientInvariant => WorkersGoWithKernel
  BY <1>1 DEF WorkersGoWithKernel
<1> QED BY <1>2, ClientInvariantHolds, PTL

\* A close that waits for the lane has cut the client's work off.
THEOREM ClosesCutWork == Spec => []CloseCutsWork
<1>1. ClientInvariant => CloseCutsWork
  BY DEF ClientInvariant, OperationRecorded, CloseCutsFirst, Gone, CloseCutsWork
<1> QED BY <1>1, ClientInvariantHolds, PTL

=============================================================================
