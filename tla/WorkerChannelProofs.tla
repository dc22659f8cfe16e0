------------------------- MODULE WorkerChannelProofs -------------------------
(***************************************************************************)
(* Theorems about WorkerChannel, for any number of requests and            *)
(* interrupts, and without its fairness.                                   *)
(***************************************************************************)
EXTENDS WorkerChannel, TLAPS

-----------------------------------------------------------------------------
(* The inductive invariant.                                                *)

\* What the pipe to the worker carries.
MessagesAreRight ==
  \A i \in 1 .. Len(toChild) :
    /\ toChild[i].kind = "request" => toChild[i].id \in Requests
    /\ toChild[i].kind = "interrupt" => toChild[i].id \in Interrupts /\ toChild[i].target \in Requests
    /\ toChild[i].kind = "shutdown" => toChild[i].id = Shutdown

\* A call that is under way has its number.
Counted ==
  /\ request # "idle" => lastRequest \in 1 .. MaxRequest
  /\ interrupt # "idle" => lastInterrupt \in 1 .. MaxInterrupt

\* The worker has one request at a time, in the queue or in hand, and it is the
\* active one; it stays active, without a use, after a failure.
OneActive ==
  /\ main = "handling" => active # NoRequest /\ task = active /\ answered[active] = "nothing"
  /\ \A i \in 1 .. Len(tasks) :
       tasks[i] \in Requests =>
         /\ tasks[i] = active /\ main # "handling" /\ answered[active] = "nothing"
         /\ \A j \in 1 .. Len(tasks) : tasks[j] \in Requests => i = j
  /\ active # NoRequest => answered[active] \in {"nothing", "failure"}

\* A request that the worker has not received.
Unseen(id) == answered[id] = "nothing" /\ active # id

\* Each request is sent once.
SentOnce ==
  /\ \A i \in 1 .. Len(toChild) :
       toChild[i].kind = "request" =>
         /\ Unseen(toChild[i].id)
         /\ \A j \in 1 .. Len(toChild) :
              toChild[j].kind = "request" /\ toChild[j].id = toChild[i].id => i = j
  /\ \A n \in 1 .. MaxRequest :
       n > lastRequest \/ (n = lastRequest /\ request = "send") =>
         /\ Unseen(Request(n))
         /\ \A i \in 1 .. Len(toChild) :
              toChild[i].kind = "request" => toChild[i].id # Request(n)

\* An answer that can be read, or was, is the worker's.
AnswersAreTrue ==
  /\ \A i \in 1 .. Len(toParent) :
       toParent[i].id \in Requests => answered[toParent[i].id] = toParent[i].kind
  /\ \A id \in Requests : box[id] \in {"result", "rejected"} => answered[id] = box[id]

\* A service that has not given its worker up waits for what the worker has.
WaitsForIt ==
  alive /\ ~fenced =>
    /\ active # NoRequest => request = "wait" /\ active = Request(lastRequest)
    /\ \A i \in 1 .. Len(toChild) :
         toChild[i].kind = "request" => request = "wait" /\ toChild[i].id = Request(lastRequest)

ChannelInvariant ==
  /\ TypeOK /\ Counted /\ MessagesAreRight /\ OneActive /\ SentOnce /\ AnswersAreTrue
  /\ WaitsForIt /\ InterruptHitsItsTarget /\ FencedIsDead

-----------------------------------------------------------------------------
(* Identities and sequences.                                               *)

Messages == [kind : {"request", "interrupt", "shutdown"}, id : Ids,
             target : Requests \cup {NoRequest}]
Replies  == [kind : Answers, id : Ids]
Tasks    == Requests \cup {Shutdown, Quit}

\* The identities of requests, interrupts and everything else are apart.
LEMMA Identities ==
  /\ \A n \in 1 .. MaxRequest : Request(n) \in Requests
  /\ \A n \in 1 .. MaxInterrupt : Interrupt(n) \in Interrupts
  /\ \A m, n : Request(m) = Request(n) => m = n
  /\ \A id \in Requests : \E n \in 1 .. MaxRequest : id = Request(n)
  /\ Requests \subseteq Ids /\ Interrupts \subseteq Ids /\ Shutdown \in Ids /\ Ready \in Ids
  /\ NoRequest \notin Requests /\ Shutdown \notin Requests /\ Quit \notin Requests
  /\ Ready \notin Requests /\ \A id \in Interrupts : id \notin Requests
  /\ Quit # Shutdown
  BY DEF Request, Interrupt, Shutdown, Ready, NoRequest, Requests, Interrupts, Ids, Quit

\* What is left of a pipe that was read.
LEMMA Tails ==
  ASSUME NEW T, NEW s \in Seq(T), s # <<>>
  PROVE  /\ Tail(s) \in Seq(T) /\ Head(s) \in T /\ Head(s) = s[1]
         /\ 1 \in 1 .. Len(s)
         /\ Len(s) \in Nat /\ Len(Tail(s)) = Len(s) - 1
         /\ \A i \in 1 .. Len(Tail(s)) : i + 1 \in 1 .. Len(s) /\ Tail(s)[i] = s[i + 1] /\ i + 1 # 1
  OBVIOUS

\* What is in a pipe that was written to.
LEMMA Appends ==
  ASSUME NEW T, NEW s \in Seq(T), NEW e \in T
  PROVE  /\ Append(s, e) \in Seq(T) /\ Len(s) \in Nat /\ Len(Append(s, e)) = Len(s) + 1
         /\ \A i \in 1 .. Len(s) : i \in 1 .. Len(s) + 1 /\ Append(s, e)[i] = s[i] /\ i # Len(s) + 1
         /\ Append(s, e)[Len(s) + 1] = e
         /\ \A i \in 1 .. Len(s) + 1 : i \in 1 .. Len(s) \/ i = Len(s) + 1
  OBVIOUS

\* Pipes and queues keep their types.
LEMMA Pipes ==
  /\ \A s \in Seq(Messages), m \in Messages : Append(s, m) \in Seq(Messages)
  /\ \A s \in Seq(Replies), m \in Replies : Append(s, m) \in Seq(Replies)
  /\ \A s \in Seq(Tasks), m \in Tasks : Append(s, m) \in Seq(Tasks)
  /\ \A s \in Seq(Messages) : s # <<>> => Tail(s) \in Seq(Messages)
  OBVIOUS

\* A worker that was just started.
LEMMA InitInvariant == Init => ChannelInvariant
<1> SUFFICES ASSUME Init PROVE ChannelInvariant
  OBVIOUS
<1> USE Identities DEF Init
<1>1. TypeOK
  <2>1. toChild \in Seq(Messages) /\ toParent \in Seq(Replies) /\ tasks \in Seq(Tasks)
    OBVIOUS
  <2>2. lastRequest \in 0 .. MaxRequest /\ lastInterrupt \in 0 .. MaxInterrupt
    BY BoundsAssumption
  <2>3. box \in [Ids -> Answers \cup {"empty", "closed"}] /\ pending \subseteq Ids
    OBVIOUS
  <2>4. answered \in [Requests -> Answers \cup {"nothing"}]
    OBVIOUS
  <2> QED BY <2>1, <2>2, <2>3, <2>4 DEF TypeOK, Messages, Replies, Tasks
<1>2. Counted /\ MessagesAreRight /\ OneActive /\ SentOnce /\ AnswersAreTrue /\ WaitsForIt
  BY DEF Counted, MessagesAreRight, OneActive, SentOnce, AnswersAreTrue, WaitsForIt, Unseen
<1>3. InterruptHitsItsTarget /\ FencedIsDead
  BY DEF InterruptHitsItsTarget, FencedIsDead
<1> QED BY <1>1, <1>2, <1>3 DEF ChannelInvariant

\* A worker that the handle gave up is terminated in the same step, or is being stopped.
LEMMA FencedStep ==
  TypeOK /\ FencedIsDead /\ [Next]_vars => FencedIsDead'
<1> SUFFICES ASSUME TypeOK, FencedIsDead, [Next]_vars PROVE FencedIsDead'
  OBVIOUS
<1> USE DEF TypeOK, FencedIsDead, ownerVars, readerVars, callVars, workerVars,
        historyVars, worldVars
<1>1. ASSUME StartEnds PROVE FencedIsDead'
  BY <1>1 DEF StartEnds, Terminate
<1>2. ASSUME RequestBegin PROVE FencedIsDead'
  BY <1>2 DEF RequestBegin, Register, Locked
<1>3. ASSUME RequestSend PROVE FencedIsDead'
  BY <1>3 DEF RequestSend, Send, Terminate
<1>4. ASSUME RequestReturn PROVE FencedIsDead'
  BY <1>4 DEF RequestReturn, Terminate
<1>5. ASSUME RequestTimeout PROVE FencedIsDead'
  BY <1>5 DEF RequestTimeout, Terminate
<1>6. ASSUME InterruptBegin PROVE FencedIsDead'
  BY <1>6 DEF InterruptBegin, Register
<1>7. ASSUME InterruptSend PROVE FencedIsDead'
  BY <1>7 DEF InterruptSend, Send, Terminate
<1>8. ASSUME InterruptReturn PROVE FencedIsDead'
  BY <1>8 DEF InterruptReturn, Terminate
<1>9. ASSUME InterruptTimeout PROVE FencedIsDead'
  BY <1>9 DEF InterruptTimeout, InterruptTimeoutLeaving
<1>10. ASSUME StopBusy PROVE FencedIsDead'
  BY <1>10 DEF StopBusy, Terminate
<1>11. ASSUME StopBegin PROVE FencedIsDead'
  BY <1>11 DEF StopBegin, Register
<1>12. ASSUME StopSend PROVE FencedIsDead'
  BY <1>12 DEF StopSend, Send, Terminate
<1>13. ASSUME StopAnswered PROVE FencedIsDead'
  BY <1>13 DEF StopAnswered, StopAnsweredGoingTo, Terminate
<1>14. ASSUME StopExited PROVE FencedIsDead'
  BY <1>14 DEF StopExited
<1>15. ASSUME StopTimeout PROVE FencedIsDead'
  BY <1>15 DEF StopTimeout, Terminate
<1>16. ASSUME ReadAnswer PROVE FencedIsDead'
  BY <1>16 DEF ReadAnswer
<1>17. ASSUME ReaderFails PROVE FencedIsDead'
  BY <1>17 DEF ReaderFails, ReaderFailsFor
<1>18. ASSUME OwnerDies PROVE FencedIsDead'
  BY <1>18 DEF OwnerDies
<1>19. ASSUME ImportEnds PROVE FencedIsDead'
  BY <1>19 DEF ImportEnds, Reply, Dies
<1>20. ASSUME ReceiveRequest PROVE FencedIsDead'
  BY <1>20 DEF ReceiveRequest, Receives, Answer, Reply, ReceiverCrashes
<1>21. ASSUME ReceiveInterrupt PROVE FencedIsDead'
  BY <1>21 DEF ReceiveInterrupt, ReceiveInterruptIf, Receives, Reply, ReceiverCrashes
<1>22. ASSUME ReceiveShutdown PROVE FencedIsDead'
  BY <1>22 DEF ReceiveShutdown, Receives
<1>23. ASSUME OwnerLost PROVE FencedIsDead'
  BY <1>23 DEF OwnerLost, OwnerLostWith
<1>24. ASSUME MainTake PROVE FencedIsDead'
  BY <1>24 DEF MainTake, MainTakeAsRequest
<1>25. ASSUME MainAnswer PROVE FencedIsDead'
  BY <1>25 DEF MainAnswer, MainAnswerRetiring, Answer, Reply, Dies
<1>26. ASSUME MainClose PROVE FencedIsDead'
  BY <1>26 DEF MainClose, Reply, Dies
<1>27. ASSUME MainExits PROVE FencedIsDead'
  BY <1>27 DEF MainExits, Dies
<1>28. ASSUME MainQuits PROVE FencedIsDead'
  BY <1>28 DEF MainQuits, Dies
<1>29. ASSUME Watchdog PROVE FencedIsDead'
  BY <1>29 DEF Watchdog, Dies
<1>30. ASSUME Crash PROVE FencedIsDead'
  BY <1>30 DEF Crash, Dies
<1>31. ASSUME UNCHANGED vars PROVE FencedIsDead'
  BY <1>31 DEF vars
<1> QED BY <1>1, <1>2, <1>3, <1>4, <1>5, <1>6, <1>7, <1>8, <1>9, <1>10, <1>11, <1>12,
      <1>13, <1>14, <1>15, <1>16, <1>17, <1>18, <1>19, <1>20, <1>21, <1>22, <1>23, <1>24,
      <1>25, <1>26, <1>27, <1>28, <1>29, <1>30, <1>31 DEF Next, Handle, Receive

\* Calls are numbered as they begin.
LEMMA CountedStep ==
  TypeOK /\ Counted /\ [Next]_vars => Counted'
<1> SUFFICES ASSUME TypeOK, Counted, [Next]_vars PROVE Counted'
  OBVIOUS
<1> USE BoundsAssumption DEF TypeOK, Counted, ownerVars, readerVars, callVars,
        workerVars, historyVars, worldVars
<1>1. ASSUME StartEnds PROVE Counted'
  BY <1>1 DEF StartEnds, Terminate
<1>2. ASSUME RequestBegin PROVE Counted'
  BY <1>2 DEF RequestBegin, Register, Locked
<1>3. ASSUME RequestSend PROVE Counted'
  BY <1>3 DEF RequestSend, Send, Terminate
<1>4. ASSUME RequestReturn PROVE Counted'
  BY <1>4 DEF RequestReturn, Terminate
<1>5. ASSUME RequestTimeout PROVE Counted'
  BY <1>5 DEF RequestTimeout, Terminate
<1>6. ASSUME InterruptBegin PROVE Counted'
  BY <1>6 DEF InterruptBegin, Register
<1>7. ASSUME InterruptSend PROVE Counted'
  BY <1>7 DEF InterruptSend, Send, Terminate
<1>8. ASSUME InterruptReturn PROVE Counted'
  BY <1>8 DEF InterruptReturn, Terminate
<1>9. ASSUME InterruptTimeout PROVE Counted'
  BY <1>9 DEF InterruptTimeout, InterruptTimeoutLeaving
<1>10. ASSUME StopBusy PROVE Counted'
  BY <1>10 DEF StopBusy, Terminate
<1>11. ASSUME StopBegin PROVE Counted'
  BY <1>11 DEF StopBegin, Register
<1>12. ASSUME StopSend PROVE Counted'
  BY <1>12 DEF StopSend, Send, Terminate
<1>13. ASSUME StopAnswered PROVE Counted'
  BY <1>13 DEF StopAnswered, StopAnsweredGoingTo, Terminate
<1>14. ASSUME StopExited PROVE Counted'
  BY <1>14 DEF StopExited
<1>15. ASSUME StopTimeout PROVE Counted'
  BY <1>15 DEF StopTimeout, Terminate
<1>16. ASSUME ReadAnswer PROVE Counted'
  BY <1>16 DEF ReadAnswer
<1>17. ASSUME ReaderFails PROVE Counted'
  BY <1>17 DEF ReaderFails, ReaderFailsFor
<1>18. ASSUME OwnerDies PROVE Counted'
  BY <1>18 DEF OwnerDies
<1>19. ASSUME ImportEnds PROVE Counted'
  BY <1>19 DEF ImportEnds, Reply, Dies
<1>20. ASSUME ReceiveRequest PROVE Counted'
  BY <1>20 DEF ReceiveRequest, Receives, Answer, Reply, ReceiverCrashes
<1>21. ASSUME ReceiveInterrupt PROVE Counted'
  BY <1>21 DEF ReceiveInterrupt, ReceiveInterruptIf, Receives, Reply, ReceiverCrashes
<1>22. ASSUME ReceiveShutdown PROVE Counted'
  BY <1>22 DEF ReceiveShutdown, Receives
<1>23. ASSUME OwnerLost PROVE Counted'
  BY <1>23 DEF OwnerLost, OwnerLostWith
<1>24. ASSUME MainTake PROVE Counted'
  BY <1>24 DEF MainTake, MainTakeAsRequest
<1>25. ASSUME MainAnswer PROVE Counted'
  BY <1>25 DEF MainAnswer, MainAnswerRetiring, Answer, Reply, Dies
<1>26. ASSUME MainClose PROVE Counted'
  BY <1>26 DEF MainClose, Reply, Dies
<1>27. ASSUME MainExits PROVE Counted'
  BY <1>27 DEF MainExits, Dies
<1>28. ASSUME MainQuits PROVE Counted'
  BY <1>28 DEF MainQuits, Dies
<1>29. ASSUME Watchdog PROVE Counted'
  BY <1>29 DEF Watchdog, Dies
<1>30. ASSUME Crash PROVE Counted'
  BY <1>30 DEF Crash, Dies
<1>31. ASSUME UNCHANGED vars PROVE Counted'
  BY <1>31 DEF vars
<1> QED BY <1>1, <1>2, <1>3, <1>4, <1>5, <1>6, <1>7, <1>8, <1>9, <1>10, <1>11, <1>12,
      <1>13, <1>14, <1>15, <1>16, <1>17, <1>18, <1>19, <1>20, <1>21, <1>22, <1>23, <1>24,
      <1>25, <1>26, <1>27, <1>28, <1>29, <1>30, <1>31 DEF Next, Handle, Receive

-----------------------------------------------------------------------------
(* What the steps do to the pipes, element by element.                     *)

\* A message more, at the end of the pipe to the worker.
Carries(kind, id, target) ==
  /\ Len(toChild') = Len(toChild) + 1
  /\ \A i \in 1 .. Len(toChild) : toChild'[i] = toChild[i]
  /\ toChild'[Len(toChild) + 1] = [kind |-> kind, id |-> id, target |-> target]

\* The first message is taken from it.
Shifts ==
  /\ Len(toChild) > 0 /\ Len(toChild') = Len(toChild) - 1
  /\ \A i \in 1 .. Len(toChild') : toChild'[i] = toChild[i + 1]

\* An answer more, at the end of the other.
AnswersWith(kind, id) ==
  /\ Len(toParent') = Len(toParent) + 1
  /\ \A i \in 1 .. Len(toParent) : toParent'[i] = toParent[i]
  /\ toParent'[Len(toParent) + 1] = [kind |-> kind, id |-> id]

\* The lengths of pipes are numbers.
LEMMA Lengths == TypeOK => Len(toChild) \in Nat /\ Len(toParent) \in Nat /\ Len(tasks) \in Nat
  BY DEF TypeOK

\* A message that was written is the last one of the pipe.
LEMMA SendCarries ==
  ASSUME TypeOK, NEW kind \in {"request", "interrupt", "shutdown"}, NEW id \in Ids,
         NEW target \in Requests \cup {NoRequest},
         toChild' = Append(toChild, [kind |-> kind, id |-> id, target |-> target])
  PROVE  Carries(kind, id, target)
  BY DEF TypeOK, Carries

\* request() writes its message, or gives the worker up.
LEMMA RequestSendEffect ==
  ASSUME TypeOK, Counted, RequestSend
  PROVE  /\ lastRequest \in 1 .. MaxRequest /\ request = "send"
         /\ \/ /\ Carries("request", Request(lastRequest), NoRequest)
               /\ request' = "wait" /\ UNCHANGED <<fenced, alive>>
            \/ UNCHANGED toChild /\ request' = "idle" /\ fenced' /\ ~alive'
<1>1. lastRequest \in 1 .. MaxRequest /\ request = "send" /\ Request(lastRequest) \in Ids
  BY Identities DEF RequestSend, Counted
<1>2. \/ /\ toChild' = Append(toChild, [kind |-> "request", id |-> Request(lastRequest),
                                        target |-> NoRequest])
         /\ request' = "wait" /\ UNCHANGED <<fenced, alive>>
      \/ UNCHANGED toChild /\ request' = "idle" /\ fenced' /\ ~alive'
  BY DEF RequestSend, Send, Terminate
<1> QED BY <1>1, <1>2, SendCarries

\* interrupt() does too, and names a request that was made.
LEMMA InterruptSendEffect ==
  ASSUME TypeOK, Counted, InterruptSend
  PROVE  \/ /\ \E n \in 1 .. MaxRequest :
                 Carries("interrupt", Interrupt(lastInterrupt), Request(n))
            /\ lastInterrupt \in 1 .. MaxInterrupt /\ UNCHANGED <<fenced, alive>>
         \/ UNCHANGED toChild /\ fenced' /\ ~alive'
<1>1. lastInterrupt \in 1 .. MaxInterrupt /\ Interrupt(lastInterrupt) \in Ids
  BY Identities DEF InterruptSend, Counted
<1>2. PICK n \in 1 .. lastRequest :
        \/ /\ toChild' = Append(toChild, [kind |-> "interrupt", id |-> Interrupt(lastInterrupt),
                                          target |-> Request(n)])
           /\ UNCHANGED <<fenced, alive>>
        \/ UNCHANGED toChild /\ fenced' /\ ~alive'
  BY DEF InterruptSend, Send, Terminate
<1>3. n \in 1 .. MaxRequest
  BY BoundsAssumption DEF TypeOK
<1>4. Request(n) \in Requests
  BY <1>3, Identities
<1> QED BY <1>1, <1>2, <1>3, <1>4, SendCarries

\* And so does stop().
LEMMA StopSendEffect ==
  ASSUME TypeOK, StopSend
  PROVE  \/ Carries("shutdown", Shutdown, NoRequest) /\ UNCHANGED <<fenced, alive>>
         \/ UNCHANGED toChild /\ fenced' /\ ~alive'
<1>1. \/ /\ toChild' = Append(toChild, [kind |-> "shutdown", id |-> Shutdown, target |-> NoRequest])
         /\ UNCHANGED <<fenced, alive>>
      \/ UNCHANGED toChild /\ fenced' /\ ~alive'
  BY DEF StopSend, Send, Terminate
<1> QED BY <1>1, Identities, SendCarries

\* The receive thread of the worker takes the first message.
LEMMA ReceiveEffect ==
  ASSUME TypeOK, MessagesAreRight, NEW kind, Receives(kind)
  PROVE  /\ Shifts /\ toChild[1].kind = kind /\ Head(toChild) = toChild[1]
         /\ 1 \in 1 .. Len(toChild)
         /\ UNCHANGED <<alive, fenced, request, lastRequest, main, task, box>>
<1>1. toChild \in Seq(Messages) /\ toChild # <<>> /\ toChild' = Tail(toChild)
  BY DEF TypeOK, Messages, Receives
<1>2. Shifts /\ Head(toChild) = toChild[1] /\ 1 \in 1 .. Len(toChild)
  BY <1>1, Tails DEF Shifts
<1> QED BY <1>2 DEF Receives, worldVars, ownerVars, callVars, readerVars

\* No request comes into the pipe, and those that are in it keep their order.
SameRequests ==
  \E d \in {0, 1} :
    \A i \in 1 .. Len(toChild') :
      toChild'[i].kind = "request" =>
        i + d \in 1 .. Len(toChild) /\ toChild'[i] = toChild[i + d]

\* Steps that leave the pipe alone, read it, or write something else to it.
LEMMA SameWhenUnchanged == TypeOK /\ UNCHANGED toChild => SameRequests
<1> SUFFICES ASSUME TypeOK, UNCHANGED toChild PROVE SameRequests
  OBVIOUS
<1>1. \A i \in 1 .. Len(toChild') : i + 0 \in 1 .. Len(toChild) /\ toChild'[i] = toChild[i + 0]
  BY Lengths
<1> QED BY <1>1 DEF SameRequests

LEMMA SameWhenShifted == TypeOK /\ Shifts => SameRequests
<1> SUFFICES ASSUME TypeOK, Shifts PROVE SameRequests
  OBVIOUS
<1>1. \A i \in 1 .. Len(toChild') : i + 1 \in 1 .. Len(toChild) /\ toChild'[i] = toChild[i + 1]
  BY Lengths DEF Shifts
<1> QED BY <1>1 DEF SameRequests

LEMMA SameWhenOther ==
  ASSUME TypeOK, NEW kind \in {"interrupt", "shutdown"}, NEW id, NEW target, Carries(kind, id, target)
  PROVE  SameRequests
<1>1. ASSUME NEW i \in 1 .. Len(toChild'), toChild'[i].kind = "request"
      PROVE  i + 0 \in 1 .. Len(toChild) /\ toChild'[i] = toChild[i + 0]
  <2>1. i \in 1 .. Len(toChild) \/ i = Len(toChild) + 1
    BY Lengths DEF Carries
  <2>2. i # Len(toChild) + 1
    BY <1>1 DEF Carries
  <2> QED BY <2>1, <2>2 DEF Carries
<1> QED BY <1>1 DEF SameRequests

\* What SentOnce and WaitsForIt need to be left alone.
LEMMA SentKept ==
  ASSUME SentOnce, SameRequests, UNCHANGED <<answered, active, lastRequest>>,
         request' = "send" => request = "send"
  PROVE  SentOnce'
<1>1. PICK d \in {0, 1} :
        \A i \in 1 .. Len(toChild') :
          toChild'[i].kind = "request" =>
            i + d \in 1 .. Len(toChild) /\ toChild'[i] = toChild[i + d]
  BY DEF SameRequests
<1>2. ASSUME NEW i \in 1 .. Len(toChild'), toChild'[i].kind = "request"
      PROVE  /\ Unseen(toChild[i].id)'
             /\ \A j \in 1 .. Len(toChild') :
                  toChild'[j].kind = "request" /\ toChild'[j].id = toChild'[i].id => i = j
  <2>1. Unseen(toChild'[i].id)
    BY <1>1, <1>2 DEF SentOnce
  <2>2. ASSUME NEW j \in 1 .. Len(toChild'), toChild'[j].kind = "request",
               toChild'[j].id = toChild'[i].id
        PROVE  i = j
    <3>1. i \in Nat /\ j \in Nat /\ d \in Nat /\ i + d = j + d
      BY <1>1, <1>2, <2>2 DEF SentOnce
    <3> QED BY <3>1
  <2> QED BY <2>1, <2>2 DEF Unseen
<1>3. ASSUME NEW n \in 1 .. MaxRequest, n > lastRequest' \/ (n = lastRequest' /\ request' = "send")
      PROVE  /\ Unseen(Request(n))'
             /\ \A i \in 1 .. Len(toChild') :
                  toChild'[i].kind = "request" => toChild'[i].id # Request(n)
  <2>1. /\ Unseen(Request(n))
        /\ \A i \in 1 .. Len(toChild) : toChild[i].kind = "request" => toChild[i].id # Request(n)
    BY <1>3 DEF SentOnce
  <2> QED BY <1>1, <2>1 DEF Unseen
<1> QED BY <1>2, <1>3 DEF SentOnce

LEMMA WaitsKept ==
  ASSUME WaitsForIt, SameRequests, UNCHANGED <<active, request, lastRequest>>,
         alive' /\ ~fenced' => alive /\ ~fenced
  PROVE  WaitsForIt'
  BY DEF WaitsForIt, SameRequests

\* An answer that was written is the last one of its pipe.
LEMMA ReplyEffect ==
  ASSUME TypeOK, NEW kind \in Answers, NEW id \in Ids, Reply(kind, id)
  PROVE  AnswersWith(kind, id)
  BY DEF TypeOK, Reply, AnswersWith

\* A request is taken in, dropped by a worker that stops, or rejected.
LEMMA ReceiveRequestEffect ==
  ASSUME TypeOK, MessagesAreRight, SentOnce, ReceiveRequest
  PROVE  /\ Shifts /\ 1 \in 1 .. Len(toChild) /\ toChild[1].kind = "request"
         /\ toChild[1].id \in Requests /\ Unseen(toChild[1].id)
         /\ UNCHANGED <<alive, fenced, request, lastRequest, main, task, box>>
         /\ \/ /\ active = NoRequest /\ active' = toChild[1].id
               /\ tasks' = Append(tasks, toChild[1].id) /\ UNCHANGED <<answered, toParent>>
            \/ /\ active' = active /\ UNCHANGED <<tasks, answered, toParent>>
            \/ /\ active' = active /\ UNCHANGED tasks
               /\ answered' = [answered EXCEPT ![toChild[1].id] = "rejected"]
               /\ Reply("rejected", toChild[1].id)
<1>1. /\ Shifts /\ 1 \in 1 .. Len(toChild) /\ toChild[1].kind = "request"
      /\ Head(toChild) = toChild[1]
      /\ UNCHANGED <<alive, fenced, request, lastRequest, main, task, box>>
  BY ReceiveEffect DEF ReceiveRequest
<1>2. toChild[1].id \in Requests /\ Unseen(toChild[1].id)
  BY <1>1 DEF MessagesAreRight, SentOnce
<1> QED BY <1>1, <1>2 DEF ReceiveRequest, Answer, ReceiverCrashes

\* The main thread answers what it has in hand.
LEMMA MainAnswerEffect ==
  ASSUME TypeOK, OneActive, MainAnswer
  PROVE  /\ UNCHANGED <<toChild, request, lastRequest, fenced, box>>
         /\ active \in Requests /\ main = "handling"
         /\ \/ UNCHANGED <<answered, active, toParent, main, task, tasks>>
            \/ \E kind \in {"result", "rejected", "failure"} :
                 /\ answered' = [answered EXCEPT ![active] = kind] /\ Reply(kind, active)
                 /\ active' \in {active, NoRequest} /\ (kind # "failure" => active' = NoRequest)
                 /\ main' = "idle" /\ UNCHANGED <<task, tasks>>
<1>1. /\ UNCHANGED <<toChild, request, lastRequest, fenced, box>>
      /\ main = "handling" /\ task = active /\ active \in Requests
  BY DEF MainAnswer, MainAnswerRetiring, worldVars, callVars, ownerVars, readerVars, OneActive,
     TypeOK
<1>2. CASE UNCHANGED <<answered, active, toParent, main, task, tasks>>
  BY <1>1, <1>2
<1>3. ASSUME NEW kind \in {"result", "rejected", "failure"}, Answer(kind, task), main' = "idle",
             IF kind \in {"result", "rejected"} THEN active' = NoRequest /\ interrupted' = FALSE
                                               ELSE UNCHANGED <<active, interrupted>>,
             UNCHANGED <<task, tasks>>
      PROVE  /\ answered' = [answered EXCEPT ![active] = kind] /\ Reply(kind, active)
             /\ active' \in {active, NoRequest} /\ (kind # "failure" => active' = NoRequest)
             /\ main' = "idle" /\ UNCHANGED <<task, tasks>>
  BY <1>1, <1>3 DEF Answer
<1> QED BY <1>1, <1>2, <1>3 DEF MainAnswer, MainAnswerRetiring, Dies, workerVars, historyVars

\* Answers to requests that are written are the ones recorded.
LEMMA ReplyKept ==
  ASSUME TypeOK, AnswersAreTrue, NEW kind \in Answers, NEW id \in Ids, Reply(kind, id),
         id \in Requests => answered'[id] = kind,
         \A other \in Requests : answered[other] # "nothing" => answered'[other] = answered[other],
         UNCHANGED box
  PROVE  AnswersAreTrue'
<1>1. /\ Len(toParent') = Len(toParent) + 1
      /\ \A i \in 1 .. Len(toParent') : i \in 1 .. Len(toParent) \/ i = Len(toParent) + 1
      /\ \A i \in 1 .. Len(toParent) : toParent'[i] = toParent[i]
      /\ toParent'[Len(toParent) + 1] = [kind |-> kind, id |-> id]
  BY ReplyEffect, Lengths DEF AnswersWith
<1>0. \A i \in 1 .. Len(toParent) : toParent[i].kind # "nothing"
  <2>1. toParent \in Seq(Replies)
    BY DEF TypeOK, Replies
  <2>2. \A i \in 1 .. Len(toParent) : toParent[i] \in Replies
    BY <2>1
  <2> QED BY <2>2 DEF Replies, Answers
<1>2. ASSUME NEW i \in 1 .. Len(toParent'), toParent'[i].id \in Requests
      PROVE  answered'[toParent'[i].id] = toParent'[i].kind
  BY <1>0, <1>1, <1>2 DEF AnswersAreTrue
<1> QED BY <1>2 DEF AnswersAreTrue

\* The messages of request(), interrupt() and stop().
LEMMA MessagesStep ==
  TypeOK /\ Counted /\ MessagesAreRight /\ [Next]_vars => MessagesAreRight'
<1> SUFFICES ASSUME TypeOK, Counted, MessagesAreRight, [Next]_vars PROVE MessagesAreRight'
  OBVIOUS
<1> USE Lengths, Identities DEF MessagesAreRight, Carries, Shifts, ownerVars,
        readerVars, callVars, workerVars, historyVars, worldVars
<1>0. ASSUME Shifts PROVE MessagesAreRight'
  BY <1>0
<1>1. ASSUME RequestSend PROVE MessagesAreRight'
  BY <1>1, RequestSendEffect DEF RequestSend
<1>2. ASSUME InterruptSend PROVE MessagesAreRight'
  <2>1. CASE UNCHANGED toChild
    BY <2>1
  <2>2. ASSUME NEW n \in 1 .. MaxRequest, lastInterrupt \in 1 .. MaxInterrupt,
               Carries("interrupt", Interrupt(lastInterrupt), Request(n))
        PROVE  MessagesAreRight'
    <3>1. Request(n) \in Requests /\ Interrupt(lastInterrupt) \in Interrupts
      BY <2>2, Identities
    <3> QED BY <2>2, <3>1
  <2> QED BY <1>2, <2>1, <2>2, InterruptSendEffect
<1>3. ASSUME StopSend PROVE MessagesAreRight'
  <2>1. CASE Carries("shutdown", Shutdown, NoRequest)
    BY <2>1
  <2>2. CASE UNCHANGED toChild
    BY <2>2
  <2> QED BY <1>3, <2>1, <2>2, StopSendEffect
<1>4. ASSUME ReceiveRequest PROVE MessagesAreRight'
  BY <1>4, <1>0, ReceiveEffect DEF ReceiveRequest
<1>5. ASSUME ReceiveInterrupt PROVE MessagesAreRight'
  BY <1>5, <1>0, ReceiveEffect DEF ReceiveInterrupt, ReceiveInterruptIf
<1>6. ASSUME ReceiveShutdown PROVE MessagesAreRight'
  BY <1>6, <1>0, ReceiveEffect DEF ReceiveShutdown
<1>7. ASSUME StartEnds \/ RequestBegin \/ RequestReturn \/ RequestTimeout \/
                InterruptBegin \/ InterruptReturn PROVE MessagesAreRight'
  BY <1>7 DEF StartEnds, Terminate, RequestBegin, Register, Locked, RequestReturn,
      RequestTimeout, InterruptBegin, InterruptReturn
<1>8. ASSUME InterruptTimeout \/ StopBusy \/ StopBegin \/ StopAnswered \/ StopExited
                \/ StopTimeout PROVE MessagesAreRight'
  BY <1>8 DEF InterruptTimeout, InterruptTimeoutLeaving, StopBusy, Terminate, StopBegin,
      Register, StopAnswered, StopAnsweredGoingTo, StopExited, StopTimeout
<1>9. ASSUME ReadAnswer \/ ReaderFails \/ OwnerDies \/ ImportEnds \/ OwnerLost \/
                MainTake PROVE MessagesAreRight'
  BY <1>9 DEF ReadAnswer, ReaderFails, ReaderFailsFor, OwnerDies, ImportEnds, Reply,
      Dies, OwnerLost, OwnerLostWith, MainTake, MainTakeAsRequest
<1>10. ASSUME MainAnswer \/ MainClose \/ MainExits \/ MainQuits \/ Watchdog \/ Crash PROVE MessagesAreRight'
  BY <1>10 DEF MainAnswer, MainAnswerRetiring, Answer, Reply, Dies, MainClose,
      MainExits, MainQuits, Watchdog, Crash
<1>11. ASSUME UNCHANGED vars PROVE MessagesAreRight'
  BY <1>11 DEF vars
<1> QED BY <1>1, <1>2, <1>3, <1>4, <1>5, <1>6, <1>7, <1>8, <1>9, <1>10, <1>11 DEF Next,
      Handle, Receive

\* The hook runs for a target that is active.
LEMMA HitsStep ==
  TypeOK /\ OneActive /\ InterruptHitsItsTarget /\ [Next]_vars => InterruptHitsItsTarget'
<1> SUFFICES ASSUME TypeOK, OneActive, InterruptHitsItsTarget, [Next]_vars PROVE
    InterruptHitsItsTarget'
  OBVIOUS
<1> USE DEF TypeOK, OneActive, InterruptHitsItsTarget, ownerVars, readerVars, callVars,
        workerVars, historyVars, worldVars
<1>1. ASSUME ReceiveInterrupt PROVE InterruptHitsItsTarget'
  BY <1>1 DEF ReceiveInterrupt, ReceiveInterruptIf, Receives, Reply, ReceiverCrashes
<1>2. ASSUME StartEnds \/ RequestBegin \/ RequestSend \/ RequestReturn \/
                RequestTimeout \/ InterruptBegin PROVE InterruptHitsItsTarget'
  BY <1>2 DEF StartEnds, Terminate, RequestBegin, Register, Locked, RequestSend, Send,
      RequestReturn, RequestTimeout, InterruptBegin
<1>3. ASSUME InterruptSend \/ InterruptReturn \/ InterruptTimeout \/ StopBusy \/
                StopBegin \/ StopSend PROVE InterruptHitsItsTarget'
  BY <1>3 DEF InterruptSend, Send, Terminate, InterruptReturn, InterruptTimeout,
      InterruptTimeoutLeaving, StopBusy, StopBegin, Register, StopSend
<1>4. ASSUME StopAnswered \/ StopExited \/ StopTimeout \/ ReadAnswer \/ ReaderFails \/
                OwnerDies PROVE InterruptHitsItsTarget'
  BY <1>4 DEF StopAnswered, StopAnsweredGoingTo, Terminate, StopExited, StopTimeout,
      ReadAnswer, ReaderFails, ReaderFailsFor, OwnerDies
<1>5. ASSUME ImportEnds \/ ReceiveRequest \/ ReceiveShutdown \/ OwnerLost \/ MainTake
                \/ MainAnswer PROVE InterruptHitsItsTarget'
  BY <1>5 DEF ImportEnds, Reply, Dies, ReceiveRequest, Receives, Answer,
      ReceiverCrashes, ReceiveShutdown, OwnerLost, OwnerLostWith, MainTake,
      MainTakeAsRequest, MainAnswer, MainAnswerRetiring
<1>6. ASSUME MainClose \/ MainExits \/ MainQuits \/ Watchdog \/ Crash PROVE InterruptHitsItsTarget'
  BY <1>6 DEF MainClose, Reply, Dies, MainExits, MainQuits, Watchdog, Crash
<1>7. ASSUME UNCHANGED vars PROVE InterruptHitsItsTarget'
  BY <1>7 DEF vars
<1> QED BY <1>1, <1>2, <1>3, <1>4, <1>5, <1>6, <1>7 DEF Next, Handle, Receive

\* A request becomes active when it is taken from the pipe, if no other is; a result and
\* a refusal retire it.
LEMMA ActiveStep ==
  TypeOK /\ MessagesAreRight /\ SentOnce /\ OneActive /\ [Next]_vars => OneActive'
<1> SUFFICES ASSUME TypeOK, MessagesAreRight, SentOnce, OneActive, [Next]_vars PROVE
    OneActive'
  OBVIOUS
<1> USE Identities DEF TypeOK, ownerVars, readerVars, callVars, workerVars, historyVars,
        worldVars
<1>1. ASSUME ImportEnds PROVE OneActive'
  BY <1>1 DEF ImportEnds, Reply, Dies, OneActive
<1>2. ASSUME ReceiveRequest PROVE OneActive'
  <2> DEFINE id == toChild[1].id
  <2>1. id \in Requests /\ Unseen(id) /\ UNCHANGED <<main, task>>
    BY <1>2, ReceiveRequestEffect
  <2>2. CASE /\ active' = active /\ UNCHANGED tasks
             /\ active \in Requests => answered'[active] = answered[active]
    <3>1. active # NoRequest => active \in Requests
      BY DEF TypeOK
    <3>2. UNCHANGED <<main, task, active, tasks>>
      BY <2>1, <2>2
    <3>3. active # NoRequest => answered'[active] = answered[active]
      BY <2>2, <3>1
    <3>4. \A i \in 1 .. Len(tasks) : tasks[i] \in Requests => active # NoRequest
      BY Identities DEF OneActive
    <3> QED BY <3>2, <3>3, <3>4 DEF OneActive
  <2>3. CASE active = NoRequest /\ active' = id /\ tasks' = Append(tasks, id) /\ UNCHANGED answered
    <3>1. /\ Len(tasks') = Len(tasks) + 1 /\ tasks'[Len(tasks) + 1] = id
          /\ \A i \in 1 .. Len(tasks') : i \in 1 .. Len(tasks) \/ i = Len(tasks) + 1
          /\ \A i \in 1 .. Len(tasks) : tasks'[i] = tasks[i]
      BY <2>1, <2>3, Lengths DEF TypeOK
    <3>2. main # "handling" /\ \A i \in 1 .. Len(tasks) : tasks[i] \notin Requests
      BY <2>3, Identities DEF OneActive
    <3>3. answered'[active'] = "nothing" /\ main' # "handling"
      BY <2>1, <2>3, <3>2 DEF Unseen
    <3>4. \A i \in 1 .. Len(tasks') : tasks'[i] \in Requests => i = Len(tasks) + 1 /\ tasks'[i] = active'
      BY <2>3, <3>1, <3>2
    <3> QED BY <3>3, <3>4 DEF OneActive
  <2> QED BY <1>2, <2>1, <2>2, <2>3, ReceiveRequestEffect DEF Unseen, TypeOK
<1>3. ASSUME ReceiveShutdown PROVE OneActive'
  BY <1>3 DEF ReceiveShutdown, Receives, OneActive
<1>4. ASSUME OwnerLost PROVE OneActive'
  BY <1>4 DEF OwnerLost, OwnerLostWith, OneActive
<1>5. ASSUME MainTake PROVE OneActive'
  <2>1. /\ main = "idle" /\ tasks # <<>> /\ tasks' = Tail(tasks)
        /\ tasks \in Seq(Tasks) /\ UNCHANGED <<active, answered>>
    BY <1>5 DEF MainTake, MainTakeAsRequest, TypeOK, Tasks, historyVars
  <2>2. /\ Head(tasks) = tasks[1] /\ 1 \in 1 .. Len(tasks)
        /\ \A i \in 1 .. Len(tasks') :
             i + 1 \in 1 .. Len(tasks) /\ tasks'[i] = tasks[i + 1] /\ i + 1 # 1
    BY <2>1, Tails
  <2>3. CASE tasks[1] \in Requests
    <3>1. task' = tasks[1] /\ main' = "handling" /\ tasks[1] = active /\ answered[active] = "nothing"
      BY <1>5, <2>2, <2>3 DEF MainTake, MainTakeAsRequest, OneActive
    <3>2. ASSUME NEW i \in 1 .. Len(tasks') PROVE tasks'[i] \notin Requests
      <4>1. i + 1 \in 1 .. Len(tasks) /\ tasks'[i] = tasks[i + 1] /\ i + 1 # 1
        BY <2>2
      <4> QED BY <2>2, <2>3, <4>1 DEF OneActive
    <3> QED BY <2>1, <2>3, <3>1, <3>2, Identities DEF OneActive
  <2>4. CASE tasks[1] \notin Requests
    <3>1. main' \in {"quitting", "closing"}
      <4>1. tasks[1] = Quit \/ tasks[1] = Shutdown
        BY <2>1, <2>2, <2>4 DEF Tasks
      <4> QED BY <1>5, <2>2, <2>4, <4>1, Identities DEF MainTake, MainTakeAsRequest
    <3>2. ASSUME NEW i \in 1 .. Len(tasks'), NEW j \in 1 .. Len(tasks'),
                 tasks'[i] \in Requests, tasks'[j] \in Requests
          PROVE  i = j /\ tasks'[i] = active /\ answered[active] = "nothing"
      <4>1. /\ i + 1 \in 1 .. Len(tasks) /\ tasks[i + 1] \in Requests /\ tasks'[i] = tasks[i + 1]
            /\ j + 1 \in 1 .. Len(tasks) /\ tasks[j + 1] \in Requests /\ i \in Nat /\ j \in Nat
        BY <2>2, <3>2
      <4>2. i + 1 = j + 1 /\ tasks[i + 1] = active /\ answered[active] = "nothing"
        BY <4>1 DEF OneActive
      <4> QED BY <4>1, <4>2
    <3> QED BY <2>1, <3>1, <3>2 DEF OneActive
  <2> QED BY <2>3, <2>4
<1>6. ASSUME MainAnswer PROVE OneActive'
  <2>1. CASE UNCHANGED <<answered, active, main, task, tasks>>
    BY <2>1 DEF OneActive
  <2>2. ASSUME NEW kind \in {"result", "rejected", "failure"},
               answered' = [answered EXCEPT ![active] = kind], active' \in {active, NoRequest},
               kind # "failure" => active' = NoRequest, main' = "idle", UNCHANGED <<task, tasks>>
        PROVE  OneActive'
    <3>1. \A i \in 1 .. Len(tasks) : tasks[i] \notin Requests
      BY <1>6, MainAnswerEffect DEF OneActive
    <3>2. active' # NoRequest => answered'[active'] = "failure"
      BY <1>6, <2>2, MainAnswerEffect DEF TypeOK
    <3> QED BY <2>2, <3>1, <3>2 DEF OneActive
  <2> QED BY <1>6, <2>1, <2>2, MainAnswerEffect
<1>7. ASSUME MainClose PROVE OneActive'
  BY <1>7 DEF MainClose, Reply, Dies, OneActive
<1>8. ASSUME StartEnds \/ RequestBegin \/ RequestSend \/ RequestReturn \/
                RequestTimeout \/ InterruptBegin PROVE OneActive'
  BY <1>8 DEF StartEnds, Terminate, RequestBegin, Register, Locked, RequestSend, Send,
      RequestReturn, RequestTimeout, InterruptBegin, OneActive
<1>9. ASSUME InterruptSend \/ InterruptReturn \/ InterruptTimeout \/ StopBusy \/
                StopBegin \/ StopSend PROVE OneActive'
  BY <1>9 DEF InterruptSend, Send, Terminate, InterruptReturn, InterruptTimeout,
      InterruptTimeoutLeaving, StopBusy, StopBegin, Register, StopSend, OneActive
<1>10. ASSUME StopAnswered \/ StopExited \/ StopTimeout \/ ReadAnswer \/ ReaderFails
                 \/ OwnerDies PROVE OneActive'
  BY <1>10 DEF StopAnswered, StopAnsweredGoingTo, Terminate, StopExited, StopTimeout,
      ReadAnswer, ReaderFails, ReaderFailsFor, OwnerDies, OneActive
<1>11. ASSUME ReceiveInterrupt \/ MainExits \/ MainQuits \/ Watchdog \/ Crash PROVE OneActive'
  BY <1>11 DEF ReceiveInterrupt, ReceiveInterruptIf, Receives, Reply, ReceiverCrashes,
      MainExits, Dies, MainQuits, Watchdog, Crash, OneActive
<1>12. ASSUME UNCHANGED vars PROVE OneActive'
  BY <1>12 DEF vars, OneActive
<1> QED BY <1>1, <1>2, <1>3, <1>4, <1>5, <1>6, <1>7, <1>8, <1>9, <1>10, <1>11, <1>12 DEF
      Next, Handle, Receive

\* request() makes a new identity for each message, and the worker takes each once.
LEMMA SentStep ==
  TypeOK /\ Counted /\ MessagesAreRight /\ OneActive /\ SentOnce /\ [Next]_vars => SentOnce'
<1> SUFFICES ASSUME TypeOK, Counted, MessagesAreRight, OneActive, SentOnce, [Next]_vars
    PROVE SentOnce'
  OBVIOUS
<1> USE Lengths, Identities DEF ownerVars, readerVars, callVars, workerVars,
        historyVars, worldVars
<1>1. ASSUME RequestBegin PROVE SentOnce'
  <2>1. UNCHANGED <<toChild, answered, active>> /\ lastRequest' = lastRequest + 1
    BY <1>1 DEF RequestBegin
  <2>2. \A n \in 1 .. MaxRequest : n > lastRequest' \/ n = lastRequest' => n > lastRequest
    BY <2>1, BoundsAssumption DEF TypeOK
  <2> QED BY <2>1, <2>2 DEF SentOnce, Unseen
<1>2. ASSUME RequestSend PROVE SentOnce'
  <2>1. CASE UNCHANGED toChild /\ request' = "idle"
    BY <1>2, <2>1, SameWhenUnchanged, SentKept DEF RequestSend
  <2>2. CASE Carries("request", Request(lastRequest), NoRequest) /\ request' = "wait"
    <3> DEFINE l == Len(toChild) + 1
    <3>1. /\ lastRequest \in 1 .. MaxRequest /\ request = "send" /\ Len(toChild') = l
          /\ \A i \in 1 .. l : i \in 1 .. Len(toChild) \/ i = l
          /\ \A i \in 1 .. Len(toChild) : toChild'[i] = toChild[i]
          /\ toChild'[l].id = Request(lastRequest)
      BY <1>2, <2>2, RequestSendEffect, Lengths DEF Carries
    <3>2. UNCHANGED <<answered, active, lastRequest>>
      BY <1>2 DEF RequestSend
    <3>3. /\ Unseen(Request(lastRequest))
          /\ \A i \in 1 .. Len(toChild) :
               toChild[i].kind = "request" => toChild[i].id # Request(lastRequest)
      BY <3>1 DEF SentOnce
    <3>4. ASSUME NEW i \in 1 .. l, toChild'[i].kind = "request"
          PROVE  /\ Unseen(toChild[i].id)'
                 /\ \A j \in 1 .. l :
                      toChild'[j].kind = "request" /\ toChild'[j].id = toChild'[i].id => i = j
      <4>1. Unseen(toChild'[i].id)
        BY <3>1, <3>3, <3>4 DEF SentOnce
      <4>2. ASSUME NEW j \in 1 .. l, toChild'[j].kind = "request", toChild'[j].id = toChild'[i].id
            PROVE  i = j
        BY <3>1, <3>3, <3>4, <4>2 DEF SentOnce
      <4> QED BY <3>2, <4>1, <4>2 DEF Unseen
    <3>5. ASSUME NEW n \in 1 .. MaxRequest, n > lastRequest
          PROVE  /\ Unseen(Request(n))'
                 /\ \A i \in 1 .. l : toChild'[i].kind = "request" => toChild'[i].id # Request(n)
      <4>1. /\ Unseen(Request(n)) /\ Request(n) # Request(lastRequest)
            /\ \A i \in 1 .. Len(toChild) : toChild[i].kind = "request" => toChild[i].id # Request(n)
        BY <3>1, <3>5, Identities DEF SentOnce
      <4> QED BY <3>1, <3>2, <4>1 DEF Unseen
    <3> QED BY <2>2, <3>1, <3>2, <3>4, <3>5 DEF SentOnce
  <2> QED BY <1>2, <2>1, <2>2, RequestSendEffect
<1>3. ASSUME RequestReturn PROVE SentOnce'
  BY <1>3 DEF RequestReturn, Terminate, TypeOK, SentOnce, Unseen
<1>4. ASSUME RequestTimeout PROVE SentOnce'
  BY <1>4 DEF RequestTimeout, Terminate, TypeOK, SentOnce, Unseen
<1>5. ASSUME InterruptSend PROVE SentOnce'
  <2>1. SameRequests
    BY <1>5, InterruptSendEffect, SameWhenOther, SameWhenUnchanged
  <2> QED BY <1>5, <2>1, InterruptSendEffect, SentKept DEF InterruptSend
<1>6. ASSUME StopSend PROVE SentOnce'
  <2>1. SameRequests
    BY <1>6, StopSendEffect, SameWhenOther, SameWhenUnchanged
  <2> QED BY <1>6, <2>1, StopSendEffect, SentKept DEF StopSend
<1>7. ASSUME ReceiveRequest PROVE SentOnce'
  <2> DEFINE id == toChild[1].id
  <2>1. /\ Shifts /\ 1 \in 1 .. Len(toChild) /\ toChild[1].kind = "request"
        /\ UNCHANGED <<request, lastRequest>>
    BY <1>7, ReceiveRequestEffect
  <2>2. /\ id \in Requests
        /\ \/ active' = id /\ answered' = answered
           \/ active' = active /\ answered' = answered
           \/ active' = active /\ answered' = [answered EXCEPT ![id] = "rejected"]
    BY <1>7, ReceiveRequestEffect
  <2>3. \A other \in Requests : other # id /\ Unseen(other) => Unseen(other)'
    BY <2>2 DEF Unseen, TypeOK
  <2>4. ASSUME NEW i \in 1 .. Len(toChild'), toChild'[i].kind = "request"
        PROVE  /\ Unseen(toChild[i].id)'
               /\ \A j \in 1 .. Len(toChild') :
                    toChild'[j].kind = "request" /\ toChild'[j].id = toChild'[i].id => i = j
    <3>1. /\ i + 1 \in 1 .. Len(toChild) /\ i + 1 # 1 /\ toChild'[i] = toChild[i + 1]
          /\ \A j \in 1 .. Len(toChild') : j + 1 \in 1 .. Len(toChild) /\ toChild'[j] = toChild[j + 1]
      BY <2>1, Lengths DEF Shifts
    <3>2. toChild'[i].id \in Requests /\ toChild'[i].id # id /\ Unseen(toChild'[i].id)
      BY <2>1, <2>4, <3>1 DEF SentOnce, MessagesAreRight
    <3>3. ASSUME NEW j \in 1 .. Len(toChild'), toChild'[j].kind = "request",
                 toChild'[j].id = toChild'[i].id
          PROVE  i = j
      <4>1. i \in Nat /\ j \in Nat /\ i + 1 = j + 1
        BY <2>4, <3>1, <3>3 DEF SentOnce
      <4> QED BY <4>1
    <3> QED BY <2>3, <3>2, <3>3
  <2>5. ASSUME NEW n \in 1 .. MaxRequest, n > lastRequest \/ (n = lastRequest /\ request = "send")
        PROVE  /\ Unseen(Request(n))'
               /\ \A i \in 1 .. Len(toChild') :
                    toChild'[i].kind = "request" => toChild'[i].id # Request(n)
    <3>1. /\ Unseen(Request(n)) /\ Request(n) # id /\ Request(n) \in Requests
          /\ \A i \in 1 .. Len(toChild) : toChild[i].kind = "request" => toChild[i].id # Request(n)
      BY <2>1, <2>5, Identities DEF SentOnce
    <3>2. \A i \in 1 .. Len(toChild') : i + 1 \in 1 .. Len(toChild) /\ toChild'[i] = toChild[i + 1]
      BY <2>1, Lengths DEF Shifts
    <3> QED BY <2>3, <3>1, <3>2
  <2> QED BY <2>1, <2>4, <2>5 DEF SentOnce
<1>8. ASSUME ReceiveInterrupt PROVE SentOnce'
  <2>1. SameRequests /\ UNCHANGED <<alive, fenced, request, lastRequest>>
    BY <1>8, ReceiveEffect, SameWhenShifted DEF ReceiveInterrupt, ReceiveInterruptIf
  <2>2. UNCHANGED <<answered, active>>
    BY <1>8 DEF ReceiveInterrupt, ReceiveInterruptIf, ReceiverCrashes
  <2> QED BY <2>1, <2>2, SentKept
<1>9. ASSUME ReceiveShutdown PROVE SentOnce'
  <2>1. SameRequests /\ UNCHANGED <<alive, fenced, request, lastRequest>>
    BY <1>9, ReceiveEffect, SameWhenShifted DEF ReceiveShutdown
  <2> QED BY <1>9, <2>1, SentKept DEF ReceiveShutdown
<1>10. ASSUME MainAnswer PROVE SentOnce'
  <2>1. \A id \in Requests : Unseen(id) => Unseen(id)'
    BY <1>10, MainAnswerEffect, Identities DEF Unseen, TypeOK
  <2>2. \A i \in 1 .. Len(toChild) : toChild[i].kind = "request" => toChild[i].id \in Requests
    BY DEF MessagesAreRight
  <2> QED BY <1>10, <2>1, <2>2, MainAnswerEffect, Identities DEF SentOnce
<1>11. ASSUME StartEnds \/ InterruptBegin \/ InterruptReturn \/ InterruptTimeout \/
                 StopBusy \/ StopBegin PROVE SentOnce'
  BY <1>11 DEF StartEnds, Terminate, InterruptBegin, Register, InterruptReturn,
      InterruptTimeout, InterruptTimeoutLeaving, StopBusy, StopBegin, SentOnce, Unseen
<1>12. ASSUME StopAnswered \/ StopExited \/ StopTimeout \/ ReadAnswer \/ ReaderFails
                 \/ OwnerDies PROVE SentOnce'
  BY <1>12 DEF StopAnswered, StopAnsweredGoingTo, Terminate, StopExited, StopTimeout,
      ReadAnswer, ReaderFails, ReaderFailsFor, OwnerDies, SentOnce, Unseen
<1>13. ASSUME ImportEnds \/ OwnerLost \/ MainTake \/ MainClose \/ MainExits \/
                 MainQuits PROVE SentOnce'
  BY <1>13 DEF ImportEnds, Reply, Dies, OwnerLost, OwnerLostWith, MainTake,
      MainTakeAsRequest, MainClose, MainExits, MainQuits, SentOnce, Unseen
<1>14. ASSUME Watchdog \/ Crash PROVE SentOnce'
  BY <1>14 DEF Watchdog, Dies, Crash, SentOnce, Unseen
<1>15. ASSUME UNCHANGED vars PROVE SentOnce'
  BY <1>15 DEF vars, SentOnce, Unseen
<1> QED BY <1>1, <1>2, <1>3, <1>4, <1>5, <1>6, <1>7, <1>8, <1>9, <1>10, <1>11, <1>12,
      <1>13, <1>14, <1>15 DEF Next, Handle, Receive

\* The worker answers a request once, and the reader passes on what it reads.
LEMMA TrueStep ==
  TypeOK /\ MessagesAreRight /\ OneActive /\ SentOnce /\ AnswersAreTrue /\ [Next]_vars => AnswersAreTrue'
<1> SUFFICES ASSUME TypeOK, MessagesAreRight, OneActive, SentOnce, AnswersAreTrue,
    [Next]_vars PROVE AnswersAreTrue'
  OBVIOUS
<1> USE Identities DEF ownerVars, readerVars, callVars, workerVars, historyVars,
        worldVars
<1>1. ASSUME RequestBegin PROVE AnswersAreTrue'
  BY <1>1 DEF RequestBegin, Register, Locked, TypeOK, AnswersAreTrue, Answers
<1>2. ASSUME InterruptBegin PROVE AnswersAreTrue'
  BY <1>2 DEF InterruptBegin, Register, TypeOK, AnswersAreTrue, Answers
<1>3. ASSUME StopBegin PROVE AnswersAreTrue'
  BY <1>3 DEF StopBegin, Register, TypeOK, AnswersAreTrue, Answers
<1>4. ASSUME ReadAnswer PROVE AnswersAreTrue'
  BY <1>4 DEF ReadAnswer, TypeOK, AnswersAreTrue, Answers
<1>5. ASSUME ReaderFails PROVE AnswersAreTrue'
  BY <1>5 DEF ReaderFails, ReaderFailsFor, TypeOK, AnswersAreTrue, Answers
<1>6. ASSUME ImportEnds PROVE AnswersAreTrue'
  <2>1. CASE Reply("ready", Ready) /\ UNCHANGED <<answered, box>>
    BY <2>1, ReplyKept DEF Answers
  <2>2. CASE UNCHANGED <<toParent, answered, box>>
    BY <2>2 DEF AnswersAreTrue
  <2> QED BY <1>6, <2>1, <2>2 DEF ImportEnds, Dies
<1>7. ASSUME ReceiveRequest PROVE AnswersAreTrue'
  <2> DEFINE id == toChild[1].id
  <2>1. id \in Requests /\ answered[id] = "nothing" /\ UNCHANGED box /\ id \in Ids
    BY <1>7, ReceiveRequestEffect DEF Unseen
  <2>2. CASE UNCHANGED <<answered, toParent>>
    BY <2>1, <2>2 DEF AnswersAreTrue
  <2>3. CASE answered' = [answered EXCEPT ![id] = "rejected"] /\ Reply("rejected", id)
    <3>1. /\ answered'[id] = "rejected" /\ "rejected" \in Answers
          /\ \A other \in Requests : answered[other] # "nothing" => answered'[other] = answered[other]
      BY <2>1, <2>3 DEF TypeOK, Answers
    <3> QED BY <2>1, <2>3, <3>1, ReplyKept
  <2> QED BY <1>7, <2>2, <2>3, ReceiveRequestEffect
<1>8. ASSUME ReceiveInterrupt PROVE AnswersAreTrue'
  <2>1. /\ toChild[1].id \in Interrupts /\ UNCHANGED <<answered, box>>
        /\ \/ \E kind \in {"result", "rejected"} : Reply(kind, toChild[1].id)
           \/ UNCHANGED toParent
    BY <1>8, ReceiveEffect DEF ReceiveInterrupt, ReceiveInterruptIf, ReceiverCrashes, MessagesAreRight
  <2>2. ASSUME NEW kind \in {"result", "rejected"}, Reply(kind, toChild[1].id)
        PROVE  AnswersAreTrue'
    <3>1. kind \in Answers /\ toChild[1].id \in Ids /\ toChild[1].id \notin Requests
      BY <2>1 DEF Answers
    <3> QED BY <2>1, <2>2, <3>1, ReplyKept
  <2>3. CASE UNCHANGED toParent
    BY <2>1, <2>3 DEF AnswersAreTrue
  <2> QED BY <2>1, <2>2, <2>3
<1>9. ASSUME MainAnswer PROVE AnswersAreTrue'
  <2>1. active \in Requests /\ active \in Ids /\ answered[active] = "nothing" /\ UNCHANGED box
    BY <1>9, MainAnswerEffect DEF OneActive
  <2>2. CASE UNCHANGED <<answered, toParent>>
    BY <2>1, <2>2 DEF AnswersAreTrue
  <2>3. ASSUME NEW kind \in {"result", "rejected", "failure"},
               answered' = [answered EXCEPT ![active] = kind], Reply(kind, active)
        PROVE  AnswersAreTrue'
    <3>1. /\ answered'[active] = kind /\ kind \in Answers
          /\ \A other \in Requests : answered[other] # "nothing" => answered'[other] = answered[other]
      BY <2>1, <2>3 DEF TypeOK, Answers
    <3> QED BY <2>1, <2>3, <3>1, ReplyKept
  <2> QED BY <1>9, <2>2, <2>3, MainAnswerEffect
<1>10. ASSUME MainClose PROVE AnswersAreTrue'
  <2>1. CASE Reply("stopped", Shutdown) /\ UNCHANGED <<answered, box>>
    BY <2>1, ReplyKept DEF Answers
  <2>2. CASE UNCHANGED <<toParent, answered, box>>
    BY <2>2 DEF AnswersAreTrue
  <2> QED BY <1>10, <2>1, <2>2 DEF MainClose, Dies
<1>11. ASSUME StartEnds \/ RequestSend \/ RequestReturn \/ RequestTimeout \/
                 InterruptSend \/ InterruptReturn PROVE AnswersAreTrue'
  BY <1>11 DEF StartEnds, Terminate, RequestSend, Send, RequestReturn, RequestTimeout,
      InterruptSend, InterruptReturn, AnswersAreTrue
<1>12. ASSUME InterruptTimeout \/ StopBusy \/ StopSend \/ StopAnswered \/ StopExited
                 \/ StopTimeout PROVE AnswersAreTrue'
  BY <1>12 DEF InterruptTimeout, InterruptTimeoutLeaving, StopBusy, Terminate, StopSend,
      Send, StopAnswered, StopAnsweredGoingTo, StopExited, StopTimeout, AnswersAreTrue
<1>13. ASSUME OwnerDies \/ ReceiveShutdown \/ OwnerLost \/ MainTake \/ MainExits \/
                 MainQuits PROVE AnswersAreTrue'
  BY <1>13 DEF OwnerDies, ReceiveShutdown, Receives, OwnerLost, OwnerLostWith, MainTake,
      MainTakeAsRequest, MainExits, Dies, MainQuits, AnswersAreTrue
<1>14. ASSUME Watchdog \/ Crash PROVE AnswersAreTrue'
  BY <1>14 DEF Watchdog, Dies, Crash, AnswersAreTrue
<1>15. ASSUME UNCHANGED vars PROVE AnswersAreTrue'
  BY <1>15 DEF vars, AnswersAreTrue
<1> QED BY <1>1, <1>2, <1>3, <1>4, <1>5, <1>6, <1>7, <1>8, <1>9, <1>10, <1>11, <1>12,
      <1>13, <1>14, <1>15 DEF Next, Handle, Receive

\* A request returns without a fence only when the worker has retired it.
LEMMA WaitsStep ==
  TypeOK /\ Counted /\ MessagesAreRight /\ OneActive /\ SentOnce /\ AnswersAreTrue /\
     WaitsForIt /\ [Next]_vars => WaitsForIt'
<1> SUFFICES ASSUME TypeOK, Counted, MessagesAreRight, OneActive, SentOnce, AnswersAreTrue,
    WaitsForIt, [Next]_vars PROVE WaitsForIt'
  OBVIOUS
<1> USE Lengths, Identities DEF ownerVars, readerVars, callVars, workerVars,
        historyVars, worldVars
<1>1. ASSUME StartEnds PROVE WaitsForIt'
  <2>1. UNCHANGED <<toChild, active, request, lastRequest>> /\ (alive' /\ ~fenced' => alive /\ ~fenced)
    BY <1>1 DEF StartEnds, Terminate
  <2> QED BY <2>1, SameWhenUnchanged, WaitsKept
<1>2. ASSUME RequestBegin PROVE WaitsForIt'
  BY <1>2 DEF RequestBegin, Register, Locked, WaitsForIt
<1>3. ASSUME RequestSend PROVE WaitsForIt'
  <2>1. CASE UNCHANGED toChild /\ fenced'
    BY <2>1 DEF WaitsForIt
  <2>2. CASE Carries("request", Request(lastRequest), NoRequest) /\ request' = "wait"
    <3>1. /\ request = "send" /\ UNCHANGED <<active, lastRequest, alive, fenced>>
          /\ Len(toChild') = Len(toChild) + 1
          /\ \A i \in 1 .. Len(toChild') : i \in 1 .. Len(toChild) \/ i = Len(toChild) + 1
          /\ \A i \in 1 .. Len(toChild) : toChild'[i] = toChild[i]
          /\ toChild'[Len(toChild) + 1].id = Request(lastRequest)
      BY <1>3, <2>2, RequestSendEffect, Lengths DEF Carries, RequestSend
    <3> QED BY <2>2, <3>1 DEF WaitsForIt
  <2> QED BY <1>3, <2>1, <2>2, RequestSendEffect
<1>4. ASSUME RequestReturn PROVE WaitsForIt'
  BY <1>4 DEF RequestReturn, Terminate, WaitsForIt, Counted, OneActive, SentOnce,
      AnswersAreTrue, Unseen, MessagesAreRight
<1>5. ASSUME RequestTimeout PROVE WaitsForIt'
  BY <1>5 DEF RequestTimeout, Terminate, WaitsForIt
<1>6. ASSUME InterruptSend PROVE WaitsForIt'
  <2>1. SameRequests
    BY <1>6, InterruptSendEffect, SameWhenOther, SameWhenUnchanged
  <2> QED BY <1>6, <2>1, InterruptSendEffect, WaitsKept DEF InterruptSend
<1>7. ASSUME InterruptReturn PROVE WaitsForIt'
  BY <1>7 DEF InterruptReturn, Terminate, WaitsForIt
<1>8. ASSUME StopBusy PROVE WaitsForIt'
  BY <1>8 DEF StopBusy, Terminate, WaitsForIt
<1>9. ASSUME StopBegin PROVE WaitsForIt'
  BY <1>9 DEF StopBegin, Register, WaitsForIt
<1>10. ASSUME StopSend PROVE WaitsForIt'
  <2>1. SameRequests
    BY <1>10, StopSendEffect, SameWhenOther, SameWhenUnchanged
  <2> QED BY <1>10, <2>1, StopSendEffect, WaitsKept DEF StopSend
<1>11. ASSUME StopAnswered PROVE WaitsForIt'
  BY <1>11 DEF StopAnswered, StopAnsweredGoingTo, Terminate, WaitsForIt
<1>12. ASSUME StopTimeout PROVE WaitsForIt'
  BY <1>12 DEF StopTimeout, Terminate, WaitsForIt
<1>13. ASSUME ReceiveRequest PROVE WaitsForIt'
  <2>1. /\ Shifts /\ 1 \in 1 .. Len(toChild) /\ toChild[1].kind = "request"
        /\ UNCHANGED <<alive, fenced, request, lastRequest>>
    BY <1>13, ReceiveEffect DEF ReceiveRequest
  <2>2. active' \in {active, toChild[1].id}
    BY <1>13, ReceiveEffect DEF ReceiveRequest, ReceiverCrashes
  <2>3. \A i \in 1 .. Len(toChild') : i + 1 \in 1 .. Len(toChild) /\ toChild'[i] = toChild[i + 1]
    BY <2>1, Lengths DEF Shifts
  <2> QED BY <2>1, <2>2, <2>3 DEF WaitsForIt
<1>14. ASSUME ReceiveInterrupt PROVE WaitsForIt'
  <2>1. SameRequests /\ UNCHANGED <<alive, fenced, request, lastRequest>>
    BY <1>14, ReceiveEffect, SameWhenShifted DEF ReceiveInterrupt, ReceiveInterruptIf
  <2>2. UNCHANGED <<answered, active>>
    BY <1>14 DEF ReceiveInterrupt, ReceiveInterruptIf, ReceiverCrashes
  <2> QED BY <2>1, <2>2, WaitsKept
<1>15. ASSUME ReceiveShutdown PROVE WaitsForIt'
  <2>1. SameRequests /\ UNCHANGED <<alive, fenced, request, lastRequest>>
    BY <1>15, ReceiveEffect, SameWhenShifted DEF ReceiveShutdown
  <2> QED BY <1>15, <2>1, WaitsKept DEF ReceiveShutdown
<1>16. ASSUME MainAnswer PROVE WaitsForIt'
  BY <1>16 DEF MainAnswer, MainAnswerRetiring, Answer, Reply, Dies, WaitsForIt
<1>17. ASSUME InterruptBegin \/ InterruptTimeout \/ StopExited \/ ReadAnswer \/
                 ReaderFails \/ OwnerDies PROVE WaitsForIt'
  BY <1>17 DEF InterruptBegin, Register, InterruptTimeout, InterruptTimeoutLeaving,
      StopExited, ReadAnswer, ReaderFails, ReaderFailsFor, OwnerDies, WaitsForIt
<1>18. ASSUME ImportEnds \/ OwnerLost \/ MainTake \/ MainClose \/ MainExits \/
                 MainQuits PROVE WaitsForIt'
  BY <1>18 DEF ImportEnds, Reply, Dies, OwnerLost, OwnerLostWith, MainTake,
      MainTakeAsRequest, MainClose, MainExits, MainQuits, WaitsForIt
<1>19. ASSUME Watchdog \/ Crash PROVE WaitsForIt'
  BY <1>19 DEF Watchdog, Dies, Crash, WaitsForIt
<1>20. ASSUME UNCHANGED vars PROVE WaitsForIt'
  BY <1>20 DEF vars, WaitsForIt
<1> QED BY <1>1, <1>2, <1>3, <1>4, <1>5, <1>6, <1>7, <1>8, <1>9, <1>10, <1>11, <1>12,
      <1>13, <1>14, <1>15, <1>16, <1>17, <1>18, <1>19, <1>20 DEF Next, Handle, Receive

-----------------------------------------------------------------------------
(* The invariant, and what follows from it.                                *)

\* The types, by the part of the channel they are about.
HandleTypes ==
  /\ owner \in BOOLEAN /\ start \in {"waiting", "running", "failed"} /\ fenced \in BOOLEAN
  /\ failure \in BOOLEAN /\ alive \in BOOLEAN
  /\ request \in {"idle", "send", "wait"} /\ interrupt \in {"idle", "send", "wait"}
  /\ lastRequest \in 0 .. MaxRequest /\ lastInterrupt \in 0 .. MaxInterrupt
  /\ stop \in {"idle", "send", "wait", "exit", "stopped", "raised"}
ReaderTypes == pending \subseteq Ids /\ box \in [Ids -> Answers \cup {"empty", "closed"}]
PipeTypes   == toChild \in Seq(Messages) /\ toParent \in Seq(Replies) /\ tasks \in Seq(Tasks)
WorkerTypes ==
  /\ receiver \in {"none", "reading", "ended", "crashed"}
  /\ main \in {"importing", "idle", "handling", "closing", "quitting", "exiting"}
  /\ task \in Requests \cup {NoRequest} /\ active \in Requests \cup {NoRequest}
  /\ interrupted \in BOOLEAN /\ watchdog \in BOOLEAN
  /\ hooked \subseteq Requests \X (Answers \cup {"nothing"})
  /\ answered \in [Requests -> Answers \cup {"nothing"}]

\* TypeOK, in the parts that are proved one at a time.
LEMMA TypeParts == TypeOK <=> HandleTypes /\ ReaderTypes /\ PipeTypes /\ WorkerTypes
  BY DEF TypeOK, HandleTypes, ReaderTypes, PipeTypes, WorkerTypes, Messages, Replies, Tasks

\* The calls of the handle, and the process.
LEMMA HandleTypesStep ==
  HandleTypes /\ [Next]_vars => HandleTypes'
<1> SUFFICES ASSUME HandleTypes, [Next]_vars PROVE HandleTypes'
  OBVIOUS
<1> USE BoundsAssumption DEF HandleTypes, ownerVars, readerVars, callVars, workerVars,
        historyVars, worldVars
<1>1. ASSUME StartEnds PROVE HandleTypes'
  BY <1>1 DEF StartEnds, Terminate
<1>2. ASSUME RequestBegin PROVE HandleTypes'
  BY <1>2 DEF RequestBegin, Register, Locked
<1>3. ASSUME RequestSend PROVE HandleTypes'
  BY <1>3 DEF RequestSend, Send, Terminate
<1>4. ASSUME RequestReturn PROVE HandleTypes'
  BY <1>4 DEF RequestReturn, Terminate
<1>5. ASSUME RequestTimeout PROVE HandleTypes'
  BY <1>5 DEF RequestTimeout, Terminate
<1>6. ASSUME InterruptBegin PROVE HandleTypes'
  BY <1>6 DEF InterruptBegin, Register
<1>7. ASSUME InterruptSend PROVE HandleTypes'
  BY <1>7 DEF InterruptSend, Send, Terminate
<1>8. ASSUME InterruptReturn PROVE HandleTypes'
  BY <1>8 DEF InterruptReturn, Terminate
<1>9. ASSUME InterruptTimeout PROVE HandleTypes'
  BY <1>9 DEF InterruptTimeout, InterruptTimeoutLeaving
<1>10. ASSUME StopBusy PROVE HandleTypes'
  BY <1>10 DEF StopBusy, Terminate
<1>11. ASSUME StopBegin PROVE HandleTypes'
  BY <1>11 DEF StopBegin, Register
<1>12. ASSUME StopSend PROVE HandleTypes'
  BY <1>12 DEF StopSend, Send, Terminate
<1>13. ASSUME StopAnswered PROVE HandleTypes'
  BY <1>13 DEF StopAnswered, StopAnsweredGoingTo, Terminate
<1>14. ASSUME StopExited PROVE HandleTypes'
  BY <1>14 DEF StopExited
<1>15. ASSUME StopTimeout PROVE HandleTypes'
  BY <1>15 DEF StopTimeout, Terminate
<1>16. ASSUME ReaderFails PROVE HandleTypes'
  BY <1>16 DEF ReaderFails, ReaderFailsFor
<1>17. ASSUME OwnerDies PROVE HandleTypes'
  BY <1>17 DEF OwnerDies
<1>18. ASSUME ImportEnds PROVE HandleTypes'
  BY <1>18 DEF ImportEnds, Reply, Dies
<1>19. ASSUME MainAnswer PROVE HandleTypes'
  BY <1>19 DEF MainAnswer, MainAnswerRetiring, Answer, Reply, Dies
<1>20. ASSUME MainClose PROVE HandleTypes'
  BY <1>20 DEF MainClose, Reply, Dies
<1>21. ASSUME MainExits PROVE HandleTypes'
  BY <1>21 DEF MainExits, Dies
<1>22. ASSUME MainQuits PROVE HandleTypes'
  BY <1>22 DEF MainQuits, Dies
<1>23. ASSUME Watchdog PROVE HandleTypes'
  BY <1>23 DEF Watchdog, Dies
<1>24. ASSUME Crash PROVE HandleTypes'
  BY <1>24 DEF Crash, Dies
<1>25. ASSUME ReadAnswer \/ ReceiveRequest \/ ReceiveInterrupt \/ ReceiveShutdown \/
                 OwnerLost \/ MainTake PROVE HandleTypes'
  BY <1>25 DEF ReadAnswer, ReceiveRequest, Receives, Answer, Reply, ReceiverCrashes,
      ReceiveInterrupt, ReceiveInterruptIf, ReceiveShutdown, OwnerLost, OwnerLostWith,
      MainTake, MainTakeAsRequest
<1>26. ASSUME UNCHANGED vars PROVE HandleTypes'
  BY <1>26 DEF vars
<1> QED BY <1>1, <1>2, <1>3, <1>4, <1>5, <1>6, <1>7, <1>8, <1>9, <1>10, <1>11, <1>12,
      <1>13, <1>14, <1>15, <1>16, <1>17, <1>18, <1>19, <1>20, <1>21, <1>22, <1>23, <1>24,
      <1>25, <1>26 DEF Next, Handle, Receive

\* The reader and its table.
LEMMA ReaderTypesStep ==
  Counted /\ HandleTypes /\ PipeTypes /\ ReaderTypes /\ [Next]_vars => ReaderTypes'
<1> SUFFICES ASSUME Counted, HandleTypes, PipeTypes, ReaderTypes, [Next]_vars PROVE
    ReaderTypes'
  OBVIOUS
<1> USE Identities, BoundsAssumption DEF ownerVars, readerVars, callVars, workerVars,
        historyVars, worldVars
<1>1. ASSUME RequestBegin PROVE ReaderTypes'
  BY <1>1 DEF RequestBegin, Register, Locked, ReaderTypes, HandleTypes
<1>2. ASSUME InterruptBegin PROVE ReaderTypes'
  BY <1>2 DEF InterruptBegin, Register, ReaderTypes, HandleTypes
<1>3. ASSUME InterruptTimeout PROVE ReaderTypes'
  BY <1>3 DEF InterruptTimeout, InterruptTimeoutLeaving, ReaderTypes, HandleTypes
<1>4. ASSUME StopBegin PROVE ReaderTypes'
  BY <1>4 DEF StopBegin, Register, ReaderTypes, HandleTypes
<1>5. ASSUME ReadAnswer PROVE ReaderTypes'
  <2>1. Head(toParent) \in Replies /\ Head(toParent).id \in pending
    BY <1>5, Tails DEF ReadAnswer, PipeTypes
  <2>2. Head(toParent).kind \in Answers
    BY <2>1 DEF Replies
  <2> QED BY <1>5, <2>1, <2>2 DEF ReadAnswer, ReaderTypes
<1>6. ASSUME ReaderFails PROVE ReaderTypes'
  BY <1>6 DEF ReaderFails, ReaderFailsFor, ReaderTypes, HandleTypes
<1>7. ASSUME StartEnds \/ RequestSend \/ RequestReturn \/ RequestTimeout \/
                InterruptSend \/ InterruptReturn PROVE ReaderTypes'
  BY <1>7 DEF StartEnds, Terminate, RequestSend, Send, RequestReturn, RequestTimeout,
      InterruptSend, InterruptReturn, ReaderTypes
<1>8. ASSUME StopBusy \/ StopSend \/ StopAnswered \/ StopExited \/ StopTimeout \/
                OwnerDies PROVE ReaderTypes'
  BY <1>8 DEF StopBusy, Terminate, StopSend, Send, StopAnswered, StopAnsweredGoingTo,
      StopExited, StopTimeout, OwnerDies, ReaderTypes
<1>9. ASSUME ImportEnds \/ ReceiveRequest \/ ReceiveInterrupt \/ ReceiveShutdown \/
                OwnerLost \/ MainTake PROVE ReaderTypes'
  BY <1>9 DEF ImportEnds, Reply, Dies, ReceiveRequest, Receives, Answer,
      ReceiverCrashes, ReceiveInterrupt, ReceiveInterruptIf, ReceiveShutdown, OwnerLost,
      OwnerLostWith, MainTake, MainTakeAsRequest, ReaderTypes
<1>10. ASSUME MainAnswer \/ MainClose \/ MainExits \/ MainQuits \/ Watchdog \/ Crash PROVE ReaderTypes'
  BY <1>10 DEF MainAnswer, MainAnswerRetiring, Answer, Reply, Dies, MainClose,
      MainExits, MainQuits, Watchdog, Crash, ReaderTypes
<1>11. ASSUME UNCHANGED vars PROVE ReaderTypes'
  BY <1>11 DEF vars, ReaderTypes
<1> QED BY <1>1, <1>2, <1>3, <1>4, <1>5, <1>6, <1>7, <1>8, <1>9, <1>10, <1>11 DEF Next,
      Handle, Receive

\* Steps that write to one pipe, or read one, or none.
LEMMA PipesKept ==
  ASSUME PipeTypes,
         \/ UNCHANGED toChild
         \/ \E m \in Messages : toChild' = Append(toChild, m)
         \/ toChild # <<>> /\ toChild' = Tail(toChild),
         \/ UNCHANGED toParent
         \/ \E m \in Replies : toParent' = Append(toParent, m),
         \/ UNCHANGED tasks
         \/ \E t \in Tasks : tasks' = Append(tasks, t)
  PROVE  PipeTypes'
<1>1. toChild' \in Seq(Messages)
  BY Pipes DEF PipeTypes
<1>2. toParent' \in Seq(Replies)
  BY Pipes DEF PipeTypes
<1>3. tasks' \in Seq(Tasks)
  BY Pipes DEF PipeTypes
<1> QED BY <1>1, <1>2, <1>3 DEF PipeTypes

\* What the pipes and the queue of the worker carry.
LEMMA PipeTypesStep ==
  TypeOK /\ Counted /\ MessagesAreRight /\ SentOnce /\ OneActive /\ PipeTypes /\ [Next]_vars => PipeTypes'
<1> SUFFICES ASSUME TypeOK, Counted, MessagesAreRight, SentOnce, OneActive, PipeTypes,
    [Next]_vars PROVE PipeTypes'
  OBVIOUS
<1> USE Identities DEF ownerVars, readerVars, callVars, workerVars, historyVars,
        worldVars
<1>1. ASSUME RequestSend PROVE PipeTypes'
  <2> DEFINE m == [kind |-> "request", id |-> Request(lastRequest), target |-> NoRequest]
  <2>1. UNCHANGED <<toParent, tasks>> /\ (toChild' = Append(toChild, m) \/ UNCHANGED toChild)
    BY <1>1 DEF RequestSend, Send
  <2>2. Request(lastRequest) \in Ids
    BY <1>1, Identities DEF RequestSend, Counted
  <2>3. m \in Messages
    BY <2>2 DEF Messages
  <2> QED BY <2>1, <2>3, PipesKept
<1>2. ASSUME InterruptSend PROVE PipeTypes'
  <2>1. PICK n \in 1 .. lastRequest :
          \/ toChild' = Append(toChild, [kind |-> "interrupt", id |-> Interrupt(lastInterrupt),
                                         target |-> Request(n)])
          \/ UNCHANGED toChild
    BY <1>2 DEF InterruptSend, Send
  <2> DEFINE m == [kind |-> "interrupt", id |-> Interrupt(lastInterrupt), target |-> Request(n)]
  <2>2. n \in 1 .. MaxRequest
    BY BoundsAssumption, TypeParts DEF HandleTypes
  <2>3. Interrupt(lastInterrupt) \in Ids /\ Request(n) \in Requests
    BY <1>2, <2>2, Identities DEF InterruptSend, Counted
  <2>4. m \in Messages
    BY <2>3 DEF Messages
  <2>5. UNCHANGED <<toParent, tasks>>
    BY <1>2 DEF InterruptSend
  <2> QED BY <2>1, <2>4, <2>5, PipesKept
<1>3. ASSUME StopSend PROVE PipeTypes'
  <2> DEFINE m == [kind |-> "shutdown", id |-> Shutdown, target |-> NoRequest]
  <2>1. UNCHANGED <<toParent, tasks>> /\ (toChild' = Append(toChild, m) \/ UNCHANGED toChild)
    BY <1>3 DEF StopSend, Send
  <2>2. m \in Messages
    BY Identities DEF Messages
  <2> QED BY <2>1, <2>2, PipesKept
<1>4. ASSUME ReadAnswer PROVE PipeTypes'
  BY <1>4 DEF ReadAnswer, PipeTypes, Messages, Replies, Tasks, Answers
<1>5. ASSUME ImportEnds PROVE PipeTypes'
  <2> DEFINE m == [kind |-> "ready", id |-> Ready]
  <2>1. m \in Replies
    BY Identities DEF Replies, Answers
  <2>2. UNCHANGED <<toChild, tasks>> /\ (toParent' = Append(toParent, m) \/ UNCHANGED toParent)
    BY <1>5 DEF ImportEnds, Reply, Dies
  <2> QED BY <2>1, <2>2, PipesKept
<1>6. ASSUME ReceiveRequest PROVE PipeTypes'
  <2> DEFINE id == toChild[1].id
  <2>1. /\ id \in Requests /\ toChild' = Tail(toChild) /\ toChild # <<>>
        /\ tasks' \in {tasks, Append(tasks, id)}
        /\ toParent' \in {toParent, Append(toParent, [kind |-> "rejected", id |-> id])}
    BY <1>6, ReceiveRequestEffect DEF Reply, ReceiveRequest, Receives
  <2>2. [kind |-> "rejected", id |-> id] \in Replies /\ id \in Tasks
    BY <2>1 DEF Replies, Answers, Tasks
  <2> QED BY <2>1, <2>2, PipesKept
<1>7. ASSUME ReceiveInterrupt PROVE PipeTypes'
  <2>1. /\ toChild[1].id \in Interrupts /\ toChild' = Tail(toChild) /\ toChild # <<>>
        /\ UNCHANGED tasks
        /\ \/ \E kind \in {"result", "rejected"} :
                toParent' = Append(toParent, [kind |-> kind, id |-> toChild[1].id])
           \/ UNCHANGED toParent
    BY <1>7, ReceiveEffect DEF ReceiveInterrupt, ReceiveInterruptIf, ReceiverCrashes, Reply,
       Receives, MessagesAreRight
  <2>2. \A kind \in {"result", "rejected"} : [kind |-> kind, id |-> toChild[1].id] \in Replies
    BY <2>1 DEF Replies, Answers
  <2> QED BY <2>1, <2>2, PipesKept
<1>8. ASSUME ReceiveShutdown PROVE PipeTypes'
  BY <1>8 DEF ReceiveShutdown, Receives, PipeTypes, Messages, Replies, Tasks, Answers
<1>9. ASSUME OwnerLost PROVE PipeTypes'
  BY <1>9 DEF OwnerLost, OwnerLostWith, PipeTypes, Messages, Replies, Tasks, Answers
<1>10. ASSUME MainTake PROVE PipeTypes'
  BY <1>10 DEF MainTake, MainTakeAsRequest, PipeTypes, Messages, Replies, Tasks, Answers
<1>11. ASSUME MainAnswer PROVE PipeTypes'
  <2>1. /\ active \in Requests /\ UNCHANGED <<toChild, tasks>>
        /\ \/ \E kind \in {"result", "rejected", "failure"} :
                toParent' = Append(toParent, [kind |-> kind, id |-> active])
           \/ UNCHANGED toParent
    BY <1>11, MainAnswerEffect DEF Reply
  <2>2. \A kind \in {"result", "rejected", "failure"} : [kind |-> kind, id |-> active] \in Replies
    BY <2>1 DEF Replies, Answers
  <2> QED BY <2>1, <2>2, PipesKept
<1>12. ASSUME MainClose PROVE PipeTypes'
  <2> DEFINE m == [kind |-> "stopped", id |-> Shutdown]
  <2>1. m \in Replies
    BY Identities DEF Replies, Answers
  <2>2. UNCHANGED <<toChild, tasks>> /\ (toParent' = Append(toParent, m) \/ UNCHANGED toParent)
    BY <1>12 DEF MainClose, Reply, Dies
  <2> QED BY <2>1, <2>2, PipesKept
<1>13. ASSUME StartEnds \/ RequestBegin \/ RequestReturn \/ RequestTimeout \/
                 InterruptBegin \/ InterruptReturn PROVE PipeTypes'
  BY <1>13 DEF StartEnds, Terminate, RequestBegin, Register, Locked, RequestReturn,
      RequestTimeout, InterruptBegin, InterruptReturn, PipeTypes
<1>14. ASSUME InterruptTimeout \/ StopBusy \/ StopBegin \/ StopAnswered \/ StopExited
                 \/ StopTimeout PROVE PipeTypes'
  BY <1>14 DEF InterruptTimeout, InterruptTimeoutLeaving, StopBusy, Terminate,
      StopBegin, Register, StopAnswered, StopAnsweredGoingTo, StopExited, StopTimeout,
      PipeTypes
<1>15. ASSUME ReaderFails \/ OwnerDies \/ MainExits \/ MainQuits \/ Watchdog \/ Crash PROVE PipeTypes'
  BY <1>15 DEF ReaderFails, ReaderFailsFor, OwnerDies, MainExits, Dies, MainQuits,
      Watchdog, Crash, PipeTypes
<1>16. ASSUME UNCHANGED vars PROVE PipeTypes'
  BY <1>16 DEF vars, PipeTypes
<1> QED BY <1>1, <1>2, <1>3, <1>4, <1>5, <1>6, <1>7, <1>8, <1>9, <1>10, <1>11, <1>12,
      <1>13, <1>14, <1>15, <1>16 DEF Next, Handle, Receive

\* The threads of the worker.
LEMMA WorkerTypesStep ==
  TypeOK /\ MessagesAreRight /\ SentOnce /\ OneActive /\ PipeTypes /\ WorkerTypes /\ [Next]_vars => WorkerTypes'
<1> SUFFICES ASSUME TypeOK, MessagesAreRight, SentOnce, OneActive, PipeTypes, WorkerTypes,
    [Next]_vars PROVE WorkerTypes'
  OBVIOUS
<1> USE Identities DEF ownerVars, readerVars, callVars, workerVars, historyVars,
        worldVars
<1>1. ASSUME ImportEnds PROVE WorkerTypes'
  BY <1>1 DEF ImportEnds, Reply, Dies, WorkerTypes
<1>2. ASSUME ReceiveRequest PROVE WorkerTypes'
  <2>1. /\ active' \in Requests \cup {NoRequest} /\ UNCHANGED <<main, task>>
        /\ answered' \in [Requests -> Answers \cup {"nothing"}]
    BY <1>2, ReceiveRequestEffect DEF WorkerTypes, Answers
  <2>2. receiver' \in {receiver, "crashed"} /\ UNCHANGED <<interrupted, watchdog, hooked>>
    BY <1>2 DEF ReceiveRequest, ReceiverCrashes
  <2> QED BY <2>1, <2>2 DEF WorkerTypes
<1>3. ASSUME ReceiveInterrupt PROVE WorkerTypes'
  BY <1>3 DEF ReceiveInterrupt, ReceiveInterruptIf, Receives, Reply, ReceiverCrashes,
      WorkerTypes
<1>4. ASSUME ReceiveShutdown PROVE WorkerTypes'
  BY <1>4 DEF ReceiveShutdown, Receives, WorkerTypes
<1>5. ASSUME OwnerLost PROVE WorkerTypes'
  BY <1>5 DEF OwnerLost, OwnerLostWith, WorkerTypes
<1>6. ASSUME MainTake PROVE WorkerTypes'
  <2>1. /\ UNCHANGED <<receiver, active, interrupted, watchdog, hooked, answered>>
        /\ task' \in Requests \cup {task}
    BY <1>6 DEF MainTake, MainTakeAsRequest, historyVars
  <2>2. Head(tasks) \in Tasks
    BY <1>6, Tails DEF MainTake, MainTakeAsRequest, PipeTypes
  <2>3. main' \in {"handling", "quitting", "closing"}
    BY <1>6, <2>2 DEF MainTake, MainTakeAsRequest, Tasks
  <2> QED BY <2>1, <2>3 DEF WorkerTypes
<1>7. ASSUME MainAnswer PROVE WorkerTypes'
  <2>1. /\ active' \in Requests \cup {NoRequest} /\ main' \in {main, "idle"} /\ UNCHANGED task
        /\ answered' \in [Requests -> Answers \cup {"nothing"}]
    BY <1>7, MainAnswerEffect DEF WorkerTypes, Answers
  <2>2. UNCHANGED <<receiver, watchdog, hooked>> /\ interrupted' \in BOOLEAN
    BY <1>7 DEF MainAnswer, MainAnswerRetiring, Dies, WorkerTypes, workerVars, historyVars
  <2> QED BY <2>1, <2>2 DEF WorkerTypes
<1>8. ASSUME MainClose PROVE WorkerTypes'
  BY <1>8 DEF MainClose, Reply, Dies, WorkerTypes
<1>9. ASSUME StartEnds \/ RequestBegin \/ RequestSend \/ RequestReturn \/
                RequestTimeout \/ InterruptBegin PROVE WorkerTypes'
  BY <1>9 DEF StartEnds, Terminate, RequestBegin, Register, Locked, RequestSend, Send,
      RequestReturn, RequestTimeout, InterruptBegin, WorkerTypes
<1>10. ASSUME InterruptSend \/ InterruptReturn \/ InterruptTimeout \/ StopBusy \/
                 StopBegin \/ StopSend PROVE WorkerTypes'
  BY <1>10 DEF InterruptSend, Send, Terminate, InterruptReturn, InterruptTimeout,
      InterruptTimeoutLeaving, StopBusy, StopBegin, Register, StopSend, WorkerTypes
<1>11. ASSUME StopAnswered \/ StopExited \/ StopTimeout \/ ReadAnswer \/ ReaderFails
                 \/ OwnerDies PROVE WorkerTypes'
  BY <1>11 DEF StopAnswered, StopAnsweredGoingTo, Terminate, StopExited, StopTimeout,
      ReadAnswer, ReaderFails, ReaderFailsFor, OwnerDies, WorkerTypes
<1>12. ASSUME MainExits \/ MainQuits \/ Watchdog \/ Crash PROVE WorkerTypes'
  BY <1>12 DEF MainExits, Dies, MainQuits, Watchdog, Crash, WorkerTypes
<1>13. ASSUME UNCHANGED vars PROVE WorkerTypes'
  BY <1>13 DEF vars, WorkerTypes
<1> QED BY <1>1, <1>2, <1>3, <1>4, <1>5, <1>6, <1>7, <1>8, <1>9, <1>10, <1>11, <1>12,
      <1>13 DEF Next, Handle, Receive

\* The invariant is inductive.
THEOREM ChannelInvariantHolds == Spec => []ChannelInvariant
<1>1. ChannelInvariant /\ [Next]_vars => ChannelInvariant'
  <2>1. ChannelInvariant /\ [Next]_vars => TypeOK'
    <3>1. TypeOK' <=> HandleTypes' /\ ReaderTypes' /\ PipeTypes' /\ WorkerTypes'
      BY DEF TypeOK, HandleTypes, ReaderTypes, PipeTypes, WorkerTypes, Messages, Replies, Tasks
    <3> QED BY <3>1, TypeParts, HandleTypesStep, ReaderTypesStep, PipeTypesStep, WorkerTypesStep
        DEF ChannelInvariant
  <2> QED BY <2>1, CountedStep, MessagesStep, ActiveStep, SentStep, TrueStep, WaitsStep,
      HitsStep, FencedStep DEF ChannelInvariant
<1> QED BY InitInvariant, <1>1, PTL DEF Spec

\* The handle, the pipes and the worker are of their types.
THEOREM TypeCorrect == Spec => []TypeOK
<1>1. ChannelInvariant => TypeOK
  BY DEF ChannelInvariant
<1> QED BY ChannelInvariantHolds, <1>1, PTL

\* An interrupt never reaches the plugin for work that was done already.
THEOREM InterruptsHit == Spec => []InterruptHitsItsTarget
<1>1. ChannelInvariant => InterruptHitsItsTarget
  BY DEF ChannelInvariant
<1> QED BY ChannelInvariantHolds, <1>1, PTL

\* The service is never told that its worker is busy.
THEOREM WorkerIsNeverBusy == Spec => []WorkerIsFree
<1>1. ChannelInvariant => WorkerIsFree
  BY DEF ChannelInvariant, WaitsForIt, WorkerIsFree
<1> QED BY ChannelInvariantHolds, <1>1, PTL

\* A handle that was stopped, or gave up on its worker, has no process.
THEOREM FencedWorkersAreDead == Spec => []FencedIsDead
<1>1. ChannelInvariant => FencedIsDead
  BY DEF ChannelInvariant
<1> QED BY ChannelInvariantHolds, <1>1, PTL

-----------------------------------------------------------------------------
(* Where the identity of a message is, from the call that will use it to   *)
(* the answer that is read.                                                *)

\* Registered by its call, which has not written the message yet.
Opened ==
  {i \in Ids : \/ request = "send" /\ i = Request(lastRequest)
               \/ interrupt = "send" /\ i = Interrupt(lastInterrupt)
               \/ stop = "send" /\ i = Shutdown}

\* Not written yet, by a call under way or one to come.
Unsent ==
  Opened \cup {i \in Ids : \/ \E n \in lastRequest + 1 .. MaxRequest : i = Request(n)
                           \/ \E n \in lastInterrupt + 1 .. MaxInterrupt : i = Interrupt(n)
                           \/ stop = "idle" /\ i = Shutdown}

\* In a pipe, in the queue between the threads of the worker, or in hand.
IdsOf(s) == {s[i].id : i \in 1 .. Len(s)}
Asked    == IdsOf(toChild)
Queued   == {tasks[i] : i \in 1 .. Len(tasks)} \ {Quit}
InHand   ==
  {i \in Ids : \/ main = "handling" /\ i = task
               \/ main = "closing" /\ i = Shutdown
               \/ main = "importing" /\ i = Ready}
Replied  == IdsOf(toParent)

\* An identity is in one of these at a time, and once.
Twinless(s) == \A i, j \in 1 .. Len(s) : s[i].id = s[j].id => i = j
Once ==
  /\ Twinless(toChild) /\ Twinless(toParent)
  /\ \A i, j \in 1 .. Len(tasks) : tasks[i] = tasks[j] /\ tasks[i] # Quit => i = j
Apart ==
  /\ Unsent \cap (Asked \cup Queued \cup InHand \cup Replied) = {}
  /\ Asked \cap (Queued \cup InHand \cup Replied) = {}
  /\ Queued \cap (InHand \cup Replied) = {}
  /\ InHand \cap Replied = {}

\* From its registration until its answer is read the reader waits for it.
Due      == Opened \cup Asked \cup Queued \cup InHand \cup Replied
Expected == owner /\ ~failure => Due \subseteq pending

AnswerInvariant == Once /\ Apart /\ Expected

\* Two calls never have one identity.
LEMMA NoTwoAlike ==
  /\ \A m, n : Request(m) = Request(n) => m = n
  /\ \A m, n : Interrupt(m) = Interrupt(n) => m = n
  /\ \A m, n : Request(m) # Interrupt(n)
  /\ \A n : Request(n) # Shutdown /\ Interrupt(n) # Shutdown
  /\ \A n : Request(n) # Ready /\ Interrupt(n) # Ready
  /\ Shutdown # Ready /\ \A n : Request(n) # Quit
  BY DEF Request, Interrupt, Shutdown, Ready, Quit

\* A message more in a pipe, of an identity that is not in it.
LEMMA IdsOfAppend ==
  ASSUME NEW T, NEW s \in Seq(T), NEW e \in T
  PROVE  /\ IdsOf(Append(s, e)) = IdsOf(s) \cup {e.id}
         /\ Twinless(s) /\ e.id \notin IdsOf(s) => Twinless(Append(s, e))
<1>1. /\ Len(s) \in Nat /\ Len(Append(s, e)) = Len(s) + 1
      /\ \A i \in 1 .. Len(s) : i \in 1 .. Len(s) + 1 /\ Append(s, e)[i] = s[i]
      /\ Append(s, e)[Len(s) + 1] = e
      /\ \A i \in 1 .. Len(s) + 1 : i \in 1 .. Len(s) \/ i = Len(s) + 1
  BY Appends
<1>2. Len(s) + 1 \in 1 .. Len(s) + 1
  BY <1>1
<1> QED BY <1>1, <1>2 DEF IdsOf, Twinless

\* One less.
LEMMA IdsOfTail ==
  ASSUME NEW T, NEW s \in Seq(T), s # <<>>
  PROVE  /\ Head(s).id \in IdsOf(s) /\ IdsOf(Tail(s)) \subseteq IdsOf(s)
         /\ Twinless(s) => Twinless(Tail(s)) /\ Head(s).id \notin IdsOf(Tail(s))
<1>1. /\ Head(s) = s[1] /\ 1 \in 1 .. Len(s)
      /\ \A i \in 1 .. Len(Tail(s)) : i + 1 \in 1 .. Len(s) /\ Tail(s)[i] = s[i + 1] /\ i + 1 # 1
  BY Tails
<1>2. Head(s).id \in IdsOf(s) /\ IdsOf(Tail(s)) \subseteq IdsOf(s)
  BY <1>1 DEF IdsOf
<1>3. ASSUME Twinless(s) PROVE Twinless(Tail(s))
  <2>1. \A i, j \in 1 .. Len(Tail(s)) : i + 1 = j + 1 => i = j
    OBVIOUS
  <2> QED BY <1>1, <1>3, <2>1 DEF Twinless
<1>4. ASSUME Twinless(s) PROVE Head(s).id \notin IdsOf(Tail(s))
  BY <1>1, <1>4 DEF Twinless, IdsOf
<1> QED BY <1>2, <1>3, <1>4

\* Steps by which no identity gets anywhere: some may be dropped.
Drops ==
  /\ Opened' \subseteq Opened /\ Unsent' \subseteq Unsent /\ Asked' \subseteq Asked
  /\ Queued' \subseteq Queued /\ InHand' \subseteq InHand /\ Replied' \subseteq Replied
  /\ UNCHANGED pending
  /\ owner' /\ ~failure' => owner /\ ~failure

LEMMA DropsKept == AnswerInvariant /\ Drops /\ Once' => AnswerInvariant'
<1> SUFFICES ASSUME AnswerInvariant, Drops, Once' PROVE AnswerInvariant'
  OBVIOUS
<1>1. Apart'
  BY DEF AnswerInvariant, Drops, Apart
<1>2. Expected'
  BY DEF AnswerInvariant, Drops, Expected, Due
<1> QED BY <1>1, <1>2 DEF AnswerInvariant

\* What the calls do that write nothing and begin nothing, and the ends of the two
\* processes.
Rests ==
  /\ request' = "send" => request = "send"
  /\ interrupt' = "send" => interrupt = "send"
  /\ stop' \in {"idle", "send"} => stop' = stop
  /\ UNCHANGED <<lastRequest, lastInterrupt, toChild, toParent, tasks, main, task>>
  /\ UNCHANGED pending \/ failure'
  /\ owner' /\ ~failure' => owner /\ ~failure

LEMMA RestsKept == AnswerInvariant /\ Rests => AnswerInvariant'
<1> SUFFICES ASSUME AnswerInvariant, Rests PROVE AnswerInvariant'
  OBVIOUS
<1>1. UNCHANGED <<Asked, Queued, InHand, Replied>>
  BY DEF Rests, Asked, Queued, InHand, Replied
<1>2. Opened' \subseteq Opened
  BY DEF Rests, Opened
<1>3. Unsent' \subseteq Unsent
  BY <1>2 DEF Rests, Unsent
<1>4. Once'
  BY DEF AnswerInvariant, Rests, Once, Twinless
<1>5. Apart'
  BY <1>1, <1>3 DEF AnswerInvariant, Apart
<1>6. Expected'
  BY <1>1, <1>2 DEF AnswerInvariant, Rests, Expected, Due
<1> QED BY <1>4, <1>5, <1>6 DEF AnswerInvariant

\* A call begins: its identity is registered.
Begins(id) ==
  /\ Opened' \subseteq Opened \cup {id} /\ Unsent' \subseteq Unsent
  /\ UNCHANGED <<toChild, toParent, tasks, main, task, owner, failure>>
  /\ pending' = pending \cup {id}

LEMMA BeginsKept ==
  ASSUME AnswerInvariant, NEW id, Begins(id)
  PROVE  AnswerInvariant'
<1>1. UNCHANGED <<Asked, Queued, InHand, Replied>>
  BY DEF Begins, Asked, Queued, InHand, Replied
<1>2. Once'
  BY DEF AnswerInvariant, Begins, Once
<1>3. Apart' /\ Expected'
  BY <1>1 DEF AnswerInvariant, Begins, Apart, Expected, Due
<1> QED BY <1>2, <1>3 DEF AnswerInvariant

\* A call writes its message.
Sends(id) ==
  /\ id \in Opened /\ Opened' \subseteq Opened \ {id} /\ Unsent' \subseteq Unsent \ {id}
  /\ \E m \in Messages : m.id = id /\ toChild' = Append(toChild, m)
  /\ UNCHANGED <<toParent, tasks, main, task, owner, failure, pending>>

LEMMA SendsKept ==
  ASSUME TypeOK, AnswerInvariant, NEW id, Sends(id)
  PROVE  AnswerInvariant'
<1>1. UNCHANGED <<Queued, InHand, Replied>>
  BY DEF Sends, Queued, InHand, Replied
<1>2. PICK m \in Messages : m.id = id /\ toChild' = Append(toChild, m)
  BY DEF Sends
<1>3. id \in Unsent /\ id \notin Asked
  BY DEF Sends, AnswerInvariant, Apart, Unsent
<1>4. toChild \in Seq(Messages)
  BY DEF TypeOK, Messages
<1>5. Asked' = Asked \cup {id} /\ Twinless(toChild)'
  BY <1>2, <1>3, <1>4, IdsOfAppend DEF Asked, AnswerInvariant, Once
<1>6. Once'
  BY <1>5 DEF AnswerInvariant, Sends, Once
<1>7. Apart' /\ Expected'
  BY <1>1, <1>3, <1>5 DEF AnswerInvariant, Sends, Apart, Expected, Due
<1> QED BY <1>6, <1>7 DEF AnswerInvariant

\* What the worker does with a message or a task: it moves on, or it is dropped.
WorkerMoves(id) ==
  /\ UNCHANGED <<Opened, Unsent, pending, owner, failure>>
  /\ id \in Asked \cup Queued \cup InHand
  /\ Asked' \subseteq Asked /\ Queued' \subseteq Queued \cup {id}
  /\ InHand' \subseteq InHand \cup {id} /\ Replied' \subseteq Replied \cup {id}
  /\ id \in Queued' => id \notin Asked' \cup InHand' \cup Replied'
  /\ id \in InHand' => id \notin Asked' \cup Replied'
  /\ id \in Replied' => id \notin Asked'

LEMMA WorkerMovesKept ==
  ASSUME AnswerInvariant, Once', NEW id, WorkerMoves(id)
  PROVE  AnswerInvariant'
<1>1. id \notin Unsent
  BY DEF AnswerInvariant, Apart, WorkerMoves
<1>2. Apart'
  BY <1>1 DEF AnswerInvariant, Apart, WorkerMoves
<1>3. Expected'
  BY DEF AnswerInvariant, Expected, Due, WorkerMoves
<1> QED BY <1>2, <1>3 DEF AnswerInvariant


\* request() begins with the next number.
LEMMA RequestBeginKept == TypeOK /\ AnswerInvariant /\ RequestBegin => AnswerInvariant'
<1> SUFFICES ASSUME TypeOK, AnswerInvariant, RequestBegin PROVE AnswerInvariant'
  OBVIOUS
<1> USE DEF RequestBegin, Register, ownerVars, workerVars
<1>1. /\ lastRequest \in Nat /\ lastRequest' = lastRequest + 1 /\ request' = "send"
      /\ MaxRequest \in Nat /\ lastRequest < MaxRequest
      /\ UNCHANGED <<interrupt, lastInterrupt, stop>>
  BY BoundsAssumption DEF TypeOK
<1>2. /\ lastRequest + 1 \in lastRequest + 1 .. MaxRequest
      /\ \A n \in (lastRequest + 1) + 1 .. MaxRequest : n \in lastRequest + 1 .. MaxRequest
  BY <1>1
<1>3. Opened' \subseteq Opened \cup {Request(lastRequest + 1)}
  BY <1>1 DEF Opened
<1>4. Unsent' \subseteq Unsent
  BY <1>1, <1>2 DEF Opened, Unsent
<1>5. Begins(Request(lastRequest + 1))
  BY <1>3, <1>4 DEF Begins
<1> QED BY <1>5, BeginsKept

\* interrupt() does too.
LEMMA InterruptBeginKept == TypeOK /\ AnswerInvariant /\ InterruptBegin => AnswerInvariant'
<1> SUFFICES ASSUME TypeOK, AnswerInvariant, InterruptBegin PROVE AnswerInvariant'
  OBVIOUS
<1> USE DEF InterruptBegin, Register, ownerVars, workerVars
<1>1. /\ lastInterrupt \in Nat /\ lastInterrupt' = lastInterrupt + 1 /\ interrupt' = "send"
      /\ MaxInterrupt \in Nat /\ lastInterrupt < MaxInterrupt
      /\ UNCHANGED <<request, lastRequest, stop>>
  BY BoundsAssumption DEF TypeOK
<1>2. /\ lastInterrupt + 1 \in lastInterrupt + 1 .. MaxInterrupt
      /\ \A n \in (lastInterrupt + 1) + 1 .. MaxInterrupt : n \in lastInterrupt + 1 .. MaxInterrupt
  BY <1>1
<1>3. Opened' \subseteq Opened \cup {Interrupt(lastInterrupt + 1)}
  BY <1>1 DEF Opened
<1>4. Unsent' \subseteq Unsent
  BY <1>1, <1>2 DEF Opened, Unsent
<1>5. Begins(Interrupt(lastInterrupt + 1))
  BY <1>3, <1>4 DEF Begins
<1> QED BY <1>5, BeginsKept

\* A worker that lives was never asked to shut down by a stop() that is over.
LEMMA StopBeginKept == TypeOK /\ FencedIsDead /\ AnswerInvariant /\ StopBegin => AnswerInvariant'
<1> SUFFICES ASSUME TypeOK, FencedIsDead, AnswerInvariant, StopBegin PROVE AnswerInvariant'
  OBVIOUS
<1> USE DEF StopBegin, ownerVars, readerVars, workerVars
<1>1. CASE alive
  <2>1. stop = "idle" /\ stop' = "send"
    BY <1>1 DEF FencedIsDead
  <2>2. Opened' \subseteq Opened \cup {Shutdown}
    BY DEF Opened
  <2>3. Unsent' \subseteq Unsent
    BY <2>1 DEF Opened, Unsent
  <2>4. Begins(Shutdown)
    BY <1>1, <2>2, <2>3 DEF Begins, Register
  <2> QED BY <2>4, BeginsKept
<1>2. CASE ~alive
  BY <1>2, RestsKept DEF Rests
<1> QED BY <1>1, <1>2

\* The three messages to the worker.
LEMMA RequestSendKept == TypeOK /\ Counted /\ AnswerInvariant /\ RequestSend => AnswerInvariant'
<1> SUFFICES ASSUME TypeOK, Counted, AnswerInvariant, RequestSend PROVE AnswerInvariant'
  OBVIOUS
<1> USE DEF RequestSend, Send, ownerVars, readerVars, workerVars
<1> DEFINE id == Request(lastRequest)
           m  == [kind |-> "request", id |-> id, target |-> NoRequest]
<1>1. lastRequest \in 1 .. MaxRequest /\ id \in Ids /\ m \in Messages
  BY Identities DEF Counted, Messages
<1>2. CASE toChild' = Append(toChild, m) /\ request' = "wait"
  <2>1. id \in Opened /\ Opened' \subseteq Opened \ {id}
    BY <1>1, <1>2, NoTwoAlike DEF Opened
  <2>2. \A n \in lastRequest + 1 .. MaxRequest : n # lastRequest
    BY <1>1
  <2>3. Unsent' \subseteq Unsent \ {id}
    BY <2>1, <2>2, NoTwoAlike DEF Unsent
  <2>4. m.id = id
    OBVIOUS
  <2>5. Sends(id)
    BY <1>1, <1>2, <2>1, <2>3, <2>4 DEF Sends
  <2> QED BY <2>5, SendsKept
<1>3. CASE UNCHANGED toChild /\ request' = "idle"
  BY <1>3, RestsKept DEF Rests
<1> QED BY <1>2, <1>3

LEMMA InterruptSendKept == TypeOK /\ Counted /\ AnswerInvariant /\ InterruptSend => AnswerInvariant'
<1> SUFFICES ASSUME TypeOK, Counted, AnswerInvariant, InterruptSend PROVE AnswerInvariant'
  OBVIOUS
<1> USE DEF InterruptSend, ownerVars, readerVars, workerVars
<1> DEFINE id == Interrupt(lastInterrupt)
           m(n) == [kind |-> "interrupt", id |-> id, target |-> Request(n)]
<1>1. lastInterrupt \in 1 .. MaxInterrupt /\ id \in Ids
  BY Identities DEF Counted
<1>2. PICK n \in 1 .. lastRequest : \/ toChild' = Append(toChild, m(n)) /\ interrupt' = "wait"
                                    \/ UNCHANGED toChild /\ interrupt' = "idle"
  BY DEF Send
<1>3. n \in 1 .. MaxRequest
  BY BoundsAssumption DEF TypeOK
<1>4. Request(n) \in Requests
  BY <1>3, Identities
<1>5. m(n) \in Messages
  BY <1>1, <1>4 DEF Messages
<1>6. CASE toChild' = Append(toChild, m(n)) /\ interrupt' = "wait"
  <2>1. id \in Opened /\ Opened' \subseteq Opened \ {id}
    BY <1>1, <1>6, NoTwoAlike DEF Opened
  <2>2. \A k \in lastInterrupt + 1 .. MaxInterrupt : k # lastInterrupt
    BY <1>1
  <2>3. Unsent' \subseteq Unsent \ {id}
    BY <2>1, <2>2, NoTwoAlike DEF Unsent
  <2>4. m(n).id = id
    OBVIOUS
  <2>5. Sends(id)
    BY <1>5, <1>6, <2>1, <2>3, <2>4 DEF Sends
  <2> QED BY <2>5, SendsKept
<1>7. CASE UNCHANGED toChild /\ interrupt' = "idle"
  BY <1>7, RestsKept DEF Rests
<1> QED BY <1>2, <1>6, <1>7

LEMMA StopSendKept == TypeOK /\ AnswerInvariant /\ StopSend => AnswerInvariant'
<1> SUFFICES ASSUME TypeOK, AnswerInvariant, StopSend PROVE AnswerInvariant'
  OBVIOUS
<1> USE DEF StopSend, Send, ownerVars, readerVars, workerVars
<1> DEFINE m == [kind |-> "shutdown", id |-> Shutdown, target |-> NoRequest]
<1>1. Shutdown \in Ids /\ m \in Messages
  BY Identities DEF Messages
<1>2. CASE toChild' = Append(toChild, m) /\ stop' = "wait"
  <2>1. Shutdown \in Opened /\ Opened' \subseteq Opened \ {Shutdown}
    BY <1>1, <1>2, NoTwoAlike DEF Opened
  <2>2. Unsent' \subseteq Unsent \ {Shutdown}
    BY <1>2, <2>1, NoTwoAlike DEF Unsent
  <2>3. m.id = Shutdown
    OBVIOUS
  <2>4. Sends(Shutdown)
    BY <1>1, <1>2, <2>1, <2>2, <2>3 DEF Sends
  <2> QED BY <2>4, SendsKept
<1>3. CASE UNCHANGED toChild /\ stop' = "raised"
  BY <1>3, RestsKept DEF Rests
<1> QED BY <1>2, <1>3

\* What the receive thread of the worker takes from its pipe.
LEMMA TakenKept ==
  ASSUME TypeOK, AnswerInvariant, NEW kind, Receives(kind)
  PROVE  /\ Head(toChild).id \in Asked /\ Asked' \subseteq Asked \ {Head(toChild).id}
         /\ Twinless(toChild)' /\ UNCHANGED <<Opened, Unsent, InHand, pending, owner, failure>>
<1> USE DEF Receives, worldVars, ownerVars, readerVars, callVars
<1>1. toChild \in Seq(Messages) /\ toChild # <<>> /\ toChild' = Tail(toChild)
  BY DEF TypeOK, Messages
<1>2. /\ Head(toChild).id \in Asked /\ Asked' \subseteq Asked \ {Head(toChild).id}
      /\ Twinless(toChild)'
  BY <1>1, IdsOfTail DEF Asked, AnswerInvariant, Once
<1> QED BY <1>2 DEF Opened, Unsent, InHand

\* An answer that is written.
LEMMA RepliedKept ==
  ASSUME TypeOK, AnswerInvariant, NEW kind \in Answers, NEW id \in Ids \ Replied, Reply(kind, id)
  PROVE  Replied' = Replied \cup {id} /\ Twinless(toParent)'
<1> DEFINE m == [kind |-> kind, id |-> id]
<1>1. toParent \in Seq(Replies) /\ m \in Replies /\ m.id = id
  BY DEF TypeOK, Replies
<1>2. toParent' = Append(toParent, m)
  BY DEF Reply
<1> QED BY <1>1, <1>2, IdsOfAppend DEF Replied, AnswerInvariant, Once

\* A task that is queued.
LEMMA QueuedKept ==
  ASSUME TypeOK, AnswerInvariant, NEW t \in Tasks, t \notin Queued, tasks' = Append(tasks, t)
  PROVE  /\ Queued' = Queued \cup ({t} \ {Quit})
         /\ \A i, j \in 1 .. Len(tasks') : tasks'[i] = tasks'[j] /\ tasks'[i] # Quit => i = j
<1>1. tasks \in Seq(Tasks)
  BY DEF TypeOK, Tasks
<1>2. /\ Len(tasks) \in Nat /\ Len(tasks') = Len(tasks) + 1
      /\ \A i \in 1 .. Len(tasks) : i \in 1 .. Len(tasks) + 1 /\ tasks'[i] = tasks[i]
      /\ tasks'[Len(tasks) + 1] = t
      /\ \A i \in 1 .. Len(tasks) + 1 : i \in 1 .. Len(tasks) \/ i = Len(tasks) + 1
  BY <1>1, Appends
<1>3. Len(tasks) + 1 \in 1 .. Len(tasks')
  BY <1>2
<1> QED BY <1>2, <1>3 DEF Queued, AnswerInvariant, Once

\* A request is queued, refused, or lost with the thread that would refuse it.
LEMMA ReceiveRequestKept ==
  TypeOK /\ MessagesAreRight /\ AnswerInvariant /\ ReceiveRequest => AnswerInvariant'
<1> SUFFICES ASSUME TypeOK, MessagesAreRight, AnswerInvariant, ReceiveRequest PROVE
    AnswerInvariant'
  OBVIOUS
<1> DEFINE id == Head(toChild).id
<1>1. Receives("request")
  BY DEF ReceiveRequest
<1>2. /\ id \in Asked /\ Asked' \subseteq Asked \ {id}
      /\ Twinless(toChild)' /\ UNCHANGED <<Opened, Unsent, InHand, pending, owner, failure>>
  BY <1>1, TakenKept
<1>3. Head(toChild).kind = "request" /\ Head(toChild) = toChild[1] /\ 1 \in 1 .. Len(toChild)
  BY <1>1, ReceiveEffect DEF Receives
<1>4. id \in Requests /\ id \in Ids /\ id # Quit
  BY <1>3, Identities DEF MessagesAreRight
<1>5. id \notin Queued \cup InHand \cup Replied
  BY <1>2 DEF AnswerInvariant, Apart
<1>6. CASE tasks' = Append(tasks, id) /\ UNCHANGED toParent
  <2>1. /\ Queued' = Queued \cup {id}
        /\ \A i, j \in 1 .. Len(tasks') : tasks'[i] = tasks'[j] /\ tasks'[i] # Quit => i = j
    BY <1>4, <1>5, <1>6, QueuedKept DEF Tasks
  <2>2. UNCHANGED Replied
    BY <1>6 DEF Replied
  <2>3. WorkerMoves(id)
    BY <1>2, <1>5, <2>1, <2>2 DEF WorkerMoves
  <2>4. Once'
    BY <1>2, <1>6, <2>1 DEF Once, AnswerInvariant, Twinless
  <2> QED BY <2>3, <2>4, WorkerMovesKept
<1>7. CASE UNCHANGED tasks /\ Reply("rejected", id)
  <2>1. Replied' = Replied \cup {id} /\ Twinless(toParent)'
    BY <1>4, <1>5, <1>7, RepliedKept DEF Answers
  <2>2. UNCHANGED Queued
    BY <1>7 DEF Queued
  <2>3. WorkerMoves(id)
    BY <1>2, <1>5, <2>1, <2>2 DEF WorkerMoves
  <2>4. Once'
    BY <1>2, <1>7, <2>1 DEF Once, AnswerInvariant
  <2> QED BY <2>3, <2>4, WorkerMovesKept
<1>8. CASE UNCHANGED <<tasks, toParent>>
  <2>1. Drops
    BY <1>2, <1>8 DEF Drops, Queued, Replied
  <2>2. Once'
    BY <1>2, <1>8 DEF Once, AnswerInvariant, Twinless
  <2> QED BY <2>1, <2>2, DropsKept
<1> QED BY <1>6, <1>7, <1>8 DEF ReceiveRequest, Answer, ReceiverCrashes

\* An interrupt is answered at once.
LEMMA ReceiveInterruptKept ==
  TypeOK /\ MessagesAreRight /\ AnswerInvariant /\ ReceiveInterrupt => AnswerInvariant'
<1> SUFFICES ASSUME TypeOK, MessagesAreRight, AnswerInvariant, ReceiveInterrupt PROVE
    AnswerInvariant'
  OBVIOUS
<1> DEFINE id == Head(toChild).id
<1>1. Receives("interrupt") /\ UNCHANGED tasks
  BY DEF ReceiveInterrupt, ReceiveInterruptIf
<1>2. /\ id \in Asked /\ Asked' \subseteq Asked \ {id}
      /\ Twinless(toChild)' /\ UNCHANGED <<Opened, Unsent, InHand, pending, owner, failure>>
  BY <1>1, TakenKept
<1>3. Head(toChild).kind = "interrupt" /\ Head(toChild) = toChild[1] /\ 1 \in 1 .. Len(toChild)
  BY <1>1, ReceiveEffect DEF Receives
<1>4. id \in Ids
  BY <1>3, Identities DEF MessagesAreRight
<1>5. id \notin Queued \cup InHand \cup Replied
  BY <1>2 DEF AnswerInvariant, Apart
<1>6. UNCHANGED Queued
  BY <1>1 DEF Queued
<1>7. ASSUME NEW kind \in {"result", "rejected"}, Reply(kind, id) PROVE AnswerInvariant'
  <2>1. Replied' = Replied \cup {id} /\ Twinless(toParent)'
    BY <1>4, <1>5, <1>7, RepliedKept DEF Answers
  <2>2. WorkerMoves(id)
    BY <1>2, <1>5, <1>6, <2>1 DEF WorkerMoves
  <2>3. Once'
    BY <1>1, <1>2, <2>1 DEF Once, AnswerInvariant
  <2> QED BY <2>2, <2>3, WorkerMovesKept
<1>8. CASE UNCHANGED toParent
  <2>1. Drops
    BY <1>2, <1>6, <1>8 DEF Drops, Replied
  <2>2. Once'
    BY <1>1, <1>2, <1>8 DEF Once, AnswerInvariant, Twinless
  <2> QED BY <2>1, <2>2, DropsKept
<1> QED BY <1>7, <1>8 DEF ReceiveInterrupt, ReceiveInterruptIf, ReceiverCrashes

\* The last message the receive thread takes.
LEMMA ReceiveShutdownKept ==
  TypeOK /\ MessagesAreRight /\ AnswerInvariant /\ ReceiveShutdown => AnswerInvariant'
<1> SUFFICES ASSUME TypeOK, MessagesAreRight, AnswerInvariant, ReceiveShutdown PROVE
    AnswerInvariant'
  OBVIOUS
<1>1. /\ Receives("shutdown") /\ UNCHANGED toParent
      /\ tasks' = Append(tasks, Shutdown)
  BY DEF ReceiveShutdown
<1>2. Head(toChild).kind = "shutdown" /\ Head(toChild) = toChild[1] /\ 1 \in 1 .. Len(toChild)
  BY <1>1, ReceiveEffect DEF Receives
<1>3. Head(toChild).id = Shutdown
  BY <1>2 DEF MessagesAreRight
<1>4. /\ Shutdown \in Asked /\ Asked' \subseteq Asked \ {Shutdown}
      /\ Twinless(toChild)' /\ UNCHANGED <<Opened, Unsent, InHand, pending, owner, failure>>
  BY <1>1, <1>3, TakenKept
<1>5. Shutdown \notin Queued \cup InHand \cup Replied /\ Shutdown # Quit
  BY <1>4, Identities DEF AnswerInvariant, Apart
<1>6. /\ Queued' = Queued \cup {Shutdown}
      /\ \A i, j \in 1 .. Len(tasks') : tasks'[i] = tasks'[j] /\ tasks'[i] # Quit => i = j
  BY <1>1, <1>5, QueuedKept DEF Tasks
<1>7. UNCHANGED Replied
  BY <1>1 DEF Replied
<1>8. WorkerMoves(Shutdown)
  BY <1>4, <1>5, <1>6, <1>7 DEF WorkerMoves
<1>9. Once'
  BY <1>1, <1>4, <1>6 DEF Once, AnswerInvariant, Twinless
<1> QED BY <1>8, <1>9, WorkerMovesKept

\* The end of the pipe is no message.
LEMMA OwnerLostKept == TypeOK /\ AnswerInvariant /\ OwnerLost => AnswerInvariant'
<1> SUFFICES ASSUME TypeOK, AnswerInvariant, OwnerLost PROVE AnswerInvariant'
  OBVIOUS
<1> USE DEF OwnerLost, OwnerLostWith, worldVars, ownerVars, readerVars, callVars
<1>1. tasks' = Append(tasks, Quit) /\ Quit \in Tasks /\ Quit \notin Queued
  BY DEF Tasks, Queued
<1>2. /\ Queued' = Queued
      /\ \A i, j \in 1 .. Len(tasks') : tasks'[i] = tasks'[j] /\ tasks'[i] # Quit => i = j
  BY <1>1, QueuedKept
<1>3. Drops
  BY <1>2 DEF Drops, Opened, Unsent, Asked, InHand, Replied
<1>4. Once'
  BY <1>2 DEF Once, AnswerInvariant, Twinless
<1> QED BY <1>3, <1>4, DropsKept

\* The main thread, which had nothing in hand, takes a task from the queue.
LEMMA MainTakeKept == TypeOK /\ AnswerInvariant /\ MainTake => AnswerInvariant'
<1> SUFFICES ASSUME TypeOK, AnswerInvariant, MainTake PROVE AnswerInvariant'
  OBVIOUS
<1> USE DEF MainTake, MainTakeAsRequest, worldVars, ownerVars, readerVars, callVars
<1> DEFINE id == Head(tasks)
<1>1. tasks \in Seq(Tasks) /\ tasks # <<>> /\ tasks' = Tail(tasks) /\ main = "idle"
  BY DEF TypeOK, Tasks
<1>2. /\ id \in Tasks /\ id = tasks[1] /\ 1 \in 1 .. Len(tasks)
      /\ \A i \in 1 .. Len(tasks') : i + 1 \in 1 .. Len(tasks) /\ tasks'[i] = tasks[i + 1] /\ i + 1 # 1
  BY <1>1, Tails
<1>3. /\ Queued' \subseteq Queued
      /\ id # Quit => id \in Queued /\ id \notin Queued'
  BY <1>2 DEF Queued, AnswerInvariant, Once
<1>4. \A i, j \in 1 .. Len(tasks') : tasks'[i] = tasks'[j] /\ tasks'[i] # Quit => i = j
  <2>1. \A i, j \in 1 .. Len(tasks') : i + 1 = j + 1 => i = j
    OBVIOUS
  <2> QED BY <1>2, <2>1 DEF AnswerInvariant, Once
<1>5. Once'
  BY <1>4 DEF Once, AnswerInvariant, Twinless
<1>6. UNCHANGED <<Opened, Unsent, Asked, Replied, pending, owner, failure>>
  BY DEF Opened, Unsent, Asked, Replied
<1>7. InHand = {}
  BY <1>1 DEF InHand
<1>8. CASE id = Quit
  <2>1. main' = "quitting"
    BY <1>8, Identities
  <2>2. InHand' = {}
    BY <2>1 DEF InHand
  <2>3. Drops
    BY <1>3, <1>6, <2>2 DEF Drops
  <2> QED BY <1>5, <2>3, DropsKept
<1>9. CASE id # Quit
  <2>1. id \in Requests \/ id = Shutdown
    BY <1>2, <1>9 DEF Tasks
  <2>2. InHand' \subseteq {id}
    <3>1. CASE id \in Requests
      BY <3>1 DEF InHand
    <3>2. CASE id = Shutdown
      BY <3>2, Identities DEF InHand
    <3> QED BY <2>1, <3>1, <3>2
  <2>3. id \notin Asked \cup Replied
    BY <1>3, <1>9 DEF AnswerInvariant, Apart
  <2>4. WorkerMoves(id)
    BY <1>3, <1>6, <1>7, <1>9, <2>2, <2>3 DEF WorkerMoves
  <2> QED BY <1>5, <2>4, WorkerMovesKept
<1> QED BY <1>8, <1>9

\* What the main thread had in hand is answered.
LEMMA AnsweredKept ==
  ASSUME TypeOK, AnswerInvariant, NEW kind \in Answers, NEW id \in InHand, Reply(kind, id),
         InHand' = {}, UNCHANGED <<toChild, tasks, worldVars>>
  PROVE  AnswerInvariant'
<1>1. id \in Ids /\ id \notin Asked \cup Queued \cup Replied
  BY DEF InHand, AnswerInvariant, Apart
<1>2. Replied' = Replied \cup {id} /\ Twinless(toParent)'
  BY <1>1, RepliedKept
<1>3. UNCHANGED <<Opened, Unsent, Asked, Queued, pending, owner, failure>>
  BY DEF Opened, Unsent, Asked, Queued, worldVars, ownerVars, readerVars, callVars
<1>4. WorkerMoves(id)
  BY <1>1, <1>2, <1>3 DEF WorkerMoves
<1>5. Once'
  BY <1>2 DEF Once, AnswerInvariant, Twinless
<1> QED BY <1>4, <1>5, WorkerMovesKept

\* The main thread reports that it is ready, answers, or says that it is done.
LEMMA MainKept ==
  TypeOK /\ OneActive /\ AnswerInvariant /\ (ImportEnds \/ MainAnswer \/ MainClose) => AnswerInvariant'
<1> SUFFICES ASSUME TypeOK, OneActive, AnswerInvariant, ImportEnds \/ MainAnswer \/ MainClose
             PROVE  AnswerInvariant'
  OBVIOUS
<1>1. CASE Dies /\ UNCHANGED <<worldVars, toChild>>
  BY <1>1, RestsKept DEF Dies, Rests, worldVars, ownerVars, readerVars, callVars, workerVars
<1>2. CASE ImportEnds /\ ~Dies
  <2>1. /\ main = "importing" /\ Reply("ready", Ready) /\ main' = "idle"
        /\ UNCHANGED <<toChild, tasks, worldVars>>
    BY <1>2 DEF ImportEnds
  <2>2. Ready \in InHand /\ InHand' = {} /\ "ready" \in Answers
    BY <2>1, Identities DEF InHand, Answers
  <2> QED BY <2>1, <2>2, AnsweredKept
<1>3. CASE MainAnswer /\ ~Dies
  <2>1. PICK kind \in {"result", "rejected", "failure"} :
          /\ main = "handling" /\ Reply(kind, task) /\ main' = "idle"
          /\ UNCHANGED <<toChild, tasks, worldVars>>
    BY <1>3 DEF MainAnswer, MainAnswerRetiring, Answer
  <2>2. task \in Ids
    BY <2>1, Identities DEF TypeOK, OneActive
  <2>3. task \in InHand /\ InHand' = {} /\ kind \in Answers
    BY <2>1, <2>2 DEF InHand, Answers
  <2> QED BY <2>1, <2>3, AnsweredKept
<1>4. CASE MainClose /\ ~Dies
  <2>1. /\ main = "closing" /\ Reply("stopped", Shutdown) /\ main' = "exiting"
        /\ UNCHANGED <<toChild, tasks, worldVars>>
    BY <1>4 DEF MainClose
  <2>2. Shutdown \in InHand /\ InHand' = {} /\ "stopped" \in Answers
    BY <2>1, Identities DEF InHand, Answers
  <2> QED BY <2>1, <2>2, AnsweredKept
<1> QED BY <1>1, <1>2, <1>3, <1>4 DEF ImportEnds, MainAnswer, MainAnswerRetiring, MainClose

\* The reader takes one answer, and stops waiting for it and no other.
LEMMA ReadAnswerKept == TypeOK /\ AnswerInvariant /\ ReadAnswer => AnswerInvariant'
<1> SUFFICES ASSUME TypeOK, AnswerInvariant, ReadAnswer PROVE AnswerInvariant'
  OBVIOUS
<1> USE DEF ReadAnswer, ownerVars, callVars, workerVars
<1> DEFINE id == Head(toParent).id
<1>1. toParent \in Seq(Replies) /\ toParent # <<>> /\ toParent' = Tail(toParent)
  BY DEF TypeOK, Replies
<1>2. id \in Replied /\ Replied' \subseteq Replied \ {id} /\ Twinless(toParent)'
  BY <1>1, IdsOfTail DEF Replied, AnswerInvariant, Once
<1>3. UNCHANGED <<Opened, Unsent, Asked, Queued, InHand>>
  BY DEF Opened, Unsent, Asked, Queued, InHand
<1>4. Once'
  BY <1>2 DEF Once, AnswerInvariant, Twinless
<1>5. Apart'
  BY <1>2, <1>3 DEF AnswerInvariant, Apart
<1>6. Due' \subseteq Due \ {id}
  <2>1. id \notin Opened \cup Asked \cup Queued \cup InHand
    BY <1>2 DEF AnswerInvariant, Apart, Unsent
  <2> QED BY <1>2, <1>3, <2>1 DEF Due
<1>7. Expected'
  BY <1>6 DEF AnswerInvariant, Expected
<1> QED BY <1>4, <1>5, <1>7 DEF AnswerInvariant

\* Every step keeps it.
LEMMA AnswerStep ==
  ChannelInvariant /\ AnswerInvariant /\ [Next]_vars => AnswerInvariant'
<1> SUFFICES ASSUME TypeOK, Counted, MessagesAreRight, OneActive, FencedIsDead, AnswerInvariant,
                    [Next]_vars
             PROVE  AnswerInvariant'
  BY DEF ChannelInvariant
<1>1. CASE RequestBegin \/ InterruptBegin \/ StopBegin
  BY <1>1, RequestBeginKept, InterruptBeginKept, StopBeginKept
<1>2. CASE RequestSend \/ InterruptSend \/ StopSend
  BY <1>2, RequestSendKept, InterruptSendKept, StopSendKept
<1>3. CASE Receive
  BY <1>3, ReceiveRequestKept, ReceiveInterruptKept, ReceiveShutdownKept, OwnerLostKept
     DEF Receive
<1>4. CASE MainTake \/ ImportEnds \/ MainAnswer \/ MainClose
  BY <1>4, MainTakeKept, MainKept
<1>5. CASE ReadAnswer
  BY <1>5, ReadAnswerKept
<1> USE DEF ownerVars, readerVars, callVars, workerVars, historyVars, worldVars
<1>6. CASE StartEnds \/ RequestReturn \/ RequestTimeout \/ InterruptReturn \/ InterruptTimeout
  <2>1. Rests
    BY <1>6 DEF Rests, StartEnds, RequestReturn, RequestTimeout, InterruptReturn,
       InterruptTimeout, InterruptTimeoutLeaving
  <2> QED BY <2>1, RestsKept
<1>7. CASE StopBusy \/ StopAnswered \/ StopExited \/ StopTimeout
  <2>1. Rests
    BY <1>7 DEF Rests, StopBusy, StopAnswered, StopAnsweredGoingTo, StopExited, StopTimeout
  <2> QED BY <2>1, RestsKept
<1>8. CASE ReaderFails \/ OwnerDies \/ MainExits \/ MainQuits \/ Watchdog \/ Crash \/ UNCHANGED vars
  <2>1. Rests
    BY <1>8 DEF Rests, ReaderFails, ReaderFailsFor, OwnerDies, MainExits, MainQuits, Watchdog,
       Crash, Dies, vars
  <2> QED BY <2>1, RestsKept
<1> QED BY <1>1, <1>2, <1>3, <1>4, <1>5, <1>6, <1>7, <1>8 DEF Next, Handle

\* Nothing is on its way when the worker starts but the news that it is ready.
LEMMA AnswerInit == Init => AnswerInvariant
<1> SUFFICES ASSUME Init PROVE AnswerInvariant
  OBVIOUS
<1> USE DEF Init
<1>1. Asked = {} /\ Queued = {} /\ Replied = {} /\ InHand = {Ready} /\ Opened = {}
  BY Identities DEF Asked, Queued, Replied, InHand, Opened, IdsOf
<1>2. Ready \notin Unsent
  BY <1>1, NoTwoAlike DEF Unsent
<1>3. Once
  BY DEF Once, Twinless
<1>4. Apart /\ Expected
  BY <1>1, <1>2 DEF Apart, Expected, Due
<1> QED BY <1>3, <1>4 DEF AnswerInvariant

\* Every answer on its way is expected, however late it is.
THEOREM LateAnswersAreExpected == Spec => []AnswersAreExpected
<1>1. ChannelInvariant /\ AnswerInvariant /\ [Next]_vars => AnswerInvariant'
  BY AnswerStep
<1>2. ChannelInvariant /\ AnswerInvariant => AnswersAreExpected
  <2> SUFFICES ASSUME TypeOK, AnswerInvariant, owner, ~failure,
                      NEW i \in 1 .. Len(toParent)
               PROVE  /\ toParent[i].id \in pending
                      /\ \A j \in 1 .. i - 1 : toParent[j].id # toParent[i].id
    BY DEF ChannelInvariant, AnswersAreExpected
  <2>1. toParent[i].id \in pending
    BY DEF AnswerInvariant, Expected, Due, Replied, IdsOf
  <2>2. \A j \in 1 .. i - 1 : j \in 1 .. Len(toParent) /\ j # i
    BY Lengths
  <2> QED BY <2>1, <2>2 DEF AnswerInvariant, Once, Twinless
<1> QED BY AnswerInit, <1>1, <1>2, ChannelInvariantHolds, PTL DEF Spec

=============================================================================
