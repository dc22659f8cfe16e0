------------------------- MODULE EventStreamProofs -------------------------
(***************************************************************************)
(* The controller of EventStream misses no event, never goes back, and     *)
(* shows what the service has once it has caught up, for any capacity of   *)
(* the log and any number of services, events, kernels, executions and     *)
(* connections.  (MCEventStream has the history variable `answered'.)      *)
(***************************************************************************)
EXTENDS MCEventStream, TLAPS

USE CapacityAssumption, BoundsAssumption, SwitchAssumption DEF Epochs

\* Nothing that was appended is lost or changed.
LogsGrow ==
  \A e \in Epochs :
    /\ Len(logs[e]) <= Len(logs'[e])
    /\ \A n \in 1..Len(logs[e]) : logs'[e][n] = logs[e][n]

\* What the supervisor does leaves the stream's content and the controller alone.
ControllerRests ==
  /\ UNCHANGED <<wire, connection, position>>
  /\ \/ stream' = stream /\ (stream.state = "open" => epoch' = epoch)
     \/ stream.state = "open" /\ stream' = [stream EXCEPT !.state = "ended"]

\* Elements of a sequence, and lengths.
LEMMA Elements ==
  ASSUME NEW S, NEW s \in Seq(S)
  PROVE  Len(s) \in Nat /\ \A i \in 1..Len(s) : s[i] \in S
  OBVIOUS

\* The events that the supervisor tells are events.
LEMMA EventType == \A kind \in EventKinds, id \in Nat : Event(kind, id) \in Events
  BY DEF Event, Events

\* Appending to the log of the service that runs keeps what is there.
LEMMA AppendGrows ==
  ASSUME ServiceTypes, CarriesItsLog, NEW event \in Events, AppendToLog(event)
  PROVE  /\ LogsGrow /\ logs' \in [Epochs -> Seq(Events)]
         /\ \A e \in Epochs : e > epoch => logs'[e] = <<>>
<1>1. /\ epoch \in Epochs /\ logs \in [Epochs -> Seq(Events)]
      /\ logs' = [logs EXCEPT ![epoch] = Append(@, event)]
  BY DEF ServiceTypes, AppendToLog
<1>2. logs' \in [Epochs -> Seq(Events)]
  BY <1>1
<1>3. LogsGrow
  <2> SUFFICES ASSUME NEW e \in Epochs
               PROVE  /\ Len(logs[e]) <= Len(logs'[e])
                      /\ \A n \in 1..Len(logs[e]) : logs'[e][n] = logs[e][n]
    BY DEF LogsGrow
  <2>1. logs[e] \in Seq(Events) /\ Len(logs[e]) \in Nat
    BY <1>1, Elements
  <2>2. logs'[e] = logs[e] \/ logs'[e] = Append(logs[e], event)
    BY <1>1
  <2> QED BY <2>1, <2>2
<1>4. \A e \in Epochs : e > epoch => logs'[e] = <<>>
  BY <1>1 DEF CarriesItsLog
<1> QED BY <1>2, <1>3, <1>4

\* Each step of the supervisor keeps the types of its state and only extends the
\* logs, and the controller learns of it by what it receives alone.
LEMMA SupervisorStep ==
  ASSUME StreamInvariant, Supervisor
  PROVE  /\ ServiceTypes' /\ LogsGrow /\ ControllerRests
         /\ startAsked' \in BOOLEAN /\ startAnswer' \in 0..MaxKernel
         /\ stopAsked' \in Nat /\ stopAnswer' \in Nat
         /\ \A e \in Epochs : e > epoch' => logs'[e] = <<>>
<1> USE DEF StreamInvariant, TypeOK
<1> DEFINE Goal == /\ ServiceTypes' /\ LogsGrow /\ ControllerRests
                   /\ startAsked' \in BOOLEAN /\ startAnswer' \in 0..MaxKernel
                   /\ stopAsked' \in Nat /\ stopAnswer' \in Nat
                   /\ \A e \in Epochs : e > epoch' => logs'[e] = <<>>
<1>q. UNCHANGED <<epoch, logs>> => LogsGrow /\ \A e \in Epochs : e > epoch' => logs'[e] = <<>>
  BY DEF LogsGrow, CarriesItsLog, ServiceTypes
<1>1. CASE LaneAppend
  <2>1. Head(owes) \in Events /\ Tail(owes) \in Seq(Events)
    BY <1>1 DEF LaneAppend, ServiceTypes
  <2>2. LogsGrow /\ logs' \in [Epochs -> Seq(Events)] /\ \A e \in Epochs : e > epoch => logs'[e] = <<>>
    BY <1>1, <2>1, AppendGrows DEF LaneAppend
  <2> QED BY <1>1, <2>1, <2>2 DEF LaneAppend, ServiceTypes, ControllerRests, PositionTypes, channel, commands, connection, position
<1>2. CASE OtherAppend
  <2>1. Event("other", 0) \in Events
    BY EventType DEF EventKinds
  <2>2. LogsGrow /\ logs' \in [Epochs -> Seq(Events)] /\ \A e \in Epochs : e > epoch => logs'[e] = <<>>
    BY <1>2, <2>1, AppendGrows DEF OtherAppend
  <2> QED BY <1>2, <2>2 DEF OtherAppend, ServiceTypes, ControllerRests, PositionTypes, service, channel, commands, connection, position
<1>3. CASE StartBegin
  BY <1>3, <1>q DEF StartBegin, ServiceTypes, ControllerRests, PositionTypes, channel, commands, connection, position
<1>4. CASE StartFails
  BY <1>4, <1>q DEF StartFails, ServiceTypes, ControllerRests, PositionTypes, channel, connection, position
<1>5. CASE StartPublish
  <2>1. lastKernel + 1 \in 0..MaxKernel
    BY <1>5 DEF StartPublish, ServiceTypes
  <2>2. Append(owes, Event("on", lastKernel + 1)) \in Seq(Events)
    BY <2>1, EventType DEF ServiceTypes, EventKinds
  <2>3. ServiceTypes'
    BY <1>5, <2>1, <2>2 DEF StartPublish, ServiceTypes
  <2>4. /\ startAsked' \in BOOLEAN /\ startAnswer' \in 0..MaxKernel
        /\ stopAsked' \in Nat /\ stopAnswer' \in Nat
    BY <1>5, <2>1 DEF StartPublish, PositionTypes
  <2>5. ControllerRests
    BY <1>5 DEF StartPublish, ControllerRests, channel
  <2>6. UNCHANGED <<epoch, logs>>
    BY <1>5 DEF StartPublish
  <2> QED BY <1>q, <2>3, <2>4, <2>5, <2>6
<1>6. CASE TurnOff
  <2>1. <<Event("off", kernel)>> \in Seq(Events)
    BY EventType DEF ServiceTypes, EventKinds
  <2>3. ServiceTypes'
    BY <1>6, <2>1 DEF TurnOff, ServiceTypes, Free
  <2>4. /\ startAsked' \in BOOLEAN /\ startAnswer' \in 0..MaxKernel
        /\ stopAsked' \in Nat /\ stopAnswer' \in Nat
    <3>1. startAsked' \in BOOLEAN /\ startAnswer' \in 0..MaxKernel /\ stopAsked' \in Nat
      BY <1>6 DEF TurnOff, PositionTypes
    <3>2. stopAnswer' \in Nat
      BY <1>6 DEF TurnOff, PositionTypes, ServiceTypes
    <3> QED BY <3>1, <3>2
  <2>5. ControllerRests
    BY <1>6 DEF TurnOff, ControllerRests, channel
  <2>6. UNCHANGED <<epoch, logs>>
    BY <1>6 DEF TurnOff
  <2> QED BY <1>q, <2>3, <2>4, <2>5, <2>6
<1>7. CASE StopAbsent
  <2>1. stopAnswer' \in Nat
    BY <1>7 DEF StopAbsent, PositionTypes
  <2>2. startAsked' \in BOOLEAN /\ startAnswer' \in 0..MaxKernel /\ stopAsked' \in Nat
    BY <1>7 DEF StopAbsent, PositionTypes
  <2>3. ServiceTypes' /\ UNCHANGED <<epoch, logs>>
    BY <1>7 DEF StopAbsent, ServiceTypes, service
  <2>4. ControllerRests
    BY <1>7 DEF StopAbsent, ControllerRests, channel, service
  <2> QED BY <1>q, <2>1, <2>2, <2>3, <2>4
<1>8. CASE ExecBegin
  <2>1. lastExec + 1 \in 0..MaxExec
    BY <1>8 DEF ExecBegin, ServiceTypes
  <2>2. <<Event("started", lastExec + 1)>> \in Seq(Events)
    BY <2>1, EventType DEF EventKinds
  <2> QED BY <1>8, <1>q, <2>1, <2>2 DEF ExecBegin, ServiceTypes, ControllerRests, PositionTypes, channel, commands, connection, position
<1>9. CASE ExecEnd
  <2>1. <<Event("completed", lastExec)>> \in Seq(Events)
    BY EventType DEF ServiceTypes, EventKinds
  <2>2. ServiceTypes'
    <3>1. owes' \in Seq(Events) /\ doing' \in {"nothing", "dying"}
      BY <1>9, <2>1 DEF ExecEnd, ServiceTypes
    <3> QED BY <1>9, <3>1 DEF ExecEnd, ServiceTypes
  <2>3. /\ startAsked' \in BOOLEAN /\ startAnswer' \in 0..MaxKernel
        /\ stopAsked' \in Nat /\ stopAnswer' \in Nat
    BY <1>9 DEF ExecEnd, PositionTypes, commands
  <2>4. ControllerRests /\ UNCHANGED <<epoch, logs>>
    BY <1>9 DEF ExecEnd, ControllerRests, channel
  <2> QED BY <1>q, <2>2, <2>3, <2>4
<1>10. CASE ExecDied
  <2>1. <<Event("off", kernel), Event("completed", lastExec)>> \in Seq(Events)
    BY EventType DEF ServiceTypes, EventKinds
  <2>2. ServiceTypes'
    <3>1. on' \in BOOLEAN
      BY <1>10, Zenon DEF ExecDied
    <3>2. owes' \in Seq(Events) /\ doing' = "nothing"
      BY <1>10, <2>1 DEF ExecDied
    <3> QED BY <1>10, <3>1, <3>2 DEF ExecDied, ServiceTypes
  <2>3. /\ startAsked' \in BOOLEAN /\ startAnswer' \in 0..MaxKernel
        /\ stopAsked' \in Nat /\ stopAnswer' \in Nat
    BY <1>10 DEF ExecDied, PositionTypes, commands
  <2>4. ControllerRests /\ UNCHANGED <<epoch, logs>>
    BY <1>10 DEF ExecDied, ControllerRests, channel
  <2> QED BY <1>q, <2>2, <2>3, <2>4
<1>11. CASE Replace
  <2>0. Ready \in Events
    BY EventType DEF Ready, EventKinds
  <2>1. <<Ready>> \in Seq(Events) /\ epoch + 1 \in Epochs
    BY <1>11, <2>0 DEF Replace, ServiceTypes
  <2>2. logs' \in [Epochs -> Seq(Events)]
    BY <1>11, <2>1 DEF Replace, ServiceTypes
  <2>3. \A e \in Epochs : e # epoch + 1 => logs'[e] = logs[e]
    BY <1>11, <2>1 DEF Replace, ServiceTypes
  <2>5. logs[epoch + 1] = <<>>
    BY <2>1 DEF CarriesItsLog, ServiceTypes
  <2>6. LogsGrow
    <3> SUFFICES ASSUME NEW e \in Epochs
                 PROVE  /\ Len(logs[e]) <= Len(logs'[e])
                        /\ \A n \in 1..Len(logs[e]) : logs'[e][n] = logs[e][n]
      BY DEF LogsGrow
    <3>1. Len(logs[e]) \in Nat /\ Len(logs'[e]) \in Nat
      BY <2>2, Elements DEF ServiceTypes
    <3>2. CASE e = epoch + 1
      BY <2>5, <3>1, <3>2
    <3>3. CASE e # epoch + 1
      BY <2>3, <3>1, <3>3
    <3> QED BY <3>2, <3>3
  <2>7. \A e \in Epochs : e > epoch' => logs'[e] = <<>>
    <3> SUFFICES ASSUME NEW e \in Epochs, e > epoch + 1
                 PROVE  logs'[e] = <<>>
      BY <1>11 DEF Replace
    <3> QED BY <2>3 DEF CarriesItsLog, ServiceTypes
  <2>8. /\ startAsked' \in BOOLEAN /\ startAnswer' \in 0..MaxKernel
        /\ stopAsked' \in Nat /\ stopAnswer' \in Nat
    <3>1. startAnswer' \in 0..MaxKernel /\ stopAsked' \in Nat /\ stopAnswer' \in Nat
      BY <1>11 DEF Replace
    <3>2. startAsked' \in BOOLEAN
      BY <1>11, Zenon DEF Replace
    <3> QED BY <3>1, <3>2
  <2>9. ServiceTypes'
    <3>1. on' \in BOOLEAN
      BY <1>11, Zenon DEF Replace
    <3>2. epoch' \in Epochs /\ kernel' \in 0..MaxKernel /\ runtime' \in 0..MaxKernel /\ active' \in 0..MaxExec
      BY <1>11, <2>1 DEF Replace
    <3>3. doing' = "nothing" /\ owes' \in Seq(Events)
      BY <1>11 DEF Replace
    <3>4. lastKernel' \in 0..MaxKernel /\ lastExec' \in 0..MaxExec
      BY <1>11 DEF Replace, ServiceTypes
    <3> QED BY <2>2, <3>1, <3>2, <3>3, <3>4 DEF ServiceTypes
  <2>4. ControllerRests
    BY <1>11 DEF Replace, ControllerRests, StreamTypes, connection, position
  <2> QED BY <2>4, <2>6, <2>7, <2>8, <2>9
<1> QED BY <1>1, <1>2, <1>3, <1>4, <1>5, <1>6, <1>7, <1>8, <1>9, <1>10, <1>11 DEF Supervisor

\* When only the logs grow, everything the controller holds stays true.
LEMMA RestingController ==
  ASSUME StreamInvariant, ServiceTypes', LogsGrow, ControllerRests,
         startAsked' \in BOOLEAN, startAnswer' \in 0..MaxKernel,
         stopAsked' \in Nat, stopAnswer' \in Nat,
         \A e \in Epochs : e > epoch' => logs'[e] = <<>>
  PROVE  StreamInvariant'
<1>0. /\ wire' = wire /\ link' = link /\ transport' = transport /\ generation' = generation
      /\ inspections' = inspections /\ sup' = sup /\ seq' = seq /\ view' = view
      /\ base' = base /\ received' = received
  BY DEF ControllerRests, connection, position
<1>l. \A e \in Epochs :
        /\ Len(logs[e]) \in Nat /\ Len(logs'[e]) \in Nat /\ Len(logs[e]) <= Len(logs'[e])
        /\ \A n \in 1..Len(logs[e]) : logs'[e][n] = logs[e][n]
  <2>1. \A e \in Epochs : logs[e] \in Seq(Events) /\ logs'[e] \in Seq(Events)
    BY DEF StreamInvariant, TypeOK, ServiceTypes
  <2>2. \A e \in Epochs : Len(logs[e]) \in Nat /\ Len(logs'[e]) \in Nat
    BY <2>1, Elements
  <2> QED BY <2>2 DEF LogsGrow
<1>s. /\ stream' \in [state : {"none", "open", "ended"}, sup : 0..MaxEpoch, cursor : Nat, until : Nat]
      /\ stream'.sup = stream.sup /\ stream'.cursor = stream.cursor /\ stream'.until = stream.until
  BY DEF ControllerRests, StreamInvariant, TypeOK, StreamTypes
<1> USE DEF StreamInvariant
<1>1. StreamTypes' /\ ConnectionTypes' /\ PositionTypes'
  BY <1>0, <1>s DEF TypeOK, StreamTypes, ConnectionTypes, PositionTypes
<1>2. sup' # 0 => seq' <= Len(logs'[sup'])
  BY <1>0, <1>l DEF TypeOK, PositionTypes
<1>3. CarriesItsLog'
  <2>1. \A i \in 1..Len(wire) : wire[i].sup \in Epochs /\ wire[i].seq \in Nat
    <3>1. \A i \in 1..Len(wire) : wire[i] \in [sup : Epochs, seq : Nat]
      BY Elements, Zenon DEF TypeOK, StreamTypes
    <3> QED BY <3>1
  <2>2. \A i \in 1..Len(wire') : wire'[i].seq <= Len(logs'[wire'[i].sup])
    <3> SUFFICES ASSUME NEW i \in 1..Len(wire)
                 PROVE  wire[i].seq <= Len(logs'[wire[i].sup])
      BY <1>0
    <3>1. wire[i].seq <= Len(logs[wire[i].sup])
      BY DEF CarriesItsLog
    <3> QED BY <1>l, <2>1, <3>1
  <2>3. stream'.cursor < stream'.until => stream'.sup \in Epochs /\ stream'.until <= Len(logs'[stream'.sup])
    BY <1>s, <1>l DEF CarriesItsLog, TypeOK, StreamTypes
  <2>4. link' = "none" => stream' = NoStream /\ wire' = <<>>
    BY <1>0, <1>s DEF CarriesItsLog, ControllerRests, NoStream
  <2>5. stream'.state = "open" => stream'.sup = epoch'
    BY <1>s DEF CarriesItsLog, ControllerRests, TypeOK, StreamTypes
  <2> QED BY <2>2, <2>3, <2>4, <2>5 DEF CarriesItsLog
<1>4. OneAuthority'
  <2>1. \A i \in inspections : i.sup # 0 => i.sup \in Epochs /\ i.last \in Nat
    BY DEF TypeOK, ConnectionTypes, Snapshots, Asked
  <2>2. \A i \in inspections : i.sup # 0 => i.last <= Len(logs'[i.sup])
    BY <1>l, <2>1 DEF OneAuthority
  <2> QED BY <1>0, <2>2 DEF OneAuthority
<1>5. NothingLostOrRepeated'
  <2>1. CASE sup = 0
    BY <1>0, <2>1 DEF NothingLostOrRepeated, TypeOK, PositionTypes
  <2>2. CASE sup # 0
    <3>1. sup \in Epochs /\ base + Len(received) <= Len(logs[sup]) /\ base \in Nat /\ Len(received) \in Nat
      BY <2>2 DEF NothingLostOrRepeated, TypeOK, PositionTypes
    <3>2. \A i \in 1..Len(received) : base + i \in 1..Len(logs[sup])
      BY <3>1, <1>l
    <3> QED BY <1>0, <1>l, <3>1, <3>2 DEF NothingLostOrRepeated
  <2> QED BY <2>1, <2>2
<1> QED BY <1>0, <1>1, <1>2, <1>3, <1>4, <1>5 DEF TypeOK

\* The parts of the invariant that rest when what they are about does.
LEMMA PositionRests ==
  ASSUME StreamInvariant, UNCHANGED <<logs, sup, seq, base, received>>
  PROVE  /\ sup' # 0 => seq' <= Len(logs'[sup'])
         /\ NothingLostOrRepeated' /\ (sup' = 0 => seq' = 0 /\ received' = <<>>)
  BY DEF StreamInvariant, TypeOK, NothingLostOrRepeated

LEMMA StreamRests ==
  ASSUME StreamInvariant, UNCHANGED <<epoch, logs, stream, wire, link>>
  PROVE  StreamTypes' /\ CarriesItsLog'
  BY DEF StreamInvariant, TypeOK, StreamTypes, CarriesItsLog

LEMMA AuthorityRests ==
  ASSUME StreamInvariant, UNCHANGED <<logs, generation, inspections, sup, seq>>,
         link' = link \/ link' = "none"
  PROVE  OneAuthority'
  BY DEF StreamInvariant, OneAuthority

\* A dropped connection carries nothing.
LEMMA Dropped ==
  ASSUME StreamInvariant, DropLink, UNCHANGED <<epoch, logs>>
  PROVE  /\ StreamTypes' /\ CarriesItsLog' /\ link' = "none"
         /\ startAsked' \in BOOLEAN /\ startAnswer' \in 0..MaxKernel
         /\ stopAsked' \in Nat /\ stopAnswer' \in Nat
<1>1. StreamTypes' /\ link' = "none"
  BY DEF DropLink, StreamTypes, NoStream
<1>2. CarriesItsLog'
  BY DEF DropLink, CarriesItsLog, NoStream, StreamInvariant
<1>3. startAnswer' \in 0..MaxKernel /\ stopAsked' \in Nat /\ stopAnswer' \in Nat
  BY DEF DropLink
<1>4. startAsked' \in BOOLEAN
  BY Zenon DEF DropLink
<1> QED BY <1>1, <1>2, <1>3, <1>4

\* The handler writes what is in the log.
LEMMA ServeStep ==
  ASSUME StreamInvariant, ServeOpen \/ ServeBatch \/ ServeEvent
  PROVE  StreamInvariant'
<1>0. UNCHANGED <<service, logs, commands, connection, position>>
  BY DEF ServeOpen, ServeBatch, NextBatch, ServeEvent
<1>1. /\ ServiceTypes' /\ ConnectionTypes' /\ PositionTypes'
      /\ UNCHANGED <<epoch, logs, link, generation, inspections, sup, seq, base, received>>
  BY <1>0 DEF StreamInvariant, TypeOK, ServiceTypes, ConnectionTypes, PositionTypes,
              service, commands, connection, position
<1>2. epoch \in Epochs /\ Latest \in Nat /\ Earliest \in Nat /\ seq \in Nat
  <2>1. epoch \in Epochs /\ Log \in Seq(Events) /\ seq \in Nat
    BY DEF StreamInvariant, TypeOK, ServiceTypes, PositionTypes, Log
  <2>2. Latest \in Nat
    BY <2>1, Elements DEF Latest
  <2> QED BY <2>1, <2>2 DEF Earliest
<1>3. \A e \in Epochs : Len(logs[e]) \in Nat
  BY Elements DEF StreamInvariant, TypeOK, ServiceTypes
<1>4. /\ \A i \in 1..Len(wire) : wire[i] \in [sup : Epochs, seq : Nat]
      /\ Len(wire) \in Nat /\ wire \in Seq([sup : Epochs, seq : Nat])
  BY Elements DEF StreamInvariant, TypeOK, StreamTypes
<1> DEFINE Batched ==
      /\ stream' \in [state : {"none", "open", "ended"}, sup : 0..MaxEpoch, cursor : Nat, until : Nat]
      /\ wire' \in Seq([sup : Epochs, seq : Nat])
      /\ \A i \in 1..Len(wire') : wire'[i].seq <= Len(logs[wire'[i].sup])
      /\ stream'.cursor < stream'.until => stream'.sup \in Epochs /\ stream'.until <= Len(logs[stream'.sup])
      /\ stream'.state = "open" => stream'.sup = epoch
      /\ link = "none" => stream' = NoStream /\ wire' = <<>>
<1>5. Batched
  <2>1. CASE ServeOpen
    <3>1. CASE seq < Earliest - 1
      <4>1. wire' = wire /\ link # "none" /\ stream' = [NoStream EXCEPT !.state = "ended"]
        BY <2>1, <3>1 DEF ServeOpen
      <4>2. stream' = [state |-> "ended", sup |-> 0, cursor |-> 0, until |-> 0]
        BY <4>1 DEF NoStream
      <4>3. \A i \in 1..Len(wire) : wire[i].seq <= Len(logs[wire[i].sup])
        BY DEF StreamInvariant, CarriesItsLog
      <4>4. /\ stream' \in [state : {"none", "open", "ended"}, sup : 0..MaxEpoch, cursor : Nat, until : Nat]
            /\ ~(stream'.cursor < stream'.until) /\ stream'.state # "open"
        BY <4>2
      <4>5. wire' \in Seq([sup : Epochs, seq : Nat])
        BY <1>4, <4>1
      <4>6. \A i \in 1..Len(wire') : wire'[i].seq <= Len(logs[wire'[i].sup])
        BY <4>1, <4>3
      <4> QED BY <4>1, <4>4, <4>5, <4>6
    <3>2. CASE ~(seq < Earliest - 1)
      <4>1. /\ wire' = <<[sup |-> epoch, seq |-> 0]>> /\ link # "none"
            /\ stream' = [state |-> "open", sup |-> epoch, cursor |-> seq,
                          until |-> IF Latest > seq THEN Latest ELSE seq]
        BY <2>1, <3>2 DEF ServeOpen
      <4>2. wire' \in Seq([sup : Epochs, seq : Nat])
        BY <1>2, <4>1
      <4>3. \A i \in 1..Len(wire') : wire'[i].seq <= Len(logs[wire'[i].sup])
        BY <1>2, <1>3, <4>1
      <4> QED BY <1>2, <4>1, <4>2, <4>3 DEF Latest, Log
    <3> QED BY <3>1, <3>2
  <2>2. CASE ServeBatch
    <3>1. wire' = wire /\ stream.state = "open" /\ stream.cursor = stream.until /\ Latest > stream.cursor
      BY <2>2 DEF ServeBatch, NextBatch
    <3>2. stream' = [stream EXCEPT !.state = "ended"] \/ stream' = [stream EXCEPT !.until = Latest]
      BY <2>2 DEF ServeBatch, NextBatch
    <3>3. stream.sup = epoch
      BY <3>1 DEF StreamInvariant, CarriesItsLog
    <3> QED BY <1>2, <1>4, <3>1, <3>2, <3>3 DEF StreamInvariant, TypeOK, StreamTypes, CarriesItsLog, NoStream, Latest, Log
  <2>3. CASE ServeEvent
    <3>1. /\ stream.state = "open" /\ stream.cursor < stream.until
          /\ stream' = [stream EXCEPT !.cursor = @ + 1]
          /\ wire' = Append(wire, [sup |-> stream.sup, seq |-> stream.cursor + 1])
      BY <2>3 DEF ServeEvent
    <3>2. stream.sup \in Epochs /\ stream.until <= Len(logs[stream.sup])
      BY <3>1 DEF StreamInvariant, CarriesItsLog
    <3>3. stream \in [state : {"none", "open", "ended"}, sup : 0..MaxEpoch, cursor : Nat, until : Nat]
      BY DEF StreamInvariant, TypeOK, StreamTypes
    <3>4. wire' \in Seq([sup : Epochs, seq : Nat])
      BY <1>4, <3>1, <3>2, <3>3
    <3>5. \A i \in 1..Len(wire') : wire'[i].seq <= Len(logs[wire'[i].sup])
      <4>1. \A i \in 1..Len(wire) : wire[i].seq <= Len(logs[wire[i].sup])
        BY DEF StreamInvariant, CarriesItsLog
      <4>2. Len(wire') = Len(wire) + 1 /\ \A i \in 1..Len(wire) : wire'[i] = wire[i]
        BY <1>4, <3>1
      <4>3. wire'[Len(wire) + 1] = [sup |-> stream.sup, seq |-> stream.cursor + 1]
        BY <1>4, <3>1
      <4>4. stream.cursor + 1 <= Len(logs[stream.sup])
        BY <1>3, <3>1, <3>2, <3>3
      <4> SUFFICES ASSUME NEW i \in 1..Len(wire')
                   PROVE  wire'[i].seq <= Len(logs[wire'[i].sup])
        OBVIOUS
      <4>5. CASE i = Len(wire) + 1
        <5>1. wire'[i] = [sup |-> stream.sup, seq |-> stream.cursor + 1]
          BY <4>3, <4>5
        <5>2. wire'[i].sup = stream.sup /\ wire'[i].seq = stream.cursor + 1
          BY <5>1
        <5> QED BY <4>4, <5>2
      <4>6. CASE i # Len(wire) + 1
        <5>1. i \in 1..Len(wire)
          BY <1>4, <4>2, <4>6
        <5>2. wire'[i] = wire[i] /\ wire[i].seq <= Len(logs[wire[i].sup])
          BY <4>1, <4>2, <5>1
        <5> QED BY <5>2
      <4> QED BY <4>5, <4>6
    <3>6. link # "none"
      BY <3>1 DEF StreamInvariant, CarriesItsLog, NoStream
    <3>7. stream'.state = "open" => stream'.sup = epoch
      BY <3>1, <3>3 DEF StreamInvariant, CarriesItsLog
    <3>8. /\ stream' \in [state : {"none", "open", "ended"}, sup : 0..MaxEpoch, cursor : Nat, until : Nat]
          /\ stream'.sup \in Epochs /\ stream'.until <= Len(logs[stream'.sup])
      BY <3>1, <3>2, <3>3
    <3> QED BY <3>4, <3>5, <3>6, <3>7, <3>8
  <2> QED BY <2>1, <2>2, <2>3
<1>6. StreamTypes' /\ CarriesItsLog'
  BY <1>1, <1>5 DEF StreamTypes, CarriesItsLog, StreamInvariant
<1> QED BY <1>1, <1>6, PositionRests, AuthorityRests DEF StreamInvariant, TypeOK

\* An inspection takes what the service shows at that moment.
LEMMA HealthStep ==
  ASSUME StreamInvariant, Health
  PROVE  StreamInvariant'
<1> PICK i \in inspections :
      /\ i.sup = 0
      /\ inspections' = (inspections \ {i}) \cup
           {[gen |-> i.gen, sup |-> epoch, first |-> Earliest, last |-> Latest,
             kernel |-> kernel, on |-> on, runtime |-> runtime, active |-> active]}
      /\ UNCHANGED <<service, logs, channel, commands, link, transport, generation, position>>
  BY DEF Health
<1> DEFINE r == [gen |-> i.gen, sup |-> epoch, first |-> Earliest, last |-> Latest,
                 kernel |-> kernel, on |-> on, runtime |-> runtime, active |-> active]
<1>1. /\ ServiceTypes' /\ StreamTypes' /\ PositionTypes' /\ CarriesItsLog'
      /\ UNCHANGED <<epoch, logs, sup, seq, base, received, link, generation, transport>>
  BY DEF StreamInvariant, TypeOK, ServiceTypes, StreamTypes, PositionTypes, CarriesItsLog,
         service, channel, commands, position
<1>2. /\ epoch \in Epochs /\ Log \in Seq(Events) /\ Log = logs[epoch] /\ generation \in 0..MaxConnect
      /\ kernel \in Nat /\ on \in BOOLEAN /\ runtime \in Nat /\ active \in Nat
  BY DEF StreamInvariant, TypeOK, ServiceTypes, ConnectionTypes, Log
<1>3. Latest \in Nat /\ Latest = Len(logs[epoch]) /\ Earliest \in Nat
  <2>1. Latest \in Nat /\ Latest = Len(logs[epoch])
    BY <1>2, Elements DEF Latest
  <2> QED BY <2>1 DEF Earliest
<1>4. i.gen \in Nat
  BY DEF StreamInvariant, TypeOK, ConnectionTypes, Snapshots
<1>5. r \in Snapshots
  BY <1>2, <1>3, <1>4 DEF Snapshots
<1>6. ConnectionTypes'
  <2>1. \A j \in inspections' : j \in Snapshots \/ (j.gen \in Nat /\ j = Asked(j.gen))
    BY <1>5 DEF StreamInvariant, TypeOK, ConnectionTypes
  <2> QED BY <1>1, <2>1 DEF StreamInvariant, TypeOK, ConnectionTypes
<1>7. OneAuthority'
  <2>1. r.gen = i.gen /\ r.sup = epoch /\ r.last = Len(logs[epoch])
    BY <1>3
  <2>2. \A j \in inspections' : j = r \/ (j \in inspections /\ j # i)
    OBVIOUS
  <2>3. \A j \in inspections' : j.gen <= generation' /\ (j.gen = generation' => link' = "none")
    BY <1>1, <2>1, <2>2 DEF StreamInvariant, OneAuthority
  <2>4. \A j, k \in inspections' : j.gen = k.gen => j = k
    BY <2>1, <2>2 DEF StreamInvariant, OneAuthority
  <2>5. \A j \in inspections' : j.sup # 0 => j.last <= Len(logs'[j.sup])
    BY <1>1, <1>3, <2>1, <2>2 DEF StreamInvariant, OneAuthority
  <2>6. \A j \in inspections' : j.gen = generation' /\ j.sup # 0 /\ j.sup = sup' => seq' <= j.last
    BY <1>1, <2>1, <2>2 DEF StreamInvariant, OneAuthority, TypeOK
  <2> QED BY <2>3, <2>4, <2>5, <2>6 DEF OneAuthority
<1> QED BY <1>1, <1>6, <1>7, PositionRests DEF StreamInvariant, TypeOK

\* An inspection begins, fails or is accepted.
LEMMA InspectStep ==
  ASSUME StreamInvariant, Connect \/ InspectFails \/ Accept
  PROVE  StreamInvariant'
<1>0. UNCHANGED <<service, logs, commands>>
  BY DEF Connect, ConnectAs, InspectFails, Accept, AcceptWhen
<1>1. ServiceTypes' /\ UNCHANGED <<epoch, logs>>
  BY <1>0 DEF StreamInvariant, TypeOK, ServiceTypes, service
<1>2. CASE Connect
  <2>1. /\ generation' = generation + 1 /\ transport' = "connecting" /\ link = "none"
        /\ inspections' = inspections \cup {Asked(generation + 1)} /\ generation < MaxConnect
        /\ UNCHANGED <<channel, commands, link, position>>
    BY <1>2 DEF Connect, ConnectAs
  <2>2. generation \in Nat /\ generation + 1 \in 0..MaxConnect
    BY <2>1 DEF StreamInvariant, TypeOK, ConnectionTypes
  <2>3. Asked(generation + 1).gen = generation + 1 /\ Asked(generation + 1).sup = 0
    BY DEF Asked
  <2>4. ConnectionTypes'
    BY <2>1, <2>2, <2>3 DEF StreamInvariant, TypeOK, ConnectionTypes
  <2>5. StreamTypes' /\ CarriesItsLog'
    BY <1>1, <2>1, StreamRests DEF channel
  <2>6. PositionTypes' /\ UNCHANGED <<sup, seq, base, received>>
    BY <2>1 DEF StreamInvariant, TypeOK, PositionTypes, commands, position
  <2>7. \A i \in inspections : i.gen \in Nat /\ i.gen <= generation
    BY DEF StreamInvariant, OneAuthority, TypeOK, ConnectionTypes, Snapshots
  <2>8. OneAuthority'
    BY <1>1, <2>1, <2>2, <2>3, <2>6, <2>7 DEF StreamInvariant, OneAuthority
  <2> QED BY <1>1, <2>4, <2>5, <2>6, <2>8, PositionRests DEF StreamInvariant, TypeOK
<1>3. CASE InspectFails
  <2>1. /\ inspections' \subseteq inspections
        /\ transport' \in {"disconnected", transport}
        /\ UNCHANGED <<channel, commands, link, generation, position>>
    BY <1>3 DEF InspectFails
  <2>2. ConnectionTypes'
    BY <2>1 DEF StreamInvariant, TypeOK, ConnectionTypes
  <2>3. StreamTypes' /\ CarriesItsLog'
    BY <1>1, <2>1, StreamRests DEF channel
  <2>4. PositionTypes' /\ UNCHANGED <<sup, seq, base, received>>
    BY <2>1 DEF StreamInvariant, TypeOK, PositionTypes, commands, position
  <2>5. OneAuthority'
    BY <1>1, <2>1, <2>4 DEF StreamInvariant, OneAuthority
  <2> QED BY <1>1, <2>2, <2>3, <2>4, <2>5, PositionRests DEF StreamInvariant, TypeOK
<1>4. CASE Accept
  <2> DEFINE Resync(r) == sup = 0 \/ sup # r.sup \/ Unavailable(r)
  <2> PICK r \in Answered : AcceptWhen(r, r.gen = generation, Resync(r), r.last)
    BY <1>4 DEF Accept
  <2>1. /\ r \in inspections /\ r.sup # 0 /\ r \in Snapshots
        /\ inspections' = inspections \ {r} /\ UNCHANGED <<commands, transport, generation>>
    BY DEF Answered, AcceptWhen, StreamInvariant, TypeOK, ConnectionTypes, Asked
  <2>2. CASE r.gen # generation
    <3>1. UNCHANGED <<link, channel, position>>
      BY <2>2 DEF AcceptWhen
    <3>2. ConnectionTypes'
      BY <2>1, <3>1 DEF StreamInvariant, TypeOK, ConnectionTypes
    <3>3. StreamTypes' /\ CarriesItsLog'
      BY <1>1, <3>1, StreamRests DEF channel
    <3>4. PositionTypes' /\ UNCHANGED <<sup, seq, base, received>>
      BY <2>1, <3>1 DEF StreamInvariant, TypeOK, PositionTypes, commands, position
    <3>5. OneAuthority'
      BY <1>1, <2>1, <3>1, <3>4 DEF StreamInvariant, OneAuthority
    <3> QED BY <1>1, <3>2, <3>3, <3>4, <3>5, PositionRests DEF StreamInvariant, TypeOK
  <2>3. CASE r.gen = generation
    <3>1. link' = "opening" /\ stream' = NoStream /\ wire' = <<>> /\ sup' = r.sup
      BY <2>3 DEF AcceptWhen
    <3>2. ConnectionTypes'
      BY <2>1, <3>1 DEF StreamInvariant, TypeOK, ConnectionTypes
    <3>3. StreamTypes' /\ CarriesItsLog'
      BY <1>1, <3>1 DEF StreamTypes, CarriesItsLog, NoStream, StreamInvariant
    <3>4. \A i \in inspections' : i.gen # generation'
      BY <2>1, <2>3 DEF StreamInvariant, OneAuthority
    <3>5. OneAuthority'
      BY <1>1, <2>1, <3>4 DEF StreamInvariant, OneAuthority
    <3>6. r.sup \in Epochs /\ r.last \in Nat /\ r.last <= Len(logs[r.sup])
      BY <2>1 DEF Snapshots, StreamInvariant, OneAuthority
    <3>7. CASE Resync(r)
      <4>1. seq' = r.last /\ base' = r.last /\ received' = <<>> /\ view' = ShowSnapshot(r)
        BY <2>3, <3>7 DEF AcceptWhen
      <4>2. ShowSnapshot(r) \in [kernel : Nat, on : BOOLEAN, runtime : Nat, running : SUBSET Nat]
        BY <2>1 DEF Snapshots, ShowSnapshot
      <4>3. PositionTypes'
        BY <2>1, <3>1, <3>6, <4>1, <4>2 DEF StreamInvariant, TypeOK, PositionTypes, commands
      <4>4. NothingLostOrRepeated'
        BY <3>6, <4>1 DEF NothingLostOrRepeated
      <4>5. (sup' # 0 => seq' <= Len(logs'[sup'])) /\ sup' # 0
        BY <1>1, <3>1, <3>6, <4>1
      <4> QED BY <1>1, <3>2, <3>3, <3>5, <4>3, <4>4, <4>5 DEF StreamInvariant, TypeOK
    <3>8. CASE ~Resync(r)
      <4>1. UNCHANGED <<seq, view, base, received>> /\ sup' = sup
        BY <2>3, <3>1, <3>8 DEF AcceptWhen
      <4>2. PositionTypes'
        BY <2>1, <4>1 DEF StreamInvariant, TypeOK, PositionTypes, commands
      <4> QED BY <1>1, <3>2, <3>3, <3>5, <4>1, <4>2, PositionRests DEF StreamInvariant, TypeOK
    <3> QED BY <3>7, <3>8
  <2> QED BY <2>2, <2>3
<1> QED BY <1>2, <1>3, <1>4

\* While a stream is followed no inspection has authority.
LEMMA FollowingHasNoInspection ==
  ASSUME StreamInvariant, wire # <<>>
  PROVE  link # "none" /\ \A i \in inspections : i.gen # generation
  BY DEF StreamInvariant, CarriesItsLog, OneAuthority

\* Taking the first item leaves items that are in the log.
LEMMA TakeFirst ==
  ASSUME StreamInvariant, wire # <<>>, wire' = Tail(wire), link' # "none",
         UNCHANGED <<epoch, logs, stream>>
  PROVE  StreamTypes' /\ CarriesItsLog'
<1>1. wire \in Seq([sup : Epochs, seq : Nat]) /\ Len(wire) \in Nat /\ Len(wire) > 0
  BY Elements DEF StreamInvariant, TypeOK, StreamTypes
<1>2. /\ wire' \in Seq([sup : Epochs, seq : Nat]) /\ Len(wire') = Len(wire) - 1
      /\ \A i \in 1..Len(wire') : wire'[i] = wire[i + 1]
  BY <1>1
<1>3. \A i \in 1..Len(wire') : wire'[i].seq <= Len(logs'[wire'[i].sup])
  <2> SUFFICES ASSUME NEW i \in 1..Len(wire')
               PROVE  wire'[i].seq <= Len(logs[wire'[i].sup])
    OBVIOUS
  <2>1. i + 1 \in 1..Len(wire)
    BY <1>1, <1>2
  <2>2. wire[i + 1].seq <= Len(logs[wire[i + 1].sup])
    BY <2>1 DEF StreamInvariant, CarriesItsLog
  <2> QED BY <1>2, <2>2
<1> QED BY <1>2, <1>3 DEF StreamInvariant, TypeOK, StreamTypes, CarriesItsLog

\* The next event is applied, once; any other is ignored or ends the connection.
LEMMA EventStep ==
  ASSUME StreamInvariant, OnEvent
  PROVE  StreamInvariant'
<1> DEFINE r == Head(wire)
           event == logs[r.sup][r.seq]
<1>0. wire # <<>> /\ UNCHANGED <<service, logs, generation, inspections>>
  BY DEF OnEvent, Handle
<1>1. ServiceTypes' /\ UNCHANGED <<epoch, logs>>
  BY <1>0 DEF StreamInvariant, TypeOK, ServiceTypes, service
<1>2. CASE DropLink /\ transport' = "disconnected" /\ UNCHANGED position
  <2>1. UNCHANGED <<sup, seq, base, received, view>>
    BY <1>2 DEF position
  <2>2. ConnectionTypes' /\ PositionTypes'
    BY <1>0, <1>1, <1>2, <2>1, Dropped DEF StreamInvariant, TypeOK, ConnectionTypes, PositionTypes
  <2>3. StreamTypes' /\ CarriesItsLog' /\ OneAuthority'
    BY <1>0, <1>1, <1>2, <2>1, Dropped, AuthorityRests
  <2> QED BY <1>1, <2>1, <2>2, <2>3, PositionRests DEF StreamInvariant, TypeOK
<1>3. CASE /\ wire' = Tail(wire) /\ UNCHANGED <<stream, commands, link, transport, position>>
  <2>1. UNCHANGED <<sup, seq, base, received, view>>
    BY <1>3 DEF position
  <2>2. ConnectionTypes' /\ PositionTypes'
    BY <1>0, <1>3, <2>1 DEF StreamInvariant, TypeOK, ConnectionTypes, PositionTypes, commands
  <2>3. link' # "none"
    BY <1>0, <1>3, FollowingHasNoInspection
  <2>4. StreamTypes' /\ CarriesItsLog' /\ OneAuthority'
    BY <1>0, <1>1, <1>3, <2>1, <2>3, TakeFirst, AuthorityRests
  <2> QED BY <1>1, <2>1, <2>2, <2>4, PositionRests DEF StreamInvariant, TypeOK
<1>4. CASE /\ r.sup = sup /\ r.seq = seq + 1 /\ wire' = Tail(wire)
           /\ sup' = r.sup /\ seq' = r.seq /\ transport' = "connected"
           /\ view' = Show(event) /\ received' = Append(received, event)
           /\ UNCHANGED <<stream, commands, link, base>>
  <2>1. r \in [sup : Epochs, seq : Nat] /\ r.seq <= Len(logs[r.sup])
    <3>1. wire \in Seq([sup : Epochs, seq : Nat]) /\ Len(wire) \in Nat /\ 1 \in 1..Len(wire)
      BY <1>0, Elements DEF StreamInvariant, TypeOK, StreamTypes
    <3>2. r = wire[1]
      BY <3>1
    <3>3. wire[1] \in [sup : Epochs, seq : Nat]
      BY <3>1, Elements, Zenon
    <3> QED BY <3>1, <3>2, <3>3 DEF StreamInvariant, CarriesItsLog
  <2>2. /\ sup \in Epochs /\ seq \in Nat /\ base \in Nat /\ received \in Seq(Events)
        /\ Len(received) \in Nat /\ seq = base + Len(received)
    BY <1>4, <2>1, Elements DEF StreamInvariant, TypeOK, PositionTypes, NothingLostOrRepeated
  <2>3. event \in Events /\ event = logs[sup][seq + 1]
    <3>1. logs[sup] \in Seq(Events) /\ Len(logs[sup]) \in Nat
      BY <2>2, Elements DEF StreamInvariant, TypeOK, ServiceTypes
    <3>2. seq + 1 \in 1..Len(logs[sup])
      BY <1>4, <2>1, <2>2, <3>1
    <3> QED BY <1>4, <3>1, <3>2, Elements
  <2>4. view' \in [kernel : Nat, on : BOOLEAN, runtime : Nat, running : SUBSET Nat]
    <3>1. view \in [kernel : Nat, on : BOOLEAN, runtime : Nat, running : SUBSET Nat]
      BY DEF StreamInvariant, TypeOK, PositionTypes
    <3>2. event.id \in Nat
      BY <2>3 DEF Events
    <3> QED BY <1>4, <3>1, <3>2 DEF Show
  <2>5. PositionTypes'
    BY <1>4, <2>1, <2>2, <2>3, <2>4 DEF StreamInvariant, TypeOK, PositionTypes, commands
  <2>6. ConnectionTypes'
    BY <1>0, <1>4 DEF StreamInvariant, TypeOK, ConnectionTypes
  <2>7. link # "none" /\ \A i \in inspections : i.gen # generation
    BY <1>0, FollowingHasNoInspection
  <2>8. StreamTypes' /\ CarriesItsLog'
    BY <1>0, <1>1, <1>4, <2>7, TakeFirst
  <2>9. OneAuthority'
    BY <1>0, <1>4, <2>7 DEF StreamInvariant, OneAuthority
  <2>10. NothingLostOrRepeated'
    <3>1. Len(received') = Len(received) + 1
      BY <1>4, <2>2
    <3>2. \A i \in 1..Len(received) : received'[i] = received[i]
      BY <1>4, <2>2
    <3>3. received'[Len(received) + 1] = event
      BY <1>4, <2>2
    <3>4. \A i \in 1..Len(received) : received[i] = logs[sup][base + i]
      BY DEF StreamInvariant, NothingLostOrRepeated
    <3>5. \A i \in 1..Len(received') : received'[i] = logs[sup][base + i]
      BY <2>2, <2>3, <3>1, <3>2, <3>3, <3>4
    <3>6. seq' = base + Len(received')
      BY <1>4, <2>2, <3>1
    <3> QED BY <1>0, <1>4, <3>5, <3>6 DEF NothingLostOrRepeated
  <2>11. (sup' # 0 => seq' <= Len(logs'[sup'])) /\ sup' # 0
    BY <1>0, <1>4, <2>1, <2>2
  <2> QED BY <1>1, <2>5, <2>6, <2>8, <2>9, <2>10, <2>11 DEF StreamInvariant, TypeOK
<1> QED BY <1>2, <1>3, <1>4 DEF OnEvent, Handle

\* The stream opens, ends, breaks, or is closed.
LEMMA LinkStep ==
  ASSUME StreamInvariant, OnOpen \/ OnClose \/ Break \/ Close
  PROVE  StreamInvariant'
<1>0. UNCHANGED <<service, logs, inspections, position>>
  BY DEF OnOpen, OnClose, Break, Close
<1>1. /\ ServiceTypes' /\ UNCHANGED <<epoch, logs, sup, seq, base, received, view, inspections>>
  BY <1>0 DEF StreamInvariant, TypeOK, ServiceTypes, service, position
<1>2. CASE OnOpen
  <2>1. /\ wire # <<>> /\ wire' = Tail(wire) /\ link' = "open" /\ transport' = "connected"
        /\ UNCHANGED <<stream, commands, generation>>
    BY <1>2 DEF OnOpen
  <2>2. ConnectionTypes' /\ PositionTypes'
    BY <1>1, <2>1 DEF StreamInvariant, TypeOK, ConnectionTypes, PositionTypes, commands
  <2>3. StreamTypes' /\ CarriesItsLog'
    BY <1>1, <2>1, TakeFirst
  <2>4. OneAuthority'
    BY <1>1, <2>1, FollowingHasNoInspection DEF StreamInvariant, OneAuthority
  <2> QED BY <1>1, <2>2, <2>3, <2>4, PositionRests DEF StreamInvariant, TypeOK
<1>3. CASE OnClose \/ Break
  <2>1. DropLink /\ transport' = "disconnected" /\ UNCHANGED generation
    BY <1>3 DEF OnClose, Break
  <2>2. ConnectionTypes' /\ PositionTypes'
    BY <1>1, <2>1, Dropped DEF StreamInvariant, TypeOK, ConnectionTypes, PositionTypes
  <2>3. StreamTypes' /\ CarriesItsLog' /\ OneAuthority'
    BY <1>1, <2>1, Dropped, AuthorityRests
  <2> QED BY <1>1, <2>2, <2>3, PositionRests DEF StreamInvariant, TypeOK
<1>4. CASE Close
  <2>1. /\ transport' = "disconnected" /\ generation < MaxConnect /\ generation' = generation + 1
        /\ (link = "none" /\ UNCHANGED <<link, channel, commands>>) \/ DropLink
    BY <1>4 DEF Close
  <2>2. generation \in Nat /\ generation' \in 0..MaxConnect
    BY <2>1 DEF StreamInvariant, TypeOK, ConnectionTypes
  <2>3. /\ StreamTypes' /\ CarriesItsLog' /\ link' = "none"
        /\ startAsked' \in BOOLEAN /\ startAnswer' \in 0..MaxKernel
        /\ stopAsked' \in Nat /\ stopAnswer' \in Nat
    <3>1. CASE link = "none" /\ UNCHANGED <<link, channel, commands>>
      <4>1. UNCHANGED <<stream, wire, link, startAsked, startAnswer, stopAsked, stopAnswer>> /\ link = "none"
        BY <3>1 DEF channel, commands
      <4> QED BY <1>1, <4>1, StreamRests DEF StreamInvariant, TypeOK, PositionTypes
    <3>2. CASE DropLink
      BY <1>1, <3>2, Dropped
    <3> QED BY <2>1, <3>1, <3>2
  <2>4. ConnectionTypes' /\ PositionTypes'
    BY <1>1, <2>1, <2>2, <2>3 DEF StreamInvariant, TypeOK, ConnectionTypes, PositionTypes
  <2>5. \A i \in inspections : i.gen \in Nat /\ i.gen <= generation
    BY DEF StreamInvariant, OneAuthority, TypeOK, ConnectionTypes, Snapshots
  <2>6. OneAuthority'
    BY <1>1, <2>1, <2>2, <2>5 DEF StreamInvariant, OneAuthority
  <2> QED BY <1>1, <2>3, <2>4, <2>6, PositionRests DEF StreamInvariant, TypeOK
<1> QED BY <1>2, <1>3, <1>4

\* Own requests and their answers change what is shown, not the position.
LEMMA CommandStep ==
  ASSUME StreamInvariant, AskStart \/ AskStop \/ StartAnswered \/ StopAnswered
  PROVE  StreamInvariant'
<1>0. UNCHANGED <<service, logs, channel, connection, sup, seq, base, received>>
  BY DEF AskStart, AskStop, StartAnswered, StopAnswered, position
<1>1. /\ ServiceTypes' /\ ConnectionTypes'
      /\ UNCHANGED <<epoch, logs, stream, wire, link, generation, inspections, sup, seq, base, received>>
  BY <1>0 DEF StreamInvariant, TypeOK, ServiceTypes, ConnectionTypes, service, channel, connection
<1>2. /\ view \in [kernel : Nat, on : BOOLEAN, runtime : Nat, running : SUBSET Nat]
      /\ startAsked \in BOOLEAN /\ startAnswer \in 0..MaxKernel /\ startAnswer \in Nat
      /\ stopAsked \in Nat /\ stopAnswer \in Nat
  BY DEF StreamInvariant, TypeOK, PositionTypes
<1>3. view' \in [kernel : Nat, on : BOOLEAN, runtime : Nat, running : SUBSET Nat]
  BY <1>2 DEF AskStart, AskStop, StartAnswered, StopAnswered, position
<1>4. startAnswer' \in 0..MaxKernel /\ stopAsked' \in Nat /\ stopAnswer' \in Nat
  BY <1>2 DEF AskStart, AskStop, StartAnswered, StopAnswered
<1>5. startAsked' \in BOOLEAN
  BY <1>2, Zenon DEF AskStart, AskStop, StartAnswered, StopAnswered
<1>6. PositionTypes'
  BY <1>1, <1>3, <1>4, <1>5 DEF StreamInvariant, TypeOK, PositionTypes
<1> QED BY <1>1, <1>6, PositionRests, StreamRests, AuthorityRests DEF StreamInvariant, TypeOK

\* Every step keeps the inductive invariant.
LEMMA StepInvariant ==
  StreamInvariant /\ [Next]_vars => StreamInvariant'
<1> SUFFICES ASSUME StreamInvariant, [Next]_vars
             PROVE  StreamInvariant'
  OBVIOUS
<1>1. CASE Supervisor
  BY <1>1, SupervisorStep, RestingController
<1>2. CASE Health
  BY <1>2, HealthStep
<1>3. CASE ServeOpen \/ ServeBatch \/ ServeEvent
  BY <1>3, ServeStep
<1>4. CASE Connect \/ InspectFails \/ Accept
  BY <1>4, InspectStep
<1>5. CASE OnOpen \/ OnClose \/ Break \/ Close
  BY <1>5, LinkStep
<1>6. CASE OnEvent
  BY <1>6, EventStep
<1>7. CASE AskStart \/ AskStop \/ StartAnswered \/ StopAnswered
  BY <1>7, CommandStep
<1>8. CASE UNCHANGED vars
  <2>1. UNCHANGED <<service, logs, channel, commands, connection, position>>
    BY <1>8 DEF vars
  <2>2. /\ UNCHANGED <<epoch, kernel, on, runtime, active, lastKernel, lastExec, doing, owes>>
        /\ UNCHANGED <<logs, stream, wire, startAsked, startAnswer, stopAsked, stopAnswer>>
        /\ UNCHANGED <<link, transport, generation, inspections, sup, seq, view, base, received>>
    BY <2>1 DEF service, channel, commands, connection, position
  <2> QED BY <2>2, PositionRests, StreamRests, AuthorityRests
          DEF StreamInvariant, TypeOK, ServiceTypes, ConnectionTypes, PositionTypes
<1> QED BY <1>1, <1>2, <1>3, <1>4, <1>5, <1>6, <1>7, <1>8 DEF Next, Controller

\* It holds at the beginning.
LEMMA InitInvariant == Init => StreamInvariant
<1> SUFFICES ASSUME Init PROVE StreamInvariant
  OBVIOUS
<1>1. Ready \in Events
  BY EventType DEF Ready, EventKinds
<1>2. ServiceTypes
  <2>1. logs \in [Epochs -> Seq(Events)]
    BY <1>1 DEF Init
  <2>2. on \in BOOLEAN
    BY Zenon DEF Init
  <2>3. epoch \in Epochs /\ owes \in Seq(Events)
    BY DEF Init
  <2> QED BY <2>1, <2>2, <2>3 DEF Init, ServiceTypes
<1>3. StreamTypes /\ ConnectionTypes /\ PositionTypes
  <2>1. StreamTypes
    BY DEF Init, StreamTypes, NoStream
  <2>2. ConnectionTypes
    BY DEF Init, ConnectionTypes
  <2>3. startAsked \in BOOLEAN
    BY Zenon DEF Init
  <2>4. view \in [kernel : Nat, on : BOOLEAN, runtime : Nat, running : SUBSET Nat]
    BY DEF Init, EmptyView
  <2>5. received \in Seq(Events)
    BY DEF Init
  <2>6. PositionTypes
    BY <2>3, <2>4, <2>5 DEF Init, PositionTypes
  <2> QED BY <2>1, <2>2, <2>6
<1>4. CarriesItsLog /\ OneAuthority /\ NothingLostOrRepeated
  BY DEF Init, CarriesItsLog, OneAuthority, NothingLostOrRepeated, NoStream
<1> QED BY <1>2, <1>3, <1>4 DEF Init, StreamInvariant, TypeOK

-----------------------------------------------------------------------------
\* The invariant holds of every service, stream and controller.
THEOREM StreamInvariantHolds == Spec => []StreamInvariant
  BY InitInvariant, StepInvariant, PTL DEF Spec

\* Between two resynchronisations the controller handles each event of the log
\* once and in order.
THEOREM EventsHandledOnce == Spec => []NothingLostOrRepeated
<1>1. StreamInvariant => NothingLostOrRepeated
  BY DEF StreamInvariant
<1> QED BY <1>1, StreamInvariantHolds, PTL

\* A step that stays with the same service does not move the cursor back.
LEMMA CursorStep ==
  StreamInvariant /\ [Next]_vars => [sup' = sup => seq' >= seq]_vars
<1> SUFFICES ASSUME StreamInvariant, Next, sup' = sup
             PROVE  seq' >= seq
  BY DEF vars
<1>0. seq \in Nat
  BY DEF StreamInvariant, TypeOK, PositionTypes
<1>1. CASE UNCHANGED seq
  BY <1>0, <1>1
<1>2. CASE Accept
  <2> DEFINE Resync(r) == sup = 0 \/ sup # r.sup \/ Unavailable(r)
  <2> PICK r \in Answered : AcceptWhen(r, r.gen = generation, Resync(r), r.last)
    BY <1>2 DEF Accept
  <2>1. r \in inspections /\ r.sup # 0 /\ r.last \in Nat
    BY DEF Answered, StreamInvariant, TypeOK, ConnectionTypes, Snapshots, Asked
  <2>2. UNCHANGED seq \/ (r.gen = generation /\ seq' = r.last /\ sup' = r.sup)
    BY DEF AcceptWhen, position
  <2>3. CASE r.gen = generation /\ seq' = r.last /\ sup' = r.sup
    BY <1>0, <2>1, <2>3 DEF StreamInvariant, OneAuthority
  <2> QED BY <1>0, <2>2, <2>3
<1>3. CASE OnEvent
  <2>1. UNCHANGED seq \/ seq' = seq + 1
    BY <1>3 DEF OnEvent, Handle, position
  <2> QED BY <1>0, <2>1
<1>4. CASE Supervisor
  BY <1>1, <1>4, SupervisorStep DEF ControllerRests, position
<1>5. CASE Health \/ ServeOpen \/ ServeBatch \/ ServeEvent
  BY <1>1, <1>5 DEF Health, ServeOpen, ServeBatch, NextBatch, ServeEvent, position
<1>6. CASE Connect \/ InspectFails \/ OnOpen \/ OnClose \/ Break \/ Close
  BY <1>1, <1>6 DEF Connect, ConnectAs, InspectFails, OnOpen, OnClose, Break, Close, position
<1>7. CASE AskStart \/ AskStop \/ StartAnswered \/ StopAnswered
  BY <1>1, <1>7 DEF AskStart, AskStop, StartAnswered, StopAnswered, position
<1> QED BY <1>2, <1>3, <1>4, <1>5, <1>6, <1>7 DEF Next, Controller

\* No late inspection, replaced service or expired cursor takes the controller
\* back to events of the same service that it has already seen.
THEOREM CursorMovesForward == Spec => CursorNeverGoesBack
<1>1. StreamInvariant /\ [Next]_vars => [sup' = sup => seq' >= seq]_vars
  BY CursorStep
<1> QED BY <1>1, StreamInvariantHolds, PTL DEF Spec, CursorNeverGoesBack

-----------------------------------------------------------------------------
(* What is told, and what is still to come: the invariant behind           *)
(* TruthUnlessAnswered.                                                    *)

KernelKinds == {"on", "off"}
ExecKinds   == {"started", "completed"}

Running(x) == active = x /\ x # 0

\* Events after the n-th, appended or owed, or sure to be owed.
KernelToCome(n) ==
  \/ \E i \in 1..Latest : i > n /\ Log[i].kind \in KernelKinds
  \/ \E i \in 1..Len(owes) : owes[i].kind \in KernelKinds
ExecToCome(x, n) ==
  \/ \E i \in 1..Latest : i > n /\ Log[i].kind \in ExecKinds /\ Log[i].id = x
  \/ \E i \in 1..Len(owes) : owes[i].kind \in ExecKinds /\ owes[i].id = x
  \/ doing = "dying" /\ x = lastExec

\* The event says what is the case.
KernelAsTold(event) == kernel = event.id /\ on = (event.kind = "on")
ExecAsTold(event)   == Running(event.id) <=> event.kind = "started"

\* The lane changes the kernel, and begins and ends executions, with nothing owed
\* about them; what it owes is the case.
OwedIsTrue ==
  /\ active # 0 <=> doing = "executing"
  /\ active # 0 => active = lastExec
  /\ doing \in {"starting", "dying"} => owes = <<>>
  /\ \A i \in 1..Len(owes) :
       /\ owes[i].kind \in KernelKinds => KernelAsTold(owes[i])
       /\ owes[i].kind \in ExecKinds => ExecAsTold(owes[i])

\* And so is what it told last.
LastIsTrue ==
  \A i \in 1..Latest :
    /\ Log[i].kind \in KernelKinds /\ ~KernelToCome(i) => KernelAsTold(Log[i])
    /\ Log[i].kind \in ExecKinds /\ ~ExecToCome(Log[i].id, i) => ExecAsTold(Log[i])

\* A picture of the service as of its n-th event is wrong about that alone of which
\* an event is to come.
PictureIsTrue(picture, n) ==
  /\ KernelToCome(n) \/ (picture.kernel = kernel /\ picture.on = on)
  /\ \A x \in Nat : ExecToCome(x, n) \/ (x \in picture.running <=> Running(x))

SnapshotsAreTrue ==
  \A r \in inspections : r.sup <= epoch /\ (r.sup = epoch => PictureIsTrue(ShowSnapshot(r), r.last))
ViewIsTrue ==
  sup <= epoch /\ (sup = epoch /\ ~answered => PictureIsTrue(view, seq))

TruthInvariant == OwedIsTrue /\ LastIsTrue /\ SnapshotsAreTrue /\ ViewIsTrue

\* A step of the service that goes on: what changes is to come.
Tells ==
  /\ epoch' = epoch
  /\ \A n \in 0..Latest :
       /\ KernelToCome(n)' \/ (~KernelToCome(n) /\ UNCHANGED <<kernel, on>>)
       /\ \A x \in Nat : ExecToCome(x, n)' \/ (~ExecToCome(x, n) /\ (Running(x)' <=> Running(x)))

\* The log and its events.
LEMMA LogTypes ==
  ASSUME StreamInvariant
  PROVE  /\ epoch \in Epochs /\ epoch \in Nat /\ Log \in Seq(Events) /\ Latest \in Nat
         /\ owes \in Seq(Events) /\ Len(owes) \in Nat
         /\ \A i \in 1..Latest : Log[i] \in Events /\ Log[i].id \in Nat
         /\ \A i \in 1..Len(owes) : owes[i] \in Events /\ owes[i].id \in Nat
<1>1. epoch \in Epochs /\ epoch \in Nat /\ Log \in Seq(Events) /\ owes \in Seq(Events)
  BY DEF StreamInvariant, TypeOK, ServiceTypes, Log
<1>2. Latest \in Nat /\ Len(owes) \in Nat
  BY <1>1, Elements DEF Latest
<1>3. /\ \A i \in 1..Latest : Log[i] \in Events
      /\ \A i \in 1..Len(owes) : owes[i] \in Events
  BY <1>1, Elements, Zenon DEF Latest
<1>4. \A e \in Events : e.id \in Nat
  BY DEF Events
<1> QED BY <1>1, <1>2, <1>3, <1>4

\* A picture stays as true as it was.
LEMMA PictureLasts ==
  ASSUME Tells, NEW n \in 0..Latest, NEW picture, PictureIsTrue(picture, n)
  PROVE  PictureIsTrue(picture, n)'
  BY DEF Tells, PictureIsTrue

\* What was told last is the case after a step that tells nothing.
LEMMA LastStays ==
  ASSUME StreamInvariant, LastIsTrue, Tells, UNCHANGED <<epoch, logs>>
  PROVE  LastIsTrue'
<1>1. Log' = Log /\ Latest' = Latest
  BY DEF Log, Latest
<1> SUFFICES ASSUME NEW i \in 1..Latest
             PROVE  /\ Log[i].kind \in KernelKinds /\ ~KernelToCome(i)' => KernelAsTold(Log[i])'
                    /\ Log[i].kind \in ExecKinds /\ ~ExecToCome(Log[i].id, i)' => ExecAsTold(Log[i])'
  BY <1>1 DEF LastIsTrue, KernelAsTold, ExecAsTold, Running
<1>2. i \in 0..Latest /\ Log[i].id \in Nat
  BY LogTypes
<1>3. ASSUME Log[i].kind \in KernelKinds, ~KernelToCome(i)' PROVE KernelAsTold(Log[i])'
  BY <1>1, <1>2, <1>3 DEF LastIsTrue, Tells, KernelAsTold
<1>4. ASSUME Log[i].kind \in ExecKinds, ~ExecToCome(Log[i].id, i)' PROVE ExecAsTold(Log[i])'
  <2> PICK x \in Nat : x = Log[i].id
    BY <1>2
  <2>1. ~ExecToCome(x, i)'
    BY <1>1, <1>4 DEF ExecToCome
  <2>2. ~ExecToCome(x, i) /\ (Running(x)' <=> Running(x))
    BY <1>2, <2>1 DEF Tells
  <2>3. ~ExecToCome(Log[i].id, i) /\ (Running(Log[i].id)' <=> Running(Log[i].id))
    BY <1>1, <2>2 DEF Running
  <2> QED BY <1>1, <1>4, <2>3 DEF LastIsTrue, ExecAsTold, Running
<1> QED BY <1>3, <1>4

\* What is appended was owed, or is about neither.
LEMMA AppendTells ==
  ASSUME StreamInvariant, OwedIsTrue, LastIsTrue, LaneAppend \/ OtherAppend
  PROVE  OwedIsTrue' /\ LastIsTrue' /\ Tells
<1>0. UNCHANGED <<epoch, kernel, on, active, lastExec, doing>>
  BY DEF LaneAppend, OtherAppend, service
<1>1. PICK e \in Events : /\ AppendToLog(e)
                          /\ \/ e = Head(owes) /\ owes # <<>> /\ owes' = Tail(owes)
                             \/ e = Event("other", 0) /\ owes' = owes
  <2>1. CASE LaneAppend
    <3>1. Head(owes) \in Events
      BY <2>1, LogTypes DEF LaneAppend
    <3> QED BY <2>1, <3>1 DEF LaneAppend
  <2>2. CASE OtherAppend
    <3>1. Event("other", 0) \in Events
      BY EventType DEF EventKinds
    <3> QED BY <2>2, <3>1 DEF OtherAppend, service
  <2> QED BY <2>1, <2>2
<1>2. /\ Latest' = Latest + 1 /\ Log'[Latest + 1] = e
      /\ \A i \in 1..Latest : Log'[i] = Log[i]
  <2>1. Log' = Append(Log, e)
    BY <1>0, <1>1 DEF AppendToLog, Log, StreamInvariant, TypeOK, ServiceTypes
  <2> QED BY <2>1, LogTypes DEF Latest
<1>3. /\ owes # <<>> => Head(owes) = owes[1] /\ 1 \in 1..Len(owes)
      /\ owes' = Tail(owes) /\ owes # <<>> =>
           Len(owes') = Len(owes) - 1 /\ \A i \in 1..Len(owes') : owes'[i] = owes[i + 1] /\ i + 1 \in 1..Len(owes)
  BY LogTypes
<1>4. OwedIsTrue'
  <2>1. \A i \in 1..Len(owes') : \E j \in 1..Len(owes) : owes'[i] = owes[j]
    BY <1>1, <1>3
  <2>2. \A i \in 1..Len(owes') :
          /\ owes'[i].kind \in KernelKinds => KernelAsTold(owes'[i])
          /\ owes'[i].kind \in ExecKinds => ExecAsTold(owes'[i])
    BY <2>1 DEF OwedIsTrue
  <2>3. \A d : (KernelAsTold(d) => KernelAsTold(d)') /\ (ExecAsTold(d) => ExecAsTold(d)')
    BY <1>0 DEF KernelAsTold, ExecAsTold, Running
  <2>4. doing' \in {"starting", "dying"} => owes' = <<>>
    BY <1>0, <1>1 DEF OwedIsTrue
  <2> QED BY <1>0, <2>2, <2>4 DEF OwedIsTrue, KernelAsTold, ExecAsTold, Running
<1>5. ASSUME NEW n \in 0..Latest
      PROVE  /\ KernelToCome(n) => KernelToCome(n)'
             /\ \A x \in Nat : ExecToCome(x, n) => ExecToCome(x, n)'
  <2>1. Latest \in Nat /\ n \in Nat /\ n <= Latest
    BY LogTypes
  <2>2. ASSUME NEW i \in 1..Latest, i > n
        PROVE  i \in 1..Latest' /\ Log'[i] = Log[i]
    BY <1>2, <2>1, <2>2
  <2>3. ASSUME NEW i \in 1..Len(owes)
        PROVE  \/ \E j \in 1..Latest' : j > n /\ Log'[j] = owes[i]
               \/ \E j \in 1..Len(owes') : owes'[j] = owes[i]
    <3>1. CASE owes' = owes
      BY <3>1
    <3>2. CASE owes' = Tail(owes) /\ owes # <<>> /\ e = Head(owes)
      <4>1. CASE i = 1
        <5>1. Latest + 1 \in 1..Latest' /\ Latest + 1 > n
          BY <1>2, <2>1
        <5> QED BY <1>2, <1>3, <3>2, <4>1, <5>1
      <4>2. CASE i # 1
        <5>1. i - 1 \in 1..Len(owes') /\ (i - 1) + 1 = i
          BY <1>3, <3>2, <4>2, LogTypes
        <5>2. owes'[i - 1] = owes[i]
          BY <1>3, <3>2, <5>1
        <5> QED BY <5>1, <5>2
      <4> QED BY <4>1, <4>2
    <3> QED BY <1>1, <3>1, <3>2
  <2>4. KernelToCome(n) => KernelToCome(n)'
    BY <2>2, <2>3 DEF KernelToCome
  <2>5. ASSUME NEW x \in Nat, ExecToCome(x, n) PROVE ExecToCome(x, n)'
    BY <1>0, <2>2, <2>3, <2>5 DEF ExecToCome
  <2> QED BY <2>4, <2>5
<1>6. Tells
  BY <1>0, <1>5 DEF Tells, Running
<1>7. LastIsTrue'
  <2> SUFFICES ASSUME NEW i \in 1..Latest'
               PROVE  /\ Log'[i].kind \in KernelKinds /\ ~KernelToCome(i)' => KernelAsTold(Log[i])'
                      /\ Log'[i].kind \in ExecKinds /\ ~ExecToCome(Log[i].id, i)' => ExecAsTold(Log[i])'
    BY DEF LastIsTrue
  <2>1. CASE i \in 1..Latest
    <3>1. i \in 0..Latest /\ Log'[i] = Log[i]
      BY <1>2, <2>1, LogTypes
    <3> PICK x \in Nat : x = Log[i].id
      BY <2>1, LogTypes
    <3>2. (~KernelToCome(i)' => ~KernelToCome(i)) /\ (~ExecToCome(x, i)' => ~ExecToCome(x, i))
      BY <1>5, <3>1
    <3>3. ExecToCome(Log[i].id, i)' = ExecToCome(x, i)'
      BY <3>1 DEF ExecToCome
    <3>4. /\ Log[i].kind \in KernelKinds /\ ~KernelToCome(i) => KernelAsTold(Log[i])
          /\ Log[i].kind \in ExecKinds /\ ~ExecToCome(x, i) => ExecAsTold(Log[i])
      BY <2>1 DEF LastIsTrue
    <3> QED BY <1>0, <3>1, <3>2, <3>3, <3>4 DEF KernelAsTold, ExecAsTold, Running
  <2>2. CASE i = Latest + 1
    <3>1. CASE e = Event("other", 0)
      BY <1>2, <2>2, <3>1 DEF Event, KernelKinds, ExecKinds
    <3>2. CASE e = Head(owes) /\ owes # <<>>
      <4>1. /\ e.kind \in KernelKinds => KernelAsTold(e)
            /\ e.kind \in ExecKinds => ExecAsTold(e)
        BY <1>3, <3>2 DEF OwedIsTrue
      <4>2. Log'[i] = e
        BY <1>2, <2>2
      <4> QED BY <1>0, <4>1, <4>2 DEF KernelAsTold, ExecAsTold, Running
    <3> QED BY <1>1, <3>1, <3>2
  <2> QED BY <1>2, <2>1, <2>2, LogTypes
<1> QED BY <1>4, <1>6, <1>7

\* What is owed is one event.
LEMMA OneOwed ==
  ASSUME NEW e
  PROVE  /\ Len(<<e>>) = 1 /\ <<e>>[1] = e
         /\ \A i \in 1..Len(<<e>>) : <<e>>[i] = e
  OBVIOUS

\* A kernel is published or turned off, and its event is owed.
LEMMA KernelTells ==
  ASSUME StreamInvariant, OwedIsTrue, LastIsTrue, StartPublish \/ TurnOff
  PROVE  OwedIsTrue' /\ LastIsTrue' /\ Tells
<1>0. UNCHANGED <<epoch, logs, active, lastExec>> /\ owes = <<>> /\ doing' = "nothing"
      /\ doing # "executing" /\ doing # "dying"
  BY DEF StartPublish, TurnOff, Free, OwedIsTrue
<1>1. PICK e : owes' = <<e>> /\ KernelAsTold(e)' /\ e.kind \in KernelKinds /\ e.kind \notin ExecKinds
  <2>1. CASE StartPublish
    <3>1. owes' = <<Event("on", lastKernel + 1)>> /\ kernel' = lastKernel + 1 /\ on' = TRUE
      BY <1>0, <2>1 DEF StartPublish
    <3> DEFINE e == Event("on", lastKernel + 1)
    <3>2. e.kind = "on" /\ e.id = lastKernel + 1
      BY DEF Event
    <3>3. on' = (e.kind = "on")
      BY <3>1, <3>2
    <3>4. kernel' = e.id /\ owes' = <<e>>
      BY <3>1, <3>2
    <3> HIDE DEF e
    <3> QED BY <3>2, <3>3, <3>4 DEF KernelAsTold, KernelKinds, ExecKinds
  <2>2. CASE TurnOff
    <3>1. owes' = <<Event("off", kernel)>> /\ kernel' = kernel /\ on' = FALSE
      BY <2>2 DEF TurnOff
    <3> DEFINE e == Event("off", kernel)
    <3>2. e.kind = "off" /\ e.id = kernel
      BY DEF Event
    <3>3. on' = (e.kind = "on")
      BY <3>1, <3>2
    <3>4. kernel' = e.id /\ owes' = <<e>>
      BY <3>1, <3>2
    <3> HIDE DEF e
    <3> QED BY <3>2, <3>3, <3>4 DEF KernelAsTold, KernelKinds, ExecKinds
  <2> QED BY <2>1, <2>2
<1>2. Len(owes') = 1 /\ owes'[1] = e /\ \A i \in 1..Len(owes') : owes'[i] = e
  BY <1>1, OneOwed
<1>3. OwedIsTrue'
  BY <1>0, <1>1, <1>2 DEF OwedIsTrue, KernelAsTold
<1>4. Tells
  <2> SUFFICES ASSUME NEW n \in 0..Latest
               PROVE  /\ KernelToCome(n)'
                      /\ \A x \in Nat : ExecToCome(x, n)' \/ (~ExecToCome(x, n) /\ (Running(x)' <=> Running(x)))
    BY <1>0 DEF Tells
  <2>1. KernelToCome(n)'
    BY <1>1, <1>2 DEF KernelToCome
  <2>2. Log' = Log /\ Latest' = Latest /\ Len(owes) = 0
    BY <1>0 DEF Log, Latest
  <2>3. \A x \in Nat : ExecToCome(x, n) => ExecToCome(x, n)'
    BY <1>0, <2>2 DEF ExecToCome
  <2> QED BY <1>0, <2>1, <2>3 DEF Running
<1> QED BY <1>0, <1>3, <1>4, LastStays

\* An execution begins or ends, or dies with its kernel.
LEMMA ExecTells ==
  ASSUME StreamInvariant, OwedIsTrue, LastIsTrue, ExecBegin \/ ExecEnd \/ ExecDied
  PROVE  OwedIsTrue' /\ LastIsTrue' /\ Tells
<1>0. /\ UNCHANGED <<epoch, logs>> /\ owes = <<>> /\ Log' = Log /\ Latest' = Latest /\ Len(owes) = 0
      /\ lastExec \in Nat /\ active \in Nat /\ kernel \in Nat
  BY DEF ExecBegin, ExecEnd, ExecDied, Free, OwedIsTrue, Log, Latest, StreamInvariant, TypeOK, ServiceTypes
<1>1. CASE ExecBegin
  <2>1. /\ doing = "nothing" /\ doing' = "executing" /\ active = 0
        /\ lastExec' = lastExec + 1 /\ active' = lastExec + 1
        /\ owes' = <<Event("started", lastExec + 1)>> /\ UNCHANGED <<kernel, on>>
    BY <1>1 DEF ExecBegin, Free, OwedIsTrue
  <2>2. /\ Len(owes') = 1 /\ 1 \in 1..Len(owes') /\ \A i \in 1..Len(owes') : owes'[i] = Event("started", lastExec + 1)
    BY <2>1, OneOwed
  <2>3. OwedIsTrue'
    BY <1>0, <2>1, <2>2 DEF OwedIsTrue, ExecAsTold, Running, Event, KernelKinds
  <2>4. Tells
    <3> SUFFICES ASSUME NEW n \in 0..Latest
                 PROVE  /\ KernelToCome(n)' \/ ~KernelToCome(n)
                        /\ \A x \in Nat : ExecToCome(x, n)' \/ (~ExecToCome(x, n) /\ (Running(x)' <=> Running(x)))
      BY <1>0, <2>1 DEF Tells
    <3>1. KernelToCome(n) => KernelToCome(n)'
      BY <1>0 DEF KernelToCome
    <3>2. \A x \in Nat : ExecToCome(x, n) => ExecToCome(x, n)'
      BY <1>0, <2>1 DEF ExecToCome
    <3>3. \A x \in Nat : x = lastExec + 1 => ExecToCome(x, n)'
      BY <2>1, <2>2 DEF ExecToCome, Event, ExecKinds
    <3>4. \A x \in Nat : x = lastExec + 1 \/ (~Running(x) /\ ~Running(x)')
      BY <1>0, <2>1 DEF Running
    <3> QED BY <3>1, <3>2, <3>3, <3>4
  <2> QED BY <1>0, <2>3, <2>4, LastStays
<1>2. CASE ExecEnd
  <2>1. /\ doing = "executing" /\ active' = 0 /\ active = lastExec /\ UNCHANGED <<kernel, on, lastExec>>
        /\ \/ doing' = "nothing" /\ owes' = <<Event("completed", lastExec)>>
           \/ doing' = "dying" /\ owes' = owes
    BY <1>2 DEF ExecEnd, OwedIsTrue
  <2>2. OwedIsTrue'
    <3>1. CASE doing' = "nothing" /\ owes' = <<Event("completed", lastExec)>>
      <4>1. \A i \in 1..Len(owes') : owes'[i] = Event("completed", lastExec)
        BY <3>1, OneOwed
      <4> QED BY <2>1, <3>1, <4>1 DEF OwedIsTrue, ExecAsTold, Running, Event, KernelKinds
    <3>2. CASE doing' = "dying" /\ owes' = owes
      BY <1>0, <2>1, <3>2 DEF OwedIsTrue
    <3> QED BY <2>1, <3>1, <3>2
  <2>3. Tells
    <3> SUFFICES ASSUME NEW n \in 0..Latest
                 PROVE  /\ KernelToCome(n)' \/ ~KernelToCome(n)
                        /\ \A x \in Nat : ExecToCome(x, n)' \/ (~ExecToCome(x, n) /\ (Running(x)' <=> Running(x)))
      BY <1>0, <2>1 DEF Tells
    <3>1. KernelToCome(n) => KernelToCome(n)'
      BY <1>0 DEF KernelToCome
    <3>2. \A x \in Nat : ExecToCome(x, n) => ExecToCome(x, n)'
      BY <1>0, <2>1 DEF ExecToCome
    <3>3. \A x \in Nat : x = lastExec => ExecToCome(x, n)'
      <4>1. CASE doing' = "nothing" /\ owes' = <<Event("completed", lastExec)>>
        <5>1. 1 \in 1..Len(owes') /\ owes'[1] = Event("completed", lastExec)
          BY <4>1, OneOwed
        <5> QED BY <5>1 DEF ExecToCome, Event, ExecKinds
      <4>2. CASE doing' = "dying" /\ owes' = owes
        BY <2>1, <4>2 DEF ExecToCome
      <4> QED BY <2>1, <4>1, <4>2
    <3>4. \A x \in Nat : x = lastExec \/ (~Running(x) /\ ~Running(x)')
      BY <1>0, <2>1 DEF Running
    <3> QED BY <3>1, <3>2, <3>3, <3>4
  <2> QED BY <1>0, <2>2, <2>3, LastStays
<1>3. CASE ExecDied
  <2>1. /\ doing = "dying" /\ doing' = "nothing" /\ active = 0 /\ active' = 0 /\ on' = FALSE
        /\ owes' = <<Event("off", kernel), Event("completed", lastExec)>> /\ UNCHANGED <<kernel, lastExec>>
    BY <1>3 DEF ExecDied, OwedIsTrue
  <2>2. /\ 1 \in 1..Len(owes') /\ 2 \in 1..Len(owes')
        /\ owes'[1] = Event("off", kernel) /\ owes'[2] = Event("completed", lastExec)
        /\ \A i \in 1..Len(owes') : i = 1 \/ i = 2
    BY <2>1
  <2>3. OwedIsTrue'
    <3>1. /\ owes'[1].kind = "off" /\ owes'[1].id = kernel
          /\ owes'[2].kind = "completed" /\ owes'[2].id = lastExec
      BY <2>2 DEF Event
    <3>2. on' = (owes'[1].kind = "on")
      BY <2>1, <3>1
    <3>3. KernelAsTold(owes[1])' /\ ExecAsTold(owes[2])'
      BY <2>1, <3>1, <3>2 DEF KernelAsTold, ExecAsTold, Running
    <3>4. \A i \in 1..Len(owes') :
            /\ owes'[i].kind \in KernelKinds => KernelAsTold(owes[i])'
            /\ owes'[i].kind \in ExecKinds => ExecAsTold(owes[i])'
      BY <2>2, <3>1, <3>3 DEF KernelKinds, ExecKinds, KernelAsTold, ExecAsTold, Running
    <3> QED BY <2>1, <3>4 DEF OwedIsTrue
  <2>4. Tells
    <3> SUFFICES ASSUME NEW n \in 0..Latest
                 PROVE  /\ KernelToCome(n)'
                        /\ \A x \in Nat : ExecToCome(x, n)' \/ (~ExecToCome(x, n) /\ (Running(x)' <=> Running(x)))
      BY <1>0 DEF Tells
    <3>1. KernelToCome(n)'
      BY <2>2 DEF KernelToCome, Event, KernelKinds
    <3>2. \A x \in Nat : x = lastExec => ExecToCome(x, n)'
      BY <2>2 DEF ExecToCome, Event, ExecKinds
    <3>3. \A x \in Nat : x # lastExec /\ ExecToCome(x, n) => ExecToCome(x, n)'
      BY <1>0, <2>1 DEF ExecToCome
    <3> QED BY <2>1, <3>1, <3>2, <3>3 DEF Running
  <2> QED BY <1>0, <2>3, <2>4, LastStays
<1> QED BY <1>1, <1>2, <1>3

\* A start that begins or fails, a stop of what is not there, and all steps of the
\* stream and of the controller tell nothing.
LEMMA SilentTells ==
  ASSUME StreamInvariant, OwedIsTrue, LastIsTrue,
         UNCHANGED <<epoch, logs, kernel, on, active, lastExec, owes>>,
         \/ doing' = doing
         \/ doing' = "starting" /\ doing = "nothing" /\ owes = <<>>
         \/ doing' = "nothing" /\ doing = "starting"
  PROVE  OwedIsTrue' /\ LastIsTrue' /\ Tells
<1>1. OwedIsTrue'
  BY DEF OwedIsTrue, KernelAsTold, ExecAsTold, Running
<1>2. Tells
  <2> SUFFICES ASSUME NEW n \in 0..Latest
               PROVE  /\ KernelToCome(n)' \/ ~KernelToCome(n)
                      /\ \A x \in Nat : ExecToCome(x, n)' \/ ~ExecToCome(x, n)
    BY DEF Tells, Running
  <2> QED BY DEF KernelToCome, ExecToCome, Log, Latest
<1> QED BY <1>1, <1>2, LastStays

\* Snapshots and the view are of a place in the log.
LEMMA PlacesInLog ==
  ASSUME StreamInvariant
  PROVE  /\ \A r \in inspections : r.sup = epoch => r.last \in 0..Latest
         /\ sup = epoch => seq \in 0..Latest
<1>1. epoch # 0 /\ epoch \in Nat
  BY DEF StreamInvariant, TypeOK, ServiceTypes
<1>2. ASSUME NEW r \in inspections, r.sup = epoch PROVE r.last \in 0..Latest
  <2>1. r.last \in Nat /\ r.last <= Len(logs[r.sup])
    BY <1>1, <1>2 DEF StreamInvariant, TypeOK, ConnectionTypes, Snapshots, Asked, OneAuthority
  <2> QED BY <1>2, <2>1, LogTypes DEF Latest, Log
<1>3. sup = epoch => seq \in 0..Latest
  BY <1>1, LogTypes DEF StreamInvariant, TypeOK, PositionTypes, Latest, Log
<1> QED BY <1>2, <1>3

\* What the controller keeps stays true.
LEMMA SnapshotLasts ==
  ASSUME StreamInvariant, SnapshotsAreTrue, Tells, NEW r \in inspections
  PROVE  r.sup <= epoch' /\ (r.sup = epoch' => PictureIsTrue(ShowSnapshot(r), r.last)')
<1>1. epoch' = epoch
  BY DEF Tells
<1>2. r.sup <= epoch
  BY DEF SnapshotsAreTrue
<1>3. ASSUME r.sup = epoch PROVE PictureIsTrue(ShowSnapshot(r), r.last)'
  <2> PICK p : p = ShowSnapshot(r)
    OBVIOUS
  <2> PICK n \in 0..Latest : n = r.last
    BY <1>3, PlacesInLog
  <2>1. PictureIsTrue(p, n)
    BY <1>3 DEF SnapshotsAreTrue
  <2>2. PictureIsTrue(p, n)'
    BY <2>1, PictureLasts
  <2>3. ShowSnapshot(r)' = p
    BY DEF ShowSnapshot
  <2> QED BY <2>2, <2>3 DEF PictureIsTrue
<1> QED BY <1>1, <1>2, <1>3

LEMMA ViewLasts ==
  ASSUME StreamInvariant, ViewIsTrue, Tells, UNCHANGED <<sup, seq, view>>, ~answered' => ~answered
  PROVE  ViewIsTrue'
<1>1. epoch' = epoch
  BY DEF Tells
<1>2. ASSUME sup = epoch, ~answered' PROVE PictureIsTrue(view, seq)'
  <2> PICK p : p = view
    OBVIOUS
  <2> PICK n \in 0..Latest : n = seq
    BY <1>2, PlacesInLog
  <2>1. PictureIsTrue(p, n)
    BY <1>2 DEF ViewIsTrue
  <2>2. PictureIsTrue(p, n)'
    BY <2>1, PictureLasts
  <2> QED BY <2>2 DEF PictureIsTrue
<1> QED BY <1>1, <1>2 DEF ViewIsTrue

\* The view with the next event.
LEMMA ShowIsTrue ==
  ASSUME StreamInvariant, LastIsTrue, PictureIsTrue(view, seq), seq + 1 \in 1..Latest
  PROVE  PictureIsTrue(Show(Log[seq + 1]), seq + 1)
<1> DEFINE event == Log[seq + 1]
<1>1. event \in Events /\ event.id \in Nat /\ seq \in Nat /\ Latest \in Nat
  BY LogTypes DEF StreamInvariant, TypeOK, PositionTypes
<1>2. view \in [kernel : Nat, on : BOOLEAN, runtime : Nat, running : SUBSET Nat]
  BY DEF StreamInvariant, TypeOK, PositionTypes
<1>3. \A i \in 1..Latest : i > seq => i = seq + 1 \/ i > seq + 1
  BY <1>1
<1>4. ASSUME ~KernelToCome(seq + 1)
      PROVE  Show(event).kernel = kernel /\ Show(event).on = on
  <2>1. CASE event.kind \in KernelKinds
    <3>1. KernelAsTold(event)
      BY <1>4, <2>1 DEF LastIsTrue
    <3>2. Show(event).kernel = event.id /\ Show(event).on = (event.kind = "on")
      BY <1>2, <2>1 DEF Show, KernelKinds
    <3> QED BY <3>1, <3>2 DEF KernelAsTold
  <2>2. CASE event.kind \notin KernelKinds
    <3>1. ~KernelToCome(seq)
      BY <1>3, <1>4, <2>2 DEF KernelToCome
    <3>2. Show(event).kernel = view.kernel /\ Show(event).on = view.on
      BY <1>2, <2>2 DEF Show, KernelKinds
    <3> QED BY <3>1, <3>2 DEF PictureIsTrue
  <2> QED BY <2>1, <2>2
<1>5. ASSUME NEW x \in Nat, ~ExecToCome(x, seq + 1)
      PROVE  x \in Show(event).running <=> Running(x)
  <2>1. CASE event.kind \in ExecKinds /\ event.id = x
    <3>1. ExecAsTold(event)
      BY <1>5, <2>1 DEF LastIsTrue
    <3>2. x \in Show(event).running <=> event.kind = "started"
      BY <1>2, <2>1 DEF Show, ExecKinds
    <3> QED BY <2>1, <3>1, <3>2 DEF ExecAsTold
  <2>2. CASE ~(event.kind \in ExecKinds /\ event.id = x)
    <3>1. ~ExecToCome(x, seq)
      BY <1>3, <1>5, <2>2 DEF ExecToCome
    <3>2. x \in Show(event).running <=> x \in view.running
      BY <1>2, <2>2 DEF Show, ExecKinds
    <3> QED BY <3>1, <3>2 DEF PictureIsTrue
  <2> QED BY <2>1, <2>2
<1> QED BY <1>4, <1>5 DEF PictureIsTrue

\* A new service has told nothing yet, and nobody has a picture of it.
LEMMA ReplaceTruth ==
  ASSUME StreamInvariant, TruthInvariant, Replace
  PROVE  TruthInvariant'
<1>1. /\ epoch \in Nat /\ epoch' = epoch + 1 /\ epoch + 1 \in Epochs
      /\ kernel' = 0 /\ on' = FALSE /\ active' = 0 /\ doing' = "nothing" /\ owes' = <<>>
      /\ logs' = [logs EXCEPT ![epoch + 1] = <<Ready>>] /\ logs \in [Epochs -> Seq(Events)]
      /\ UNCHANGED <<inspections, sup>>
  BY DEF Replace, connection, position, StreamInvariant, TypeOK, ServiceTypes
<1>2. Log' = <<Ready>> /\ Latest' = 1 /\ Log'[1] = Ready
  BY <1>1 DEF Log, Latest
<1>3. OwedIsTrue'
  BY <1>1 DEF OwedIsTrue
<1>4. LastIsTrue'
  BY <1>2 DEF LastIsTrue, Ready, Event, KernelKinds, ExecKinds
<1>5. SnapshotsAreTrue'
  <2> SUFFICES ASSUME NEW r \in inspections PROVE r.sup <= epoch + 1 /\ r.sup # epoch + 1
    BY <1>1 DEF SnapshotsAreTrue
  <2>1. r.sup <= epoch /\ r.sup \in Nat
    BY DEF TruthInvariant, SnapshotsAreTrue, StreamInvariant, TypeOK, ConnectionTypes, Snapshots, Asked
  <2> QED BY <1>1, <2>1
<1>6. ViewIsTrue'
  <2>1. sup <= epoch /\ sup \in Nat
    BY DEF TruthInvariant, ViewIsTrue, StreamInvariant, TypeOK, PositionTypes
  <2> QED BY <1>1, <2>1 DEF ViewIsTrue
<1> QED BY <1>3, <1>4, <1>5, <1>6 DEF TruthInvariant

\* The history variable only rises.
LEMMA AnsweredRises ==
  ASSUME MCNext PROVE ~answered' => ~answered
  BY DEF MCNext

\* The supervisor's steps, but for the end of a service.
LEMMA SupervisorTells ==
  ASSUME StreamInvariant, OwedIsTrue, LastIsTrue, Supervisor, ~Replace
  PROVE  OwedIsTrue' /\ LastIsTrue' /\ Tells
<1>1. CASE LaneAppend \/ OtherAppend
  BY <1>1, AppendTells
<1>2. CASE StartPublish \/ TurnOff
  BY <1>2, KernelTells
<1>3. CASE ExecBegin \/ ExecEnd \/ ExecDied
  BY <1>3, ExecTells
<1>4. CASE StartBegin \/ StartFails \/ StopAbsent
  <2>1. /\ UNCHANGED <<epoch, logs, kernel, on, active, lastExec, owes>>
        /\ \/ doing' = doing
           \/ doing' = "starting" /\ doing = "nothing" /\ owes = <<>>
           \/ doing' = "nothing" /\ doing = "starting"
    BY <1>4 DEF StartBegin, StartFails, StopAbsent, Free, service
  <2> QED BY <2>1, SilentTells
<1> QED BY <1>1, <1>2, <1>3, <1>4 DEF Supervisor

\* Nobody else changes the service, or what it told.
LEMMA OthersTell ==
  ASSUME StreamInvariant, OwedIsTrue, LastIsTrue,
         Health \/ ServeOpen \/ ServeBatch \/ ServeEvent \/ Controller \/ UNCHANGED vars
  PROVE  OwedIsTrue' /\ LastIsTrue' /\ Tells /\ epoch' = epoch
<1>1. UNCHANGED <<service, logs>>
  BY DEF Health, ServeOpen, ServeBatch, NextBatch, ServeEvent, Controller, Connect, ConnectAs,
         InspectFails, Accept, AcceptWhen, OnOpen, OnEvent, Handle, OnClose, Break, Close,
         AskStart, AskStop, StartAnswered, StopAnswered, vars
<1>2. UNCHANGED <<epoch, logs, kernel, on, active, lastExec, owes, doing>>
  BY <1>1 DEF service
<1> QED BY <1>2, SilentTells

\* An inspection is asked for, answered with the state as it is, or used up.
LEMMA SnapshotsStep ==
  ASSUME StreamInvariant, SnapshotsAreTrue, Tells,
         Health \/ ServeOpen \/ ServeBatch \/ ServeEvent \/ Controller
  PROVE  SnapshotsAreTrue'
<1> SUFFICES ASSUME NEW r \in inspections', r \notin inspections
             PROVE  r.sup <= epoch' /\ (r.sup = epoch' => PictureIsTrue(ShowSnapshot(r), r.last)')
  <2>1. \A r \in inspections' :
          r.sup <= epoch' /\ (r.sup = epoch' => PictureIsTrue(ShowSnapshot(r), r.last)')
    BY SnapshotLasts
  <2> QED BY <2>1 DEF SnapshotsAreTrue, PictureIsTrue, ShowSnapshot
<1>0. epoch \in Nat /\ epoch # 0 /\ epoch' = epoch
  BY LogTypes DEF Tells, StreamInvariant, TypeOK, ServiceTypes
<1>1. CASE Connect
  <2>1. r.sup = 0
    BY <1>1 DEF Connect, ConnectAs, Asked
  <2> QED BY <1>0, <2>1
<1>2. CASE Health
  <2>1. /\ r.sup = epoch /\ r.kernel = kernel /\ r.on = on /\ r.active = active
        /\ UNCHANGED <<kernel, on, active>>
    BY <1>2 DEF Health, service
  <2>2. active \in Nat
    BY DEF StreamInvariant, TypeOK, ServiceTypes
  <2>3. /\ ShowSnapshot(r)'.kernel = kernel' /\ ShowSnapshot(r)'.on = on'
        /\ \A x \in Nat : x \in ShowSnapshot(r)'.running <=> Running(x)'
    BY <2>1, <2>2 DEF ShowSnapshot, Running
  <2> QED BY <1>0, <2>1, <2>3 DEF PictureIsTrue
<1>3. CASE ServeOpen \/ ServeBatch \/ ServeEvent \/ (Controller /\ ~Connect)
  <2>1. inspections' \subseteq inspections
    BY <1>3 DEF ServeOpen, ServeBatch, NextBatch, ServeEvent, Controller, InspectFails, Accept,
           AcceptWhen, OnOpen, OnEvent, Handle, OnClose, Break, Close, AskStart, AskStop,
           StartAnswered, StopAnswered, connection
  <2> QED BY <2>1
<1> QED BY <1>1, <1>2, <1>3

\* The view is a snapshot's, or goes on with the next event.
LEMMA ViewStep ==
  ASSUME StreamInvariant, TruthInvariant, Tells, MCNext,
         Health \/ ServeOpen \/ ServeBatch \/ ServeEvent \/ Controller
  PROVE  ViewIsTrue'
<1>0. ViewIsTrue /\ epoch' = epoch /\ (~answered' => ~answered)
  BY AnsweredRises DEF TruthInvariant, Tells
<1>q. CASE UNCHANGED <<sup, seq, view>>
  BY <1>0, <1>q, ViewLasts
<1>1. CASE Accept
  <2> DEFINE Resync(r) == sup = 0 \/ sup # r.sup \/ Unavailable(r)
  <2> PICK r \in Answered : AcceptWhen(r, r.gen = generation, Resync(r), r.last)
    BY <1>1 DEF Accept
  <2>1. r \in inspections
    BY DEF Answered
  <2>2. UNCHANGED <<sup, seq, view>> \/ (sup' = r.sup /\ seq' = r.last /\ view' = ShowSnapshot(r))
    BY DEF AcceptWhen, position
  <2>3. CASE sup' = r.sup /\ seq' = r.last /\ view' = ShowSnapshot(r)
    <3>1. r.sup <= epoch' /\ (r.sup = epoch' => PictureIsTrue(ShowSnapshot(r), r.last)')
      BY <2>1, SnapshotLasts DEF TruthInvariant
    <3>2. ShowSnapshot(r)' = view'
      BY <2>3 DEF ShowSnapshot
    <3> QED BY <2>3, <3>1, <3>2 DEF ViewIsTrue, PictureIsTrue
  <2> QED BY <1>q, <2>2, <2>3
<1>2. CASE OnEvent
  <2> DEFINE r == Head(wire)
  <2>1. UNCHANGED <<sup, seq, view>>
        \/ /\ wire # <<>> /\ r.sup = sup /\ r.seq = seq + 1 /\ sup' = sup /\ seq' = seq + 1
           /\ view' = Show(logs[sup][seq + 1])
    BY <1>2 DEF OnEvent, Handle, position
  <2>2. CASE /\ wire # <<>> /\ r.sup = sup /\ r.seq = seq + 1 /\ sup' = sup /\ seq' = seq + 1
             /\ view' = Show(logs[sup][seq + 1])
    <3>1. ASSUME sup = epoch, ~answered' PROVE PictureIsTrue(view, seq)'
      <4>1. seq + 1 \in 1..Latest
        <5>1. wire \in Seq([sup : Epochs, seq : Nat]) /\ Len(wire) \in Nat /\ 1 \in 1..Len(wire) /\ r = wire[1]
          BY <2>2, Elements DEF StreamInvariant, TypeOK, StreamTypes
        <5>2. r.seq <= Len(logs[r.sup])
          BY <5>1 DEF StreamInvariant, CarriesItsLog
        <5>3. seq \in Nat /\ seq + 1 <= Latest
          BY <2>2, <3>1, <5>2 DEF StreamInvariant, TypeOK, PositionTypes, Latest, Log
        <5> QED BY <5>3, LogTypes
      <4>2. PictureIsTrue(Show(Log[seq + 1]), seq + 1)
        BY <1>0, <3>1, <4>1, ShowIsTrue DEF TruthInvariant, ViewIsTrue
      <4> PICK p : p = Show(Log[seq + 1])
        OBVIOUS
      <4> PICK n \in 0..Latest : n = seq + 1
        BY <4>1
      <4>3. PictureIsTrue(p, n)'
        BY <4>2, PictureLasts
      <4>4. view' = p /\ seq' = n
        BY <2>2, <3>1 DEF Log
      <4> QED BY <4>3, <4>4 DEF PictureIsTrue
    <3> QED BY <1>0, <2>2, <3>1 DEF ViewIsTrue
  <2> QED BY <1>q, <2>1, <2>2
<1>3. CASE StartAnswered \/ StopAnswered
  <2>1. UNCHANGED <<sup, seq>> /\ (~answered' => view' = view)
    BY <1>3 DEF StartAnswered, StopAnswered, MCNext
  <2>2. CASE answered'
    BY <1>0, <2>1, <2>2 DEF ViewIsTrue
  <2> QED BY <1>q, <2>1, <2>2
<1>4. CASE \/ Health \/ ServeOpen \/ ServeBatch \/ ServeEvent \/ Connect \/ InspectFails
           \/ OnOpen \/ OnClose \/ Break \/ Close \/ AskStart \/ AskStop
  <2>1. UNCHANGED <<sup, seq, view>>
    BY <1>4 DEF Health, ServeOpen, ServeBatch, NextBatch, ServeEvent, Connect, ConnectAs,
           InspectFails, OnOpen, OnClose, Break, Close, AskStart, AskStop, position
  <2> QED BY <1>q, <2>1
<1> QED BY <1>1, <1>2, <1>3, <1>4 DEF Controller

\* Every step keeps the invariant.
LEMMA TruthStep ==
  StreamInvariant /\ TruthInvariant /\ [MCNext]_<<vars, answered>> => TruthInvariant'
<1> SUFFICES ASSUME StreamInvariant, TruthInvariant, [MCNext]_<<vars, answered>>
             PROVE  TruthInvariant'
  OBVIOUS
<1>0. OwedIsTrue /\ LastIsTrue /\ SnapshotsAreTrue /\ ViewIsTrue
  BY DEF TruthInvariant
<1>1. CASE MCNext /\ Replace
  BY <1>1, ReplaceTruth
<1>2. CASE MCNext /\ Supervisor /\ ~Replace
  <2>1. OwedIsTrue' /\ LastIsTrue' /\ Tells
    BY <1>0, <1>2, SupervisorTells
  <2>2. UNCHANGED <<inspections, sup, seq, view>>
    BY <1>2, SupervisorStep DEF ControllerRests, connection, position
  <2>3. SnapshotsAreTrue'
    <3>1. \A r \in inspections' :
            r.sup <= epoch' /\ (r.sup = epoch' => PictureIsTrue(ShowSnapshot(r), r.last)')
      BY <1>0, <2>1, <2>2, SnapshotLasts
    <3> QED BY <3>1 DEF SnapshotsAreTrue, PictureIsTrue, ShowSnapshot
  <2>4. ViewIsTrue'
    BY <1>0, <1>2, <2>1, <2>2, ViewLasts, AnsweredRises
  <2> QED BY <2>1, <2>3, <2>4 DEF TruthInvariant
<1>3. CASE MCNext /\ (Health \/ ServeOpen \/ ServeBatch \/ ServeEvent \/ Controller)
  <2>1. OwedIsTrue' /\ LastIsTrue' /\ Tells
    BY <1>0, <1>3, OthersTell
  <2> QED BY <1>0, <1>3, <2>1, SnapshotsStep, ViewStep DEF TruthInvariant
<1>4. CASE UNCHANGED <<vars, answered>>
  <2>1. OwedIsTrue' /\ LastIsTrue' /\ Tells
    BY <1>0, <1>4, OthersTell
  <2>2. UNCHANGED <<inspections, sup, seq, view>>
    BY <1>4 DEF vars, connection, position
  <2>3. SnapshotsAreTrue'
    <3>1. \A r \in inspections' :
            r.sup <= epoch' /\ (r.sup = epoch' => PictureIsTrue(ShowSnapshot(r), r.last)')
      BY <1>0, <2>1, <2>2, SnapshotLasts
    <3> QED BY <3>1 DEF SnapshotsAreTrue, PictureIsTrue, ShowSnapshot
  <2>4. ViewIsTrue'
    BY <1>0, <1>4, <2>1, <2>2, ViewLasts
  <2> QED BY <2>1, <2>3, <2>4 DEF TruthInvariant
<1> QED BY <1>1, <1>2, <1>3, <1>4 DEF MCNext, Next

LEMMA TruthInit == MCInit => TruthInvariant
<1> SUFFICES ASSUME MCInit PROVE TruthInvariant
  OBVIOUS
<1>1. /\ epoch = 1 /\ logs = [e \in Epochs |-> IF e = 1 THEN <<Ready>> ELSE <<>>]
      /\ active = 0 /\ doing = "nothing" /\ owes = <<>> /\ inspections = {} /\ sup = 0
  BY DEF MCInit, Init
<1>2. Latest = 1 /\ Log[1] = Ready
  BY <1>1 DEF Latest, Log
<1>3. OwedIsTrue
  BY <1>1 DEF OwedIsTrue
<1>4. LastIsTrue
  BY <1>2 DEF LastIsTrue, Ready, Event, KernelKinds, ExecKinds
<1>5. SnapshotsAreTrue /\ ViewIsTrue
  BY <1>1 DEF SnapshotsAreTrue, ViewIsTrue
<1> QED BY <1>3, <1>4, <1>5 DEF TruthInvariant

\* A controller that has caught up shows what the service has, however changes,
\* their events, snapshots and lost connections interleave, unless an answer to a
\* command of its own has changed its view.
THEOREM FollowersSeeTruth == MCSpec => []TruthUnlessAnswered
<1>1. MCInit => Init /\ TruthInvariant
  BY TruthInit DEF MCInit
<1>2. [MCNext]_<<vars, answered>> => [Next]_vars
  BY DEF MCNext
<1>3. StreamInvariant /\ TruthInvariant => TruthUnlessAnswered
  <2> SUFFICES ASSUME StreamInvariant, TruthInvariant, ~answered, Settled
               PROVE  /\ view.kernel = kernel /\ view.on = on
                      /\ view.running = IF active = 0 THEN {} ELSE {active}
    BY DEF TruthUnlessAnswered, FollowerSeesTruth
  <2>1. /\ PictureIsTrue(view, seq) /\ seq = Latest /\ owes = <<>> /\ doing # "dying"
    BY DEF Settled, TruthInvariant, ViewIsTrue
  <2>2. ~KernelToCome(seq) /\ \A x : ~ExecToCome(x, seq)
    BY <2>1, LogTypes DEF KernelToCome, ExecToCome
  <2>3. active \in Nat /\ view.running \subseteq Nat
    BY DEF StreamInvariant, TypeOK, ServiceTypes, PositionTypes
  <2>4. \A x \in Nat : x \in view.running <=> Running(x)
    BY <2>1, <2>2 DEF PictureIsTrue
  <2>5. view.running = IF active = 0 THEN {} ELSE {active}
    BY <2>3, <2>4 DEF Running
  <2> QED BY <2>1, <2>2, <2>5 DEF PictureIsTrue
<1> QED BY <1>1, <1>2, <1>3, TruthStep, InitInvariant, StepInvariant, PTL DEF MCSpec
=============================================================================
