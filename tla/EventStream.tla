---------------------------- MODULE EventStream ----------------------------
(***************************************************************************)
(* The event log of the service (application/events.py), the SSE handler   *)
(* that serves it (EventsHandler of interfaces/http.py) and the Neovim     *)
(* controller that inspects, follows and resynchronises (controller.lua).  *)
(*                                                                         *)
(* The lane of the supervisor appears as the changes it makes and the      *)
(* events it still owes for them: a change is made under _state_lock, its  *)
(* event appended later, and a snapshot may be taken in between.  (The off *)
(* event an interrupt appends beside the lane is a matter of Supervisor.)  *)
(* Beside the controller other editors use the service, and the service    *)
(* may be replaced by a new one with a log of its own.                     *)
(*                                                                         *)
(* Kernels and executions are numbered over all services, 0 is none.  A    *)
(* runtime has the number of the kernel it was published with.             *)
(***************************************************************************)
EXTENDS Naturals, Sequences

CONSTANTS
  Capacity,      \* events the log keeps
  MaxEpoch,      \* bound: services, one after the other
  MaxLog,        \* bound: events one service appends
  MaxKernel,     \* bound: kernels
  MaxExec,       \* bound: executions
  MaxConnect,    \* bound: generations of the controller's connection
  OwnCommands    \* does this controller start and stop kernels itself?

ASSUME CapacityAssumption == Capacity \in Nat \ {0}
ASSUME BoundsAssumption ==
  /\ MaxEpoch \in Nat \ {0} /\ MaxLog \in Nat \ {0} /\ MaxKernel \in Nat
  /\ MaxExec \in Nat /\ MaxConnect \in Nat
ASSUME SwitchAssumption == OwnCommands \in BOOLEAN

Epochs == 1..MaxEpoch

VARIABLES
  epoch,       \* the service that runs
  logs,        \* per service, all events it appended; the log keeps the last
  kernel, on, runtime, active,  \* what health() shows
  lastKernel, lastExec,
  doing,       \* what the lane holder is in the middle of
  owes,        \* events the lane holder appends before its next change

  stream,      \* EventsHandler.get: its log, its cursor, and the last event of its batch
  wire,        \* what it wrote and the controller has not handled

  link,        \* event_connection: "none", "opening" until the handler runs, "open"
  transport,   \* transport_state
  generation,  \* _connect_generation
  inspections, \* inspections in flight, with their answers
  sup, seq,    \* supervisor_id and event_sequence
  view,        \* kernel_id, kernel_state, runtime_id, the running executions

  startAsked, startAnswer,  \* own start: sent; answered with this kernel
  stopAsked, stopAnswer,    \* own stop: sent for this kernel; answered for it

  base,        \* history: event_sequence after the last resynchronisation
  received     \* history: the events handled since

service    == <<epoch, kernel, on, runtime, active, lastKernel, lastExec, doing, owes>>
channel    == <<stream, wire>>
commands   == <<startAsked, startAnswer, stopAsked, stopAnswer>>
connection == <<link, transport, generation, inspections>>
position   == <<sup, seq, view, base, received>>
vars == <<service, logs, channel, commands, connection, position>>

Event(kind, id) == [kind |-> kind, id |-> id]
EventKinds == {"on", "off", "started", "completed", "other"}
Events == [kind : EventKinds, id : Nat]
Ready  == Event("other", 0)

NoStream  == [state |-> "none", sup |-> 0, cursor |-> 0, until |-> 0]
EmptyView == [kernel |-> 0, on |-> FALSE, runtime |-> 0, running |-> {}]

Log   == logs[epoch]
\* earliest_sequence and latest_sequence.
Latest   == Len(Log)
Earliest == IF Latest > Capacity THEN Latest - Capacity + 1 ELSE 1

Snapshots ==
  [gen : Nat, sup : Epochs, first : Nat, last : Nat, kernel : Nat, on : BOOLEAN,
   runtime : Nat, active : Nat]
Asked(g)  == [gen |-> g, sup |-> 0, first |-> 0, last |-> 0, kernel |-> 0, on |-> FALSE,
              runtime |-> 0, active |-> 0]

Init ==
  /\ epoch = 1 /\ logs = [e \in Epochs |-> IF e = 1 THEN <<Ready>> ELSE <<>>]
  /\ kernel = 0 /\ on = FALSE /\ runtime = 0 /\ active = 0 /\ lastKernel = 0 /\ lastExec = 0
  /\ doing = "nothing" /\ owes = <<>>
  /\ stream = NoStream /\ wire = <<>>
  /\ link = "none" /\ transport = "disconnected" /\ generation = 0 /\ inspections = {}
  /\ sup = 0 /\ seq = 0 /\ view = EmptyView
  /\ startAsked = FALSE /\ startAnswer = 0 /\ stopAsked = 0 /\ stopAnswer = 0
  /\ base = 0 /\ received = <<>>

-----------------------------------------------------------------------------
(* The supervisor: changes, and the events that tell of them.              *)

\* Room for n more events, those already owed included.  (A bound; a service that
\* replaces another has room for fewer.)
Room(n) == Latest + Len(owes) + n + (epoch - 1) <= MaxLog

Free == doing = "nothing" /\ owes = <<>>

\* The event was appended.
Told(kind, id) == \E i \in 1..Latest : Log[i] = Event(kind, id)

\* EventLog.append.
AppendToLog(event) == logs' = [logs EXCEPT ![epoch] = Append(@, event)]

LaneAppend ==
  /\ owes # <<>>
  /\ AppendToLog(Head(owes)) /\ owes' = Tail(owes)
  /\ UNCHANGED <<epoch, kernel, on, runtime, active, lastKernel, lastExec, doing,
                 channel, commands, connection, position>>

\* Operations, outputs, failures, clients: any thread, at any time.  (It leaves room
\* for one event of the lane.)
OtherAppend ==
  /\ Room(2) /\ AppendToLog(Event("other", 0))
  /\ UNCHANGED <<service, channel, commands, connection, position>>

\* start_kernel: the previous runtime is forgotten before the kernel is spawned.
StartBegin ==
  /\ Free /\ ~on /\ lastKernel < MaxKernel /\ Room(1)
  /\ doing' = "starting" /\ runtime' = 0
  /\ UNCHANGED <<epoch, logs, kernel, on, active, lastKernel, lastExec, owes,
                 channel, commands, connection, position>>

StartFails ==
  /\ doing = "starting" /\ doing' = "nothing"
  /\ startAsked' \in {startAsked, FALSE}
  /\ UNCHANGED <<epoch, logs, kernel, on, runtime, active, lastKernel, lastExec, owes,
                 channel, startAnswer, stopAsked, stopAnswer, connection, position>>

\* Kernel and runtime are published together; the answer goes to whoever asked.
StartPublish ==
  LET k == lastKernel + 1 IN
  /\ doing = "starting" /\ Room(1)
  /\ doing' = "nothing"
  /\ lastKernel' = k /\ kernel' = k /\ on' = TRUE /\ runtime' = k
  /\ owes' = Append(owes, Event("on", k))
  /\ \/ UNCHANGED <<startAsked, startAnswer>>
     \/ startAsked /\ startAsked' = FALSE /\ startAnswer' = k
  /\ UNCHANGED <<epoch, logs, active, lastExec, channel, stopAsked, stopAnswer,
                 connection, position>>

\* stop_kernel, or a death the poll observes.
TurnOff ==
  /\ Free /\ on /\ Room(1)
  /\ on' = FALSE /\ owes' = <<Event("off", kernel)>>
  /\ \/ UNCHANGED <<stopAsked, stopAnswer>>
     \/ stopAsked = kernel /\ stopAsked' = 0 /\ stopAnswer' = kernel
  /\ UNCHANGED <<epoch, logs, kernel, runtime, active, lastKernel, lastExec, doing,
                 channel, startAsked, startAnswer, connection, position>>

\* A kernel that is off already is reported off; an unknown one is refused.
StopAbsent ==
  /\ Free /\ stopAsked # 0 /\ (kernel # stopAsked \/ ~on)
  /\ stopAsked' = 0
  /\ stopAnswer' = IF Told("on", stopAsked) THEN stopAsked ELSE 0
  /\ UNCHANGED <<service, logs, channel, startAsked, startAnswer, connection, position>>

ExecBegin ==
  /\ Free /\ on /\ lastExec < MaxExec /\ Room(2)
  /\ doing' = "executing"
  /\ lastExec' = lastExec + 1 /\ active' = lastExec + 1
  /\ owes' = <<Event("started", lastExec + 1)>>
  /\ UNCHANGED <<epoch, logs, kernel, on, runtime, lastKernel,
                 channel, commands, connection, position>>

\* Mutant: the completion is told first, and the execution retired after it.
ExecEndToldFirst ==
  LET told == Told("completed", lastExec) IN
  /\ doing = "executing" /\ owes = <<>>
  /\ \/ ~told /\ AppendToLog(Event("completed", lastExec)) /\ UNCHANGED <<doing, active>>
     \/ told /\ doing' = "nothing" /\ active' = 0 /\ UNCHANGED logs
  /\ UNCHANGED <<epoch, kernel, on, runtime, lastKernel, lastExec, owes,
                 channel, commands, connection, position>>

\* The execution is retired first; its completion is told later, and after the
\* off event of its kernel if that died.
ExecEnd ==
  /\ doing = "executing" /\ owes = <<>>
  /\ active' = 0
  /\ \/ doing' = "nothing" /\ owes' = <<Event("completed", lastExec)>>
     \/ doing' = "dying" /\ UNCHANGED owes
  /\ UNCHANGED <<epoch, logs, kernel, on, runtime, lastKernel, lastExec,
                 channel, commands, connection, position>>

ExecDied ==
  /\ doing = "dying" /\ doing' = "nothing"
  /\ on' = FALSE
  /\ owes' = <<Event("off", kernel), Event("completed", lastExec)>>
  /\ UNCHANGED <<epoch, logs, kernel, runtime, active, lastKernel, lastExec,
                 channel, commands, connection, position>>

\* The service ends or is killed and another one takes its place.
Replace ==
  /\ epoch < MaxEpoch
  /\ epoch' = epoch + 1 /\ logs' = [logs EXCEPT ![epoch + 1] = <<Ready>>]
  /\ kernel' = 0 /\ on' = FALSE /\ runtime' = 0 /\ active' = 0
  /\ doing' = "nothing" /\ owes' = <<>>
  /\ stream' = [stream EXCEPT !.state = IF @ = "open" THEN "ended" ELSE @]
  /\ startAsked' = FALSE /\ startAnswer' = 0 /\ stopAsked' = 0 /\ stopAnswer' = 0
  /\ UNCHANGED <<lastKernel, lastExec, wire, connection, position>>

-----------------------------------------------------------------------------
(* EventsHandler.get.                                                      *)

\* The request arrives: the first batch is read before the stream is opened,
\* or the cursor has expired and there is no stream.
ServeOpen ==
  /\ link = "opening" /\ stream = NoStream
  /\ IF seq < Earliest - 1
     THEN stream' = [NoStream EXCEPT !.state = "ended"] /\ UNCHANGED wire
     ELSE /\ stream' = [state |-> "open", sup |-> epoch, cursor |-> seq,
                        until |-> IF Latest > seq THEN Latest ELSE seq]
          /\ wire' = <<[sup |-> epoch, seq |-> 0]>>
  /\ UNCHANGED <<service, logs, commands, connection, position>>

\* wait_after: the next batch, unless the log has moved past the cursor.
NextBatch(expired) ==
  /\ stream.state = "open" /\ stream.cursor = stream.until /\ Latest > stream.cursor
  /\ IF stream.cursor < Earliest - 1
     THEN stream' = expired
     ELSE stream' = [stream EXCEPT !.until = Latest]
  /\ UNCHANGED <<service, logs, wire, commands, connection, position>>

\* Mutant: a reader that fell behind the log is kept waiting.
ServeBatchSilently == NextBatch(stream)
ServeBatch == NextBatch([stream EXCEPT !.state = "ended"])

ServeEvent ==
  /\ stream.state = "open" /\ stream.cursor < stream.until
  /\ stream' = [stream EXCEPT !.cursor = @ + 1]
  /\ wire' = Append(wire, [sup |-> stream.sup, seq |-> stream.cursor + 1])
  /\ UNCHANGED <<service, logs, commands, connection, position>>

-----------------------------------------------------------------------------
(* The controller.                                                         *)

\* The connection is closed or has closed: the transport kills every request in
\* flight, and what the old connection still carries is dropped.
DropLink ==
  /\ link' = "none" /\ stream' = NoStream /\ wire' = <<>>
  /\ startAsked' = FALSE /\ startAnswer' = 0 /\ stopAsked' = 0 /\ stopAnswer' = 0

ConnectAs(g) ==
  /\ link = "none" /\ generation < MaxConnect
  /\ generation' = g /\ transport' = "connecting"
  /\ inspections' = inspections \cup {Asked(g)}
  /\ UNCHANGED <<service, logs, channel, commands, link, position>>

\* Mutant: an inspection does not supersede the one before.
ConnectAgain == ConnectAs(IF generation = 0 THEN 1 ELSE generation)
\* connect: while a connection lives there is nothing to do.
Connect == ConnectAs(generation + 1)

\* GET /v1/health, answered under _state_lock.  (Events may be appended while it
\* is; the cursor is checked again when the stream is opened.)
Health ==
  \E i \in inspections :
    /\ i.sup = 0
    /\ inspections' = (inspections \ {i}) \cup
         {[gen |-> i.gen, sup |-> epoch, first |-> Earliest, last |-> Latest,
           kernel |-> kernel, on |-> on, runtime |-> runtime, active |-> active]}
    /\ UNCHANGED <<service, logs, channel, commands, link, transport, generation, position>>

InspectFails ==
  \E i \in inspections :
    /\ inspections' = inspections \ {i}
    /\ transport' = IF i.gen = generation THEN "disconnected" ELSE transport
    /\ UNCHANGED <<service, logs, channel, commands, link, generation, position>>

ShowSnapshot(r) ==
  [kernel |-> r.kernel, on |-> r.on, runtime |-> r.runtime,
   running |-> IF r.active = 0 THEN {} ELSE {r.active}]

\* _accept_health_snapshot and connect_events: the snapshot replaces the view
\* when its cursor cannot be replayed; otherwise the view is kept, to be
\* brought up to date by the events that are missing.
AcceptWhen(r, authoritative, resync, cursor) ==
  /\ inspections' = inspections \ {r}
  /\ IF authoritative
     THEN /\ link' = "opening" /\ stream' = NoStream /\ wire' = <<>>
          /\ sup' = r.sup
          /\ IF resync
             THEN /\ seq' = cursor /\ view' = ShowSnapshot(r)
                  /\ base' = cursor /\ received' = <<>>
             ELSE UNCHANGED <<seq, view, base, received>>
     ELSE UNCHANGED <<link, channel, position>>
  /\ UNCHANGED <<service, logs, commands, transport, generation>>

Answered == {i \in inspections : i.sup # 0}
Unavailable(r) == seq < r.first - 1 \/ seq > r.last

\* Mutant: an answer to an inspection that was superseded is accepted.
AcceptAnyGeneration ==
  \E r \in Answered : AcceptWhen(r, TRUE, sup = 0 \/ sup # r.sup \/ Unavailable(r), r.last)
\* Mutant: the cursor is taken for the next event, not for the last one.
AcceptNext ==
  \E r \in Answered :
    AcceptWhen(r, r.gen = generation, sup = 0 \/ sup # r.sup \/ Unavailable(r), r.last + 1)
Accept ==
  \E r \in Answered :
    AcceptWhen(r, r.gen = generation, sup = 0 \/ sup # r.sup \/ Unavailable(r), r.last)

\* on_open: the comment that opens the stream.
OnOpen ==
  /\ wire # <<>> /\ Head(wire).seq = 0
  /\ wire' = Tail(wire)
  /\ link' = "open" /\ transport' = "connected"
  /\ UNCHANGED <<service, logs, stream, commands, generation, inspections, position>>

Show(event) ==
  CASE event.kind \in {"on", "off"} ->
         [view EXCEPT !.kernel = event.id, !.on = (event.kind = "on")]
    [] event.kind = "started"   -> [view EXCEPT !.running = @ \cup {event.id}]
    [] event.kind = "completed" -> [view EXCEPT !.running = @ \ {event.id}]
    [] OTHER -> view

\* _on_event: of another service or out of order, it ends the connection; old,
\* it is ignored; next, it is applied.
Handle(foreign) ==
  LET r == Head(wire)
      event == logs[r.sup][r.seq] IN
  /\ wire # <<>> /\ r.seq # 0
  /\ \/ /\ (foreign /\ r.sup # sup) \/ r.seq > seq + 1
        /\ DropLink /\ transport' = "disconnected"
        /\ UNCHANGED position
     \/ /\ ~(foreign /\ r.sup # sup) /\ r.seq <= seq
        /\ wire' = Tail(wire)
        /\ UNCHANGED <<stream, commands, link, transport, position>>
     \/ /\ ~(foreign /\ r.sup # sup) /\ r.seq = seq + 1
        /\ wire' = Tail(wire)
        /\ sup' = r.sup /\ seq' = r.seq /\ transport' = "connected"
        /\ view' = Show(event) /\ received' = Append(received, event)
        /\ UNCHANGED <<stream, commands, link, base>>
  /\ UNCHANGED <<service, logs, generation, inspections>>

\* Mutant: the supervisor of an event is not compared.
OnEventOfAnyService == Handle(FALSE)
OnEvent == Handle(TRUE)

\* The stream has ended and everything it carried was handled.
OnClose ==
  /\ link # "none" /\ stream.state = "ended" /\ wire = <<>>
  /\ DropLink /\ transport' = "disconnected"
  /\ UNCHANGED <<service, logs, generation, inspections, position>>

\* The network breaks the stream, whatever it still carried.
Break ==
  /\ link # "none"
  /\ DropLink /\ transport' = "disconnected"
  /\ UNCHANGED <<service, logs, generation, inspections, position>>

\* close: an inspection in flight loses its authority.  A closed controller has none.
Close ==
  /\ transport # "disconnected" /\ generation < MaxConnect
  /\ generation' = generation + 1
  /\ IF link = "none" THEN UNCHANGED <<link, channel, commands>> ELSE DropLink
  /\ transport' = "disconnected"
  /\ UNCHANGED <<service, logs, inspections, position>>

\* start_kernel and stop_kernel, and their answers.
AskStart ==
  /\ OwnCommands /\ ~startAsked /\ startAnswer = 0
  /\ startAsked' = TRUE
  /\ UNCHANGED <<service, logs, channel, connection, position, startAnswer, stopAsked, stopAnswer>>

AskStop ==
  /\ OwnCommands /\ stopAsked = 0 /\ stopAnswer = 0 /\ view.kernel # 0
  /\ stopAsked' = view.kernel
  /\ UNCHANGED <<service, logs, channel, connection, position, startAsked, startAnswer, stopAnswer>>

\* An answer follows the event that was appended for it.
StartAnswered ==
  /\ startAnswer # 0 /\ Told("on", startAnswer)
  /\ startAnswer' = 0
  /\ view' = [view EXCEPT !.kernel = startAnswer, !.on = TRUE, !.runtime = startAnswer]
  /\ UNCHANGED <<service, logs, channel, connection, sup, seq, base, received,
                 startAsked, stopAsked, stopAnswer>>

StopAnswered ==
  /\ stopAnswer # 0 /\ Told("off", stopAnswer)
  /\ stopAnswer' = 0
  /\ view' = [view EXCEPT !.on = FALSE]
  /\ UNCHANGED <<service, logs, channel, connection, sup, seq, base, received,
                 startAsked, startAnswer, stopAsked>>

-----------------------------------------------------------------------------
Supervisor ==
  \/ LaneAppend \/ OtherAppend
  \/ StartBegin \/ StartFails \/ StartPublish \/ TurnOff \/ StopAbsent
  \/ ExecBegin \/ ExecEnd \/ ExecDied \/ Replace

Controller ==
  \/ Connect \/ InspectFails \/ Accept \/ OnOpen \/ OnEvent \/ OnClose \/ Break \/ Close
  \/ AskStart \/ AskStop \/ StartAnswered \/ StopAnswered

Next == Supervisor \/ Health \/ ServeOpen \/ ServeBatch \/ ServeEvent \/ Controller

Spec == Init /\ [][Next]_vars

\* The handler's loop and the callbacks of the stream run when they can.
\* Nobody is obliged to connect, to act on a kernel, or to stay connected.
Fairness ==
  /\ WF_vars(ServeOpen) /\ WF_vars(ServeBatch) /\ WF_vars(ServeEvent)
  /\ WF_vars(OnOpen) /\ WF_vars(OnEvent) /\ WF_vars(OnClose)

-----------------------------------------------------------------------------
(* Properties.                                                             *)

ServiceTypes ==
  /\ epoch \in Epochs /\ logs \in [Epochs -> Seq(Events)]
  /\ kernel \in 0..MaxKernel /\ on \in BOOLEAN /\ runtime \in 0..MaxKernel
  /\ active \in 0..MaxExec /\ lastKernel \in 0..MaxKernel /\ lastExec \in 0..MaxExec
  /\ doing \in {"nothing", "starting", "executing", "dying"} /\ owes \in Seq(Events)
  /\ doing = "starting" => lastKernel < MaxKernel

StreamTypes ==
  /\ stream \in [state : {"none", "open", "ended"}, sup : 0..MaxEpoch, cursor : Nat, until : Nat]
  /\ wire \in Seq([sup : Epochs, seq : Nat])

ConnectionTypes ==
  /\ link \in {"none", "opening", "open"}
  /\ transport \in {"disconnected", "connecting", "connected"}
  /\ generation \in 0..MaxConnect
  /\ \A i \in inspections : i \in Snapshots \/ (i.gen \in Nat /\ i = Asked(i.gen))

PositionTypes ==
  /\ sup \in 0..MaxEpoch /\ seq \in Nat /\ base \in Nat /\ received \in Seq(Events)
  /\ view \in [kernel : Nat, on : BOOLEAN, runtime : Nat, running : SUBSET Nat]
  /\ startAsked \in BOOLEAN /\ startAnswer \in 0..MaxKernel
  /\ stopAsked \in Nat /\ stopAnswer \in Nat

\* Types; and the cursor never runs ahead of the log it points into.
TypeOK ==
  /\ ServiceTypes /\ StreamTypes /\ ConnectionTypes /\ PositionTypes
  /\ sup # 0 => seq <= Len(logs[sup])

\* Between two resynchronisations the controller handles every event of the
\* service it inspected, once and in the order of the log, over any number of
\* lost connections inspections and expired cursors.
NothingLostOrRepeated ==
  /\ seq = base + Len(received)
  /\ \A i \in 1..Len(received) : received[i] = logs[sup][base + i]

\* What the stream carries, and may still send of its batch, is in the log of
\* the service that wrote it; a service that has not begun has no log.
CarriesItsLog ==
  /\ \A i \in 1..Len(wire) : wire[i].seq <= Len(logs[wire[i].sup])
  /\ stream.cursor < stream.until =>
       stream.sup \in Epochs /\ stream.until <= Len(logs[stream.sup])
  /\ stream.state = "open" => stream.sup = epoch
  /\ link = "none" => stream = NoStream /\ wire = <<>>
  /\ \A e \in Epochs : e > epoch => logs[e] = <<>>

\* One inspection has authority, and only while there is no stream: nothing it
\* will tell about the followed service is older than the cursor.
OneAuthority ==
  /\ \A i \in inspections : i.gen <= generation /\ (i.gen = generation => link = "none")
  /\ \A i, j \in inspections : i.gen = j.gen => i = j
  /\ \A i \in inspections : i.sup # 0 => i.last <= Len(logs[i.sup])
  /\ \A i \in inspections : i.gen = generation /\ i.sup # 0 /\ i.sup = sup => seq <= i.last

\* The inductive invariant.
StreamInvariant ==
  /\ TypeOK /\ CarriesItsLog /\ OneAuthority /\ NothingLostOrRepeated
  /\ sup = 0 => seq = 0 /\ received = <<>>

\* As long as it follows the same service it never goes back to an older
\* snapshot, nor sees an event again.
CursorNeverGoesBack == [][sup' = sup => seq' >= seq]_vars

\* Everything was told and handled, and nothing is in flight.
Settled ==
  /\ link = "open" /\ sup = epoch /\ seq = Latest
  /\ owes = <<>> /\ doing # "dying"
  /\ ~startAsked /\ startAnswer = 0 /\ stopAsked = 0 /\ stopAnswer = 0

\* A controller that has caught up shows the kernel and the execution the
\* service has, however snapshots, changes and their events interleaved.
FollowerSeesTruth ==
  Settled => /\ view.kernel = kernel /\ view.on = on
             /\ view.running = IF active = 0 THEN {} ELSE {active}

\* A connected controller that stays behind the log keeps moving on: it gets every
\* event, or learns that the stream ended (wait_after and the end of the stream for
\* a reader the log has left behind).
CatchesUp ==
  <>[](link # "none" /\ sup = epoch /\ seq < Latest) => []<><<seq' > seq>>_vars
=============================================================================
