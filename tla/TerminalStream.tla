-------------------------- MODULE TerminalStream --------------------------
(***************************************************************************)
(* One terminal surface: the application at the target, the thread that    *)
(* drains its PTY, the replay window and the one attachment of the service *)
(* (terminal_surfaces.py, terminal_pty.py), the WebSocket handler          *)
(* (http.py), and the bridge that shows the bytes in Neovim and reconnects *)
(* from its cursor (terminal_bridge.py).                                   *)
(*                                                                         *)
(* A byte is its position in what the application wrote; a chunk is the    *)
(* interval from .. to - 1 of bytes.  A connection is numbered as it is    *)
(* opened, and its number is its attachment identity too.                  *)
(***************************************************************************)
EXTENDS Integers, Sequences

CONSTANTS
  MaxByte,        \* bytes the application writes (bound)
  ReplayLimit,    \* bytes the replay window holds
  QueueLimit,     \* chunks an attachment's queue holds
  WireLimit,      \* messages on their way to the bridge (the socket's buffers)
  MaxConnection,  \* times the bridge connects (bound)
  StopMayFail     \* may a target that is stopped survive SIGKILL past the wait?

ASSUME BoundsAssumption == MaxByte \in Nat /\ MaxConnection \in Nat
ASSUME LimitsAssumption ==
  ReplayLimit \in Nat \ {0} /\ QueueLimit \in Nat \ {0} /\ WireLimit \in Nat \ {0}
ASSUME SwitchAssumption == StopMayFail \in BOOLEAN

Positions   == 0 .. MaxByte
Connections == 1 .. MaxConnection

VARIABLES
  app,         \* "none", "running", "exited", or "closed": the PTY was given up
  written,     \* bytes the application wrote
  taken,       \* bytes the reader thread has read
  next,        \* aftercursor: bytes that are part of the stream
  replay,      \* the replay window
  attachment,  \* the connection that owns the attachment, 0 if none does
  queue,       \* per connection, the chunks of its attachment
  closing,     \* closing, and stop_reader with it
  listed,      \* the manager has the surface
  known,       \* the supervisor has the surface
  reader,      \* where the reader thread is
  reported,    \* fatal_reported
  closer,      \* where the close() in progress is; the lane admits one
  handler,     \* per connection, the WebSocket handler
  pump,        \* per connection, does its _pump run?
  socket,      \* per connection: "none", "up" or "down"
  inbox,       \* per connection, messages to the handler
  wire,        \* per connection, messages to the bridge
  sent,        \* per connection, the cursor that the bytes put on the wire have reached
  bridge,      \* "apart", "attaching", "attached" or "ended"
  conn,        \* the bridge's connection
  shown,       \* _last_cursor: bytes written to the editor's terminal
  verdict      \* why the bridge ended

appVars     == <<app, written>>
streamVars  == <<taken, next, replay>>
ownerVars   == <<closing, listed, known, closer>>
readerVars  == <<reader, reported>>
socketVars  == <<handler, pump, socket, inbox, wire, sent>>
bridgeVars  == <<bridge, conn, shown, verdict>>
vars == <<appVars, streamVars, attachment, queue, ownerVars, readerVars, socketVars, bridgeVars>>

-----------------------------------------------------------------------------

Chunk(from, to) == [kind |-> "output", from |-> from, to |-> to]

\* Every other message has no bytes: it stands where the stream stands.
Notice(kind, at) == [kind |-> kind, from |-> at, to |-> at]

\* Wire reasons a bridge retries, and those it gives up on.
Retryable == {"busy", "channel_closed"}
Final     == {"cursor_expired", "protocol_violation", "not_found"}
Kinds     == {"output", "attached"} \cup Retryable \cup Final

Message == [kind : Kinds, from : Positions, to : Positions]
Request == {"attach", "input"}

Earliest == IF replay = <<>> THEN next ELSE replay[1].from

\* The bytes a window holds; its chunks follow one another.
Bytes(s) == IF s = <<>> THEN 0 ELSE s[Len(s)].to - s[1].from

Init ==
  /\ app = "none" /\ written = 0
  /\ taken = 0 /\ next = 0 /\ replay = <<>>
  /\ attachment = 0 /\ queue = [c \in Connections |-> <<>>]
  /\ closing = FALSE /\ listed = TRUE /\ known = TRUE /\ closer = "none"
  /\ reader = "none" /\ reported = FALSE
  /\ handler = [c \in Connections |-> "none"] /\ pump = [c \in Connections |-> FALSE]
  /\ socket = [c \in Connections |-> "none"] /\ inbox = [c \in Connections |-> <<>>]
  /\ wire = [c \in Connections |-> <<>>] /\ sent = [c \in Connections |-> 0]
  /\ bridge = "apart" /\ conn = 0 /\ shown = 0 /\ verdict = "none"

-----------------------------------------------------------------------------
(* The application.                                                        *)

AppWrite ==
  /\ app = "running" /\ written < MaxByte
  /\ written' = written + 1
  /\ UNCHANGED <<app, streamVars, attachment, queue, ownerVars, readerVars, socketVars, bridgeVars>>

AppExit ==
  /\ app = "running"
  /\ app' = "exited"
  /\ UNCHANGED <<written, streamVars, attachment, queue, ownerVars, readerVars, socketVars, bridgeVars>>

-----------------------------------------------------------------------------
(* The reader thread: _drain.                                              *)

\* read() returned data; the surface's lock is not held yet.
DrainRead ==
  /\ reader = "reading" /\ ~closing
  /\ app \in {"running", "exited"} /\ written > next
  /\ \E to \in next + 1 .. written : taken' = to
  /\ reader' = "appending"
  /\ UNCHANGED <<appVars, next, replay, attachment, queue, ownerVars, reported, socketVars, bridgeVars>>

\* read() timed out with nothing; whether the process lives is looked at later.
DrainNothing ==
  /\ reader = "reading" /\ ~closing
  /\ written = next \/ app = "closed"
  /\ reader' = "looking"
  /\ UNCHANGED <<appVars, streamVars, attachment, queue, ownerVars, reported, socketVars, bridgeVars>>

DrainStop ==
  /\ reader \in {"reading", "looking"} /\ closing
  /\ reader' = "ended"
  /\ UNCHANGED <<appVars, streamVars, attachment, queue, ownerVars, reported, socketVars, bridgeVars>>

\* The window keeps the newest chunks that fit; a chunk that is larger than the
\* window replaces it with its tail.
AppendReplayWith(chunk, tail) ==
  IF chunk.to - chunk.from > ReplayLimit
  THEN replay' = <<tail>>
  ELSE LET all == Append(replay, chunk)
       IN \E m \in 0 .. Len(replay) :
            /\ Bytes(SubSeq(all, m + 1, Len(all))) <= ReplayLimit
            /\ m > 0 => Bytes(SubSeq(all, m, Len(all))) > ReplayLimit
            /\ replay' = SubSeq(all, m + 1, Len(all))

\* Mutant: the tail of a chunk keeps the chunk's cursor.
AppendReplayUnmoved(chunk) ==
  AppendReplayWith(chunk, Chunk(chunk.from, chunk.from + ReplayLimit))
AppendReplay(chunk) == AppendReplayWith(chunk, Chunk(chunk.to - ReplayLimit, chunk.to))

\* _notify_failure: the notice takes a place in the queue, or is dropped.
Notify(at) ==
  queue' = IF attachment # 0 /\ Len(queue[attachment]) < QueueLimit
           THEN [queue EXCEPT ![attachment] = Append(@, Notice("channel_closed", at))]
           ELSE queue

\* The pump took a chunk after the put had found the queue full.
NotifyLate(at) ==
  /\ attachment # 0 /\ pump[attachment]
  /\ queue' = [queue EXCEPT ![attachment] = Append(@, Notice("channel_closed", at))]

\* Under the surface's lock.  A full queue costs the attachment; the notice that
\* says so goes to the same queue, if the pump has made room by then.
DrainAppendTo(slow) ==
  /\ reader = "appending"
  /\ LET chunk == Chunk(next, taken) IN
       /\ AppendReplay(chunk)
       /\ IF attachment # 0 /\ Len(queue[attachment]) < QueueLimit
          THEN /\ queue' = [queue EXCEPT ![attachment] = Append(@, chunk)]
               /\ UNCHANGED attachment
          ELSE /\ Notify(next) \/ NotifyLate(next)
               /\ attachment' = slow
  /\ next' = taken
  /\ reader' = "reading"
  /\ UNCHANGED <<appVars, taken, ownerVars, reported, socketVars, bridgeVars>>

\* Mutant: an attachment that missed a chunk goes on.
DrainAppendSkips == DrainAppendTo(attachment)
DrainAppend == DrainAppendTo(0)

\* The process is asked after the read that found nothing.
DrainLook ==
  /\ reader = "looking" /\ ~closing
  /\ IF app = "running"
     THEN reader' = "reading" /\ UNCHANGED queue
     ELSE reader' = "failed" /\ Notify(next)
  /\ UNCHANGED <<appVars, streamVars, attachment, ownerVars, reported, socketVars, bridgeVars>>

\* A program that closed its terminal and lives: read() fails.
DrainError ==
  /\ reader = "reading" /\ ~closing /\ app = "running" /\ written = next
  /\ reader' = "failed"
  /\ Notify(next)
  /\ UNCHANGED <<appVars, streamVars, attachment, ownerVars, reported, socketVars, bridgeVars>>

\* _report_fatal, and the look-up of the client in terminal_surface_failed.
ReportFatalUnless(settled) ==
  /\ reader = "failed"
  /\ IF settled
     THEN reader' = "ended" /\ UNCHANGED reported
     ELSE /\ reported' = TRUE
          /\ reader' = IF known THEN "reporting" ELSE "ended"
  /\ UNCHANGED <<appVars, streamVars, attachment, queue, ownerVars, socketVars, bridgeVars>>

\* Mutant: a failure nobody is attached to see is not reported.
ReportFatalIfAttached == ReportFatalUnless(closing \/ reported \/ attachment = 0)
ReportFatal == ReportFatalUnless(closing \/ reported)

\* terminal_surface_failed has stopped the client's worker and gets the lane:
\* it retires the client and closes the surface, unless someone did before.
FatalRetire ==
  /\ reader = "reporting" /\ closer = "none"
  /\ IF known
     THEN known' = FALSE /\ closer' = "begin" /\ reader' = "closing"
     ELSE reader' = "ended" /\ UNCHANGED <<known, closer>>
  /\ UNCHANGED <<appVars, streamVars, attachment, queue, closing, listed, reported, socketVars, bridgeVars>>

-----------------------------------------------------------------------------
(* close(): by close_client or a teardown, which keep the surface when it  *)
(* fails, or by _retire_client, which has forgotten it already.            *)

CloseSurface ==
  /\ known /\ closer = "none"
  /\ closer' = "begin"
  /\ UNCHANGED <<appVars, streamVars, attachment, queue, closing, listed, known, readerVars, socketVars, bridgeVars>>

RetireSurface ==
  /\ known /\ closer = "none"
  /\ known' = FALSE /\ closer' = "begin"
  /\ UNCHANGED <<appVars, streamVars, attachment, queue, closing, listed, readerVars, socketVars, bridgeVars>>

\* The reader that closes its own surface ends with the call.
CloserLeaves ==
  /\ closer' = "none"
  /\ reader' = IF reader = "closing" THEN "ended" ELSE reader

CloseFence ==
  /\ closer = "begin"
  /\ IF listed
     THEN closer' = "stop" /\ closing' = TRUE /\ attachment' = 0 /\ UNCHANGED reader
     ELSE CloserLeaves /\ UNCHANGED <<closing, attachment>>
  /\ UNCHANGED <<appVars, streamVars, queue, listed, known, reported, socketVars, bridgeVars>>

\* handle.stop: TERM, KILL, and the PTY is closed; or the process outlasts both.
CloseStop ==
  /\ closer = "stop"
  /\ \/ /\ app' = IF app = "none" THEN "none" ELSE "closed"
        /\ closer' = "join" /\ UNCHANGED reader
     \/ /\ StopMayFail /\ app = "running"
        /\ CloserLeaves /\ UNCHANGED app
  /\ UNCHANGED <<written, streamVars, attachment, queue, closing, listed, known, reported, socketVars, bridgeVars>>

\* The join gives up after a time, and is left out by the reader itself.
CloseJoin ==
  /\ closer = "join"
  /\ listed' = FALSE
  /\ CloserLeaves
  /\ UNCHANGED <<appVars, streamVars, attachment, queue, closing, known, reported, socketVars, bridgeVars>>

-----------------------------------------------------------------------------
(* The WebSocket handler.  It takes one message at a time.                 *)

\* A message to the bridge waits for room.  One to a dead socket is lost, and
\* raises in whoever sent it: the pump and the handler's failures catch that.
Send(c, m) ==
  /\ Len(wire[c]) < WireLimit \/ socket[c] = "down"
  /\ wire' = IF socket[c] = "up" THEN [wire EXCEPT ![c] = Append(@, m)] ELSE wire
  /\ sent' = IF socket[c] = "up" THEN [sent EXCEPT ![c] = m.to] ELSE sent

Takes(c, request) ==
  /\ inbox[c] # <<>> /\ Head(inbox[c]) = request
  /\ inbox' = [inbox EXCEPT ![c] = Tail(@)]

\* The first failing check of attach() names the reason.  What the broker says
\* of a start or a resize that fails is channel_closed on the wire.
AttachRefused(c) ==
  \E reason \in Retryable \cup Final :
    /\ \/ reason = "not_found" /\ ~(known /\ listed)
       \/ /\ listed
          /\ \/ reason = "channel_closed" /\ closing
             \/ /\ ~closing
                /\ \/ reason = "busy" /\ attachment # 0
                   \/ /\ attachment = 0
                      /\ \/ reason = "cursor_expired" /\ sent[c] < Earliest
                         \/ reason = "protocol_violation" /\ sent[c] > next
                         \/ sent[c] \in Earliest .. next /\ reason = "channel_closed"
    /\ Send(c, Notice(reason, sent[c]))
    /\ handler' = [handler EXCEPT ![c] = "refused"]
    /\ UNCHANGED <<app, attachment, queue, reader, pump>>

\* The chunks of the window after a cursor: m chunks are shown already, the next
\* one may be in part.
Replayed(m, cursor) ==
  [i \in 1 .. Len(replay) - m |->
     Chunk(IF replay[m + i].from < cursor THEN cursor ELSE replay[m + i].from, replay[m + i].to)]

\* If the socket is gone when the answer is written, the handler raises out of
\* on_message: no pump is made, and the socket's loop, which has ended with it,
\* never calls on_close.
AttachIf(c, open, earliest) ==
  /\ listed /\ open /\ attachment = 0
  /\ sent[c] \in earliest .. next
  /\ app \in {"none", "running"}
  /\ \E m \in 0 .. Len(replay) :
       /\ \A i \in 1 .. Len(replay) : replay[i].to <= sent[c] <=> i <= m
       /\ IF Len(replay) - m <= QueueLimit
          THEN /\ attachment' = c
               /\ queue' = [queue EXCEPT ![c] = Replayed(m, sent[c])]
               /\ app' = "running"
               /\ reader' = IF reader = "none" THEN "reading" ELSE reader
               /\ pump' = [pump EXCEPT ![c] = socket[c] = "up"]
               /\ handler' = [handler EXCEPT ![c] = IF socket[c] = "up" THEN "attached" ELSE "raised"]
               /\ Send(c, Notice("attached", sent[c]))
          ELSE /\ Send(c, Notice("channel_closed", sent[c]))
               /\ handler' = [handler EXCEPT ![c] = "refused"]
               /\ UNCHANGED <<app, attachment, queue, reader, pump>>

\* Mutant: a surface that is being closed is attached to.
AttachWhileClosing(c) == AttachIf(c, TRUE, Earliest)
\* Mutant: a cursor that has expired is taken.
AttachExpired(c) == AttachIf(c, ~closing, 0)
Attach(c) == AttachIf(c, ~closing, Earliest)

HandleAttach(c) ==
  /\ handler[c] = "open" /\ Takes(c, "attach")
  /\ AttachRefused(c) \/ Attach(c)
  /\ UNCHANGED <<written, streamVars, ownerVars, reported, socket, bridgeVars>>

\* Input and resize reach the application for the attachment in charge only.  A
\* resize is acknowledged, which the bridge only checks; to a socket that is gone
\* the acknowledgement raises out of on_message.
HandleInput(c) ==
  /\ handler[c] = "attached" /\ Takes(c, "input")
  /\ IF listed /\ attachment = c /\ app = "running"
     THEN /\ UNCHANGED <<wire, sent>>
          /\ \/ UNCHANGED handler
             \/ socket[c] = "down" /\ handler' = [handler EXCEPT ![c] = "raised"]
     ELSE /\ Send(c, Notice(IF listed THEN "channel_closed" ELSE "not_found", sent[c]))
          /\ UNCHANGED handler
  /\ UNCHANGED <<appVars, streamVars, attachment, queue, ownerVars, readerVars, pump, socket, bridgeVars>>

\* _pump: one item of the attachment's queue goes to the socket.  A failure ends
\* the pump, and so does a socket that is gone.
PumpSend(c) ==
  /\ pump[c] /\ queue[c] # <<>>
  /\ Send(c, Head(queue[c]))
  /\ queue' = [queue EXCEPT ![c] = Tail(@)]
  /\ pump' = [pump EXCEPT ![c] = Head(queue[c]).kind = "output" /\ socket[c] = "up"]
  /\ UNCHANGED <<appVars, streamVars, attachment, ownerVars, readerVars, handler, socket, inbox, bridgeVars>>

\* on_close, once the message in hand is done.
OnCloseThen(c, after) ==
  /\ handler[c] \in {"open", "refused", "attached"} /\ socket[c] = "down"
  /\ pump' = [pump EXCEPT ![c] = FALSE]
  /\ handler' = [handler EXCEPT ![c] = IF @ = "open" THEN "gone" ELSE after]
  /\ inbox' = [inbox EXCEPT ![c] = <<>>]
  /\ UNCHANGED <<appVars, streamVars, attachment, queue, ownerVars, readerVars, socket, wire, sent, bridgeVars>>

\* Mutant: a handler whose pump has ended already does not detach.
OnCloseIfPumping(c) == OnCloseThen(c, IF pump[c] THEN "detaching" ELSE "gone")
OnClose(c) == OnCloseThen(c, "detaching")

Detach(c) ==
  /\ handler[c] = "detaching"
  /\ attachment' = IF listed /\ attachment = c THEN 0 ELSE attachment
  /\ handler' = [handler EXCEPT ![c] = "gone"]
  /\ queue' = [queue EXCEPT ![c] = <<>>]
  /\ UNCHANGED <<appVars, streamVars, ownerVars, readerVars, pump, socket, inbox, wire, sent, bridgeVars>>

SocketLost(c) ==
  /\ socket[c] = "up"
  /\ socket' = [socket EXCEPT ![c] = "down"]
  /\ UNCHANGED <<appVars, streamVars, attachment, queue, ownerVars, readerVars,
                 handler, pump, inbox, wire, sent, bridgeVars>>

-----------------------------------------------------------------------------
(* The bridge.  An attach that cannot even be written is tried again, like *)
(* a connection that cannot be made: both are left out.                    *)

serviceVars == <<appVars, streamVars, attachment, queue, ownerVars, readerVars, handler, pump>>

\* _run_connection, as far as the attach from _last_cursor.
Connect ==
  LET c == conn + 1 IN
  /\ bridge = "apart" /\ c \in Connections
  /\ bridge' = "attaching" /\ conn' = c
  /\ socket' = [socket EXCEPT ![c] = "up"] /\ handler' = [handler EXCEPT ![c] = "open"]
  /\ inbox' = [inbox EXCEPT ![c] = <<"attach">>]
  /\ sent' = [sent EXCEPT ![c] = shown]
  /\ UNCHANGED <<appVars, streamVars, attachment, queue, ownerVars, readerVars, pump, wire,
                 shown, verdict>>

\* _close_connection; what was on the wire is gone.
HangUp ==
  /\ socket' = [socket EXCEPT ![conn] = "down"]
  /\ wire' = [wire EXCEPT ![conn] = <<>>]
Retries == HangUp /\ bridge' = "apart" /\ UNCHANGED verdict
GivesUp(why) == HangUp /\ bridge' = "ended" /\ verdict' = why

ReadWire(kinds) ==
  /\ bridge \in {"attaching", "attached"}
  /\ wire[conn] # <<>> /\ Head(wire[conn]).kind \in kinds
TakeMessage == wire' = [wire EXCEPT ![conn] = Tail(@)] /\ UNCHANGED socket

\* _wait_attached.
BridgeAttached ==
  /\ bridge = "attaching" /\ ReadWire({"attached"})
  /\ IF Head(wire[conn]).from = shown
     THEN TakeMessage /\ bridge' = "attached" /\ UNCHANGED verdict
     ELSE GivesUp("wrong cursor")
  /\ UNCHANGED <<serviceVars, inbox, sent, conn, shown>>

\* _accept_output: the frame starts where the terminal stands, or that is the end.
BridgeOutputTo(cursor) ==
  /\ ReadWire({"output"})
  /\ IF bridge = "attached" /\ Head(wire[conn]).from = shown
     THEN TakeMessage /\ shown' = cursor /\ UNCHANGED <<bridge, verdict>>
     ELSE GivesUp(IF bridge = "attached" THEN "gap" ELSE "early output") /\ UNCHANGED shown
  /\ UNCHANGED <<serviceVars, inbox, sent, conn>>

\* Mutant: the cursor is that of the next byte, and one more.
BridgeOutputPast == BridgeOutputTo(Head(wire[conn]).to + 1)
BridgeOutput == BridgeOutputTo(Head(wire[conn]).to)

\* A failure frame: some reasons are worth a new connection.
BridgeRejected ==
  /\ ReadWire(Retryable \cup Final)
  /\ IF Head(wire[conn]).kind \in Retryable THEN Retries ELSE GivesUp(Head(wire[conn]).kind)
  /\ UNCHANGED <<serviceVars, inbox, sent, conn, shown>>

\* The socket is gone, with or without what it still carried.  A connection lost
\* before its attachment is not made again.
BridgeLost ==
  /\ bridge \in {"attaching", "attached"} /\ socket[conn] = "down"
  /\ IF bridge = "attached" THEN Retries ELSE GivesUp("lost before attachment")
  /\ UNCHANGED <<serviceVars, inbox, sent, conn, shown>>

BridgeInput ==
  /\ bridge = "attached" /\ socket[conn] = "up" /\ inbox[conn] = <<>>
  /\ inbox' = [inbox EXCEPT ![conn] = <<"input">>]
  /\ UNCHANGED <<serviceVars, socket, wire, sent, bridgeVars>>

\* The editor closes its terminal: end of input.
BridgeStop ==
  /\ bridge = "attached" /\ GivesUp("stopped")
  /\ UNCHANGED <<serviceVars, inbox, sent, conn, shown>>

-----------------------------------------------------------------------------
Drain ==
  \/ DrainRead \/ DrainNothing \/ DrainStop \/ DrainAppend \/ DrainLook
  \/ ReportFatal \/ FatalRetire
Close == CloseFence \/ CloseStop \/ CloseJoin
Handle(c) == HandleAttach(c) \/ HandleInput(c) \/ OnClose(c) \/ Detach(c)
BridgeReads == BridgeAttached \/ BridgeOutput \/ BridgeRejected \/ BridgeLost

Next ==
  \/ AppWrite \/ AppExit \/ Drain \/ DrainError \/ CloseSurface \/ RetireSurface \/ Close
  \/ \E c \in Connections : Handle(c) \/ PumpSend(c) \/ SocketLost(c)
  \/ Connect \/ BridgeReads \/ BridgeInput \/ BridgeStop

Spec == Init /\ [][Next]_vars

-----------------------------------------------------------------------------
(* Properties.                                                             *)

Linked(s) == \A i \in 1 .. Len(s) - 1 : s[i].to = s[i + 1].from
First(s, at) == IF s = <<>> THEN at ELSE s[1].from
Last(s, at)  == IF s = <<>> THEN at ELSE s[Len(s)].to

\* Type invariant: the surface, its attachment and socket, and the bridge.
TypeOK ==
  /\ app \in {"none", "running", "exited", "closed"}
  /\ written \in Positions /\ taken \in Positions /\ next \in Positions /\ shown \in Positions
  /\ replay \in Seq(Message)
  /\ attachment \in 0 .. MaxConnection /\ conn \in 0 .. MaxConnection
  /\ queue \in [Connections -> Seq(Message)] /\ wire \in [Connections -> Seq(Message)]
  /\ closing \in BOOLEAN /\ listed \in BOOLEAN /\ known \in BOOLEAN /\ reported \in BOOLEAN
  /\ closer \in {"none", "begin", "stop", "join"}
  /\ reader \in {"none", "reading", "appending", "looking", "failed", "reporting",
                 "closing", "ended"}
  /\ handler \in [Connections -> {"none", "open", "attached", "refused", "raised",
                               "detaching", "gone"}]
  /\ pump \in [Connections -> BOOLEAN] /\ socket \in [Connections -> {"none", "up", "down"}]
  /\ inbox \in [Connections -> Seq(Request)] /\ sent \in [Connections -> Positions]
  /\ bridge \in {"apart", "attaching", "attached", "ended"}
  /\ verdict \in {"none", "gap", "early output", "wrong cursor", "lost before attachment",
                  "stopped"} \cup Final

\* What the reader has put in order reaches the terminal in order: from the
\* replay window and the live chunks through the queue and the wire there is no
\* byte missing and none twice, over any number of attachments and lost sockets.
\* The window is the newest part of the stream and keeps to its limit.
StreamContiguous ==
  /\ Linked(replay) /\ Last(replay, next) = next /\ Bytes(replay) <= ReplayLimit
  /\ \A c \in Connections :
       /\ Linked(queue[c]) /\ Linked(wire[c])
       /\ socket[c] = "up" => Last(wire[c], sent[c]) = First(queue[c], sent[c])
       /\ socket[c] = "up" /\ attachment = c => Last(queue[c], sent[c]) = next
  /\ bridge \in {"attaching", "attached"} =>
       First(wire[conn], IF socket[conn] = "up" THEN sent[conn] ELSE shown) = shown

\* The bridge never ends over what it is sent, or over a cursor the service
\* never gave it: only because its cursor expired, the surface is gone, the
\* connection was lost too early or the editor left.
BridgeNeverConfused ==
  verdict \notin {"gap", "early output", "wrong cursor", "protocol_violation"}

\* No program lives behind a surface that the manager gave up.
NoProcessAfterClose == ~listed => app # "running"

\* Whoever owns the attachment will give it up: it is attached, and detaches when
\* its socket is gone.  A lost connection makes a surface busy for longer in one
\* way only: its handler raised over an answer to a socket already gone.
AttachmentHasOwner ==
  attachment # 0 =>
    \/ handler[attachment] \in {"attached", "detaching"}
    \/ handler[attachment] = "raised" /\ socket[attachment] = "down"

\* A program that has exited is found out by the reader, or its surface is closed
\* already or about to be, whoever else closes it.
ExitIsNoticed ==
  app = "exited" =>
    \/ closing \/ closer = "begin"
    \/ reader \in {"reading", "appending", "looking", "failed", "reporting"}
=============================================================================
