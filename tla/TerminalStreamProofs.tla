------------------------- MODULE TerminalStreamProofs -------------------------
(***************************************************************************)
(* Theorems about TerminalStream, for any number of bytes and connections  *)
(* and any limits: who owns a surface and what its end leaves behind, and  *)
(* that the terminal is shown what the program wrote, in order.            *)
(***************************************************************************)
EXTENDS TerminalStream, TLAPS

-----------------------------------------------------------------------------
(* The inductive invariant.                                                *)

\* The types of the state that ownership is about.
OwnerTypes ==
  /\ app \in {"none", "running", "exited", "closed"}
  /\ attachment \in 0 .. MaxConnection /\ conn \in 0 .. MaxConnection
  /\ closing \in BOOLEAN /\ listed \in BOOLEAN /\ known \in BOOLEAN /\ reported \in BOOLEAN
  /\ closer \in {"none", "begin", "stop", "join"}
  /\ reader \in {"none", "reading", "appending", "looking", "failed", "reporting",
                 "closing", "ended"}
  /\ handler \in [Connections -> {"none", "open", "attached", "refused", "raised",
                               "detaching", "gone"}]
  /\ pump \in [Connections -> BOOLEAN] /\ socket \in [Connections -> {"none", "up", "down"}]

\* A surface that is being closed has no attachment and gets none, and one that was
\* given up, or is about to be, has had its program stopped.
ClosedForGood ==
  /\ closing => attachment = 0
  /\ closer \in {"stop", "join"} \/ ~listed => closing
  /\ closer = "join" \/ ~listed => app \in {"none", "closed"}

\* The reader begins with the program.  It leaves its loop for good only when the
\* surface is being closed, or to have it closed.
ReaderOutlivesProgram ==
  /\ reader = "none" => app \in {"none", "closed"}
  /\ reported => reader \in {"reporting", "closing", "ended"}
  /\ ~known \/ reader \in {"closing", "ended"} => closing \/ closer = "begin"

\* A connection that is still to be made has no handler, and one that was has a socket.
NotYetMade ==
  \A c \in Connections : IF c > conn THEN handler[c] = "none" ELSE socket[c] # "none"

OwnerInvariant ==
  /\ OwnerTypes /\ ClosedForGood /\ ReaderOutlivesProgram
  /\ NotYetMade /\ AttachmentHasOwner

\* The numbers that connections and attachments may have.
LEMMA Numbers ==
  /\ 0 \in 0 .. MaxConnection
  /\ \A c \in Connections : c \in 0 .. MaxConnection /\ c # 0
  /\ \A n \in 0 .. MaxConnection : n + 1 \in Connections => n + 1 \in 0 .. MaxConnection
  /\ \A n \in 0 .. MaxConnection : n # 0 => n \in Connections
  BY BoundsAssumption DEF Connections

\* A surface that was just prepared.
LEMMA InitInvariant == Init => OwnerInvariant
<1> SUFFICES ASSUME Init PROVE OwnerInvariant
  OBVIOUS
<1> USE DEF Init
<1>1. OwnerTypes
  BY Numbers DEF OwnerTypes
<1>2. ClosedForGood /\ ReaderOutlivesProgram /\ NotYetMade /\ AttachmentHasOwner
  BY BoundsAssumption DEF ClosedForGood, ReaderOutlivesProgram, NotYetMade, AttachmentHasOwner,
     Connections
<1> QED BY <1>1, <1>2 DEF OwnerInvariant

\* What is left of an attach, whatever the answer to it is.
LEMMA AttachEffect ==
  ASSUME OwnerTypes, NEW c \in Connections, HandleAttach(c)
  PROVE  /\ handler[c] = "open"
         /\ \E h \in {"attached", "refused", "raised"} : handler' = [handler EXCEPT ![c] = h]
         /\ \/ /\ ~closing /\ listed /\ attachment' = c
               /\ app \in {"none", "running"} /\ app' = "running"
               /\ reader' = IF reader = "none" THEN "reading" ELSE reader
               /\ pump' = [pump EXCEPT ![c] = socket[c] = "up"]
               /\ handler'[c] = IF socket[c] = "up" THEN "attached" ELSE "raised"
            \/ UNCHANGED <<attachment, app, reader, pump>>
         /\ UNCHANGED <<closing, listed, known, closer, reported, conn, socket>>
<1> USE DEF OwnerTypes, HandleAttach
<1>1. handler[c] = "open" /\ UNCHANGED <<closing, listed, known, closer, reported, conn, socket>>
  BY DEF ownerVars, bridgeVars
<1>3. CASE AttachRefused(c)
  <2>1. /\ handler' = [handler EXCEPT ![c] = "refused"]
        /\ UNCHANGED <<attachment, app, reader, pump>>
    BY <1>3 DEF AttachRefused
  <2> QED BY <1>1, <2>1
<1>4. CASE Attach(c)
  <2>1. \/ /\ ~closing /\ listed /\ attachment' = c
           /\ app \in {"none", "running"} /\ app' = "running"
           /\ reader' = IF reader = "none" THEN "reading" ELSE reader
           /\ pump' = [pump EXCEPT ![c] = socket[c] = "up"]
           /\ handler' = [handler EXCEPT ![c] = IF socket[c] = "up" THEN "attached" ELSE "raised"]
        \/ /\ handler' = [handler EXCEPT ![c] = "refused"]
           /\ UNCHANGED <<attachment, app, reader, pump>>
    BY <1>4 DEF Attach, AttachIf
  <2> QED BY <1>1, <2>1
<1> QED BY <1>3, <1>4

\* What the sockets and the bridge do does not touch the surface or its reader.
Elsewhere ==
  \/ AppWrite \/ \E c \in Connections : HandleInput(c) \/ OnClose(c) \/ PumpSend(c) \/ SocketLost(c)
  \/ Connect \/ BridgeReads \/ BridgeInput \/ BridgeStop

\* Steps of others leave what OwnerInvariant is about alone.
LEMMA ElsewhereRests ==
  ASSUME Elsewhere
  PROVE  UNCHANGED <<app, attachment, closing, listed, known, closer, reader, reported>>
<1> USE DEF appVars, ownerVars, readerVars, serviceVars
<1>1. ASSUME AppWrite
     PROVE  UNCHANGED <<app, attachment, closing, listed, known, closer, reader, reported>>
  BY <1>1 DEF AppWrite
<1>2. ASSUME NEW c \in Connections, HandleInput(c)
     PROVE  UNCHANGED <<app, attachment, closing, listed, known, closer, reader, reported>>
  BY <1>2 DEF HandleInput
<1>3. ASSUME NEW c \in Connections, OnClose(c)
     PROVE  UNCHANGED <<app, attachment, closing, listed, known, closer, reader, reported>>
  BY <1>3 DEF OnClose, OnCloseThen
<1>4. ASSUME NEW c \in Connections, PumpSend(c)
     PROVE  UNCHANGED <<app, attachment, closing, listed, known, closer, reader, reported>>
  BY <1>4 DEF PumpSend
<1>5. ASSUME NEW c \in Connections, SocketLost(c)
     PROVE  UNCHANGED <<app, attachment, closing, listed, known, closer, reader, reported>>
  BY <1>5 DEF SocketLost
<1>6. ASSUME Connect
     PROVE  UNCHANGED <<app, attachment, closing, listed, known, closer, reader, reported>>
  BY <1>6 DEF Connect
<1>7. ASSUME BridgeAttached
     PROVE  UNCHANGED <<app, attachment, closing, listed, known, closer, reader, reported>>
  BY <1>7 DEF BridgeAttached
<1>8. ASSUME BridgeOutput
     PROVE  UNCHANGED <<app, attachment, closing, listed, known, closer, reader, reported>>
  BY <1>8 DEF BridgeOutput, BridgeOutputTo
<1>9. ASSUME BridgeRejected
     PROVE  UNCHANGED <<app, attachment, closing, listed, known, closer, reader, reported>>
  BY <1>9 DEF BridgeRejected
<1>10. ASSUME BridgeLost
     PROVE  UNCHANGED <<app, attachment, closing, listed, known, closer, reader, reported>>
  BY <1>10 DEF BridgeLost
<1>11. ASSUME BridgeInput
     PROVE  UNCHANGED <<app, attachment, closing, listed, known, closer, reader, reported>>
  BY <1>11 DEF BridgeInput
<1>12. ASSUME BridgeStop
     PROVE  UNCHANGED <<app, attachment, closing, listed, known, closer, reader, reported>>
  BY <1>12 DEF BridgeStop
<1> QED BY <1>1, <1>2, <1>3, <1>4, <1>5, <1>6, <1>7, <1>8, <1>9, <1>10, <1>11, <1>12 DEF
      Elsewhere, BridgeReads

\* What the bridge does to a socket is to close it.
LEMMA BridgeEffect ==
  ASSUME OwnerTypes, BridgeReads \/ BridgeInput \/ BridgeStop
  PROVE  /\ UNCHANGED <<app, attachment, closing, listed, known, closer, reader, reported,
                        handler, pump, conn>>
         /\ socket' \in [Connections -> {"none", "up", "down"}]
         /\ \A c \in Connections : socket'[c] \in {socket[c], "down"}
<1> USE DEF appVars, ownerVars, readerVars, serviceVars, bridgeVars
<1>1. UNCHANGED <<app, attachment, closing, listed, known, closer, reader, reported,
                  handler, pump, conn>>
  <2>1. CASE BridgeAttached
    BY <2>1 DEF BridgeAttached
  <2>2. CASE BridgeOutput
    BY <2>2 DEF BridgeOutput, BridgeOutputTo
  <2>3. CASE BridgeRejected
    BY <2>3 DEF BridgeRejected
  <2>4. CASE BridgeLost
    BY <2>4 DEF BridgeLost
  <2>5. CASE BridgeInput
    BY <2>5 DEF BridgeInput
  <2>6. CASE BridgeStop
    BY <2>6 DEF BridgeStop
  <2> QED BY <2>1, <2>2, <2>3, <2>4, <2>5, <2>6 DEF BridgeReads
<1>2. UNCHANGED socket \/ HangUp
  <2>1. CASE BridgeAttached
    BY <2>1 DEF BridgeAttached, TakeMessage, GivesUp
  <2>2. CASE BridgeOutput
    BY <2>2 DEF BridgeOutput, BridgeOutputTo, TakeMessage, GivesUp
  <2>3. CASE BridgeRejected
    BY <2>3 DEF BridgeRejected, Retries, GivesUp
  <2>4. CASE BridgeLost
    BY <2>4 DEF BridgeLost, Retries, GivesUp
  <2>5. CASE BridgeInput \/ BridgeStop
    BY <2>5 DEF BridgeInput, BridgeStop, GivesUp
  <2> QED BY <2>1, <2>2, <2>3, <2>4, <2>5 DEF BridgeReads
<1>3. CASE UNCHANGED socket
  BY <1>1, <1>3 DEF OwnerTypes
<1>4. CASE HangUp
  BY <1>1, <1>4 DEF OwnerTypes, HangUp
<1> QED BY <1>2, <1>3, <1>4

\* Every step keeps the types.
LEMMA TypeStep ==
  OwnerTypes /\ [Next]_vars => OwnerTypes'
<1> SUFFICES ASSUME OwnerTypes, [Next]_vars PROVE OwnerTypes'
  OBVIOUS
<1> USE Numbers DEF OwnerTypes, appVars, ownerVars, readerVars, socketVars, bridgeVars
<1>1. ASSUME AppExit PROVE OwnerTypes'
  BY <1>1 DEF AppExit
<1>2. ASSUME DrainRead PROVE OwnerTypes'
  BY <1>2 DEF DrainRead
<1>3. ASSUME DrainNothing PROVE OwnerTypes'
  BY <1>3 DEF DrainNothing
<1>4. ASSUME DrainStop PROVE OwnerTypes'
  BY <1>4 DEF DrainStop
<1>5. ASSUME DrainAppend PROVE OwnerTypes'
  BY <1>5 DEF DrainAppend, DrainAppendTo
<1>6. ASSUME DrainLook PROVE OwnerTypes'
  BY <1>6 DEF DrainLook
<1>7. ASSUME ReportFatal PROVE OwnerTypes'
  BY <1>7 DEF ReportFatal, ReportFatalUnless
<1>8. ASSUME FatalRetire PROVE OwnerTypes'
  BY <1>8 DEF FatalRetire
<1>9. ASSUME DrainError PROVE OwnerTypes'
  BY <1>9 DEF DrainError
<1>10. ASSUME CloseSurface PROVE OwnerTypes'
  BY <1>10 DEF CloseSurface
<1>11. ASSUME RetireSurface PROVE OwnerTypes'
  BY <1>11 DEF RetireSurface
<1>12. ASSUME CloseFence PROVE OwnerTypes'
  BY <1>12 DEF CloseFence, CloserLeaves
<1>13. ASSUME CloseStop PROVE OwnerTypes'
  BY <1>13 DEF CloseStop, CloserLeaves
<1>14. ASSUME CloseJoin PROVE OwnerTypes'
  BY <1>14 DEF CloseJoin, CloserLeaves
<1>15. ASSUME NEW c \in Connections, HandleAttach(c) PROVE OwnerTypes'
  <2>1. handler' \in [Connections -> {"none", "open", "attached", "refused", "raised",
                                    "detaching", "gone"}]
    BY <1>15, AttachEffect
  <2>2. pump' \in [Connections -> BOOLEAN] /\ attachment' \in 0 .. MaxConnection
    BY <1>15, AttachEffect
  <2> QED BY <1>15, <2>1, <2>2, AttachEffect
<1>16. ASSUME NEW c \in Connections, HandleInput(c) PROVE OwnerTypes'
  BY <1>16 DEF HandleInput
<1>17. ASSUME NEW c \in Connections, OnClose(c) PROVE OwnerTypes'
  BY <1>17 DEF OnClose, OnCloseThen
<1>18. ASSUME NEW c \in Connections, Detach(c) PROVE OwnerTypes'
  BY <1>18 DEF Detach
<1>19. ASSUME NEW c \in Connections, PumpSend(c) PROVE OwnerTypes'
  BY <1>19 DEF PumpSend
<1>20. ASSUME NEW c \in Connections, SocketLost(c) PROVE OwnerTypes'
  BY <1>20 DEF SocketLost
<1>21. ASSUME Connect PROVE OwnerTypes'
  BY <1>21 DEF Connect
<1>22. ASSUME BridgeReads \/ BridgeInput \/ BridgeStop PROVE OwnerTypes'
  BY <1>22, BridgeEffect
<1>23. ASSUME AppWrite PROVE OwnerTypes'
  BY <1>23 DEF AppWrite
<1>24. ASSUME UNCHANGED vars PROVE OwnerTypes'
  BY <1>24 DEF vars
<1> QED BY <1>1, <1>2, <1>3, <1>4, <1>5, <1>6, <1>7, <1>8, <1>9, <1>10, <1>11, <1>12,
      <1>13, <1>14, <1>15, <1>16, <1>17, <1>18, <1>19, <1>20, <1>21, <1>22, <1>23, <1>24
      DEF Next, Drain, Close, Handle

\* Nothing attaches to a surface that is being closed, so its program is not started
\* again.
LEMMA ClosedStep ==
  OwnerTypes /\ ClosedForGood /\ [Next]_vars => ClosedForGood'
<1> SUFFICES ASSUME OwnerTypes, ClosedForGood, [Next]_vars PROVE ClosedForGood'
  OBVIOUS
<1> USE DEF OwnerTypes, ClosedForGood, Connections, appVars, ownerVars, readerVars,
        socketVars, bridgeVars
<1>1. ASSUME AppExit PROVE ClosedForGood'
  BY <1>1 DEF AppExit
<1>2. ASSUME DrainAppend PROVE ClosedForGood'
  BY <1>2 DEF DrainAppend, DrainAppendTo
<1>3. ASSUME FatalRetire PROVE ClosedForGood'
  BY <1>3 DEF FatalRetire
<1>4. ASSUME CloseSurface PROVE ClosedForGood'
  BY <1>4 DEF CloseSurface
<1>5. ASSUME RetireSurface PROVE ClosedForGood'
  BY <1>5 DEF RetireSurface
<1>6. ASSUME CloseFence PROVE ClosedForGood'
  BY <1>6 DEF CloseFence, CloserLeaves
<1>7. ASSUME CloseStop PROVE ClosedForGood'
  BY <1>7 DEF CloseStop, CloserLeaves
<1>8. ASSUME CloseJoin PROVE ClosedForGood'
  BY <1>8 DEF CloseJoin, CloserLeaves
<1>9. ASSUME NEW c \in Connections, HandleAttach(c) PROVE ClosedForGood'
  BY <1>9, AttachEffect
<1>10. ASSUME NEW c \in Connections, Detach(c) PROVE ClosedForGood'
  BY <1>10 DEF Detach
<1>11. ASSUME Elsewhere PROVE ClosedForGood'
  BY <1>11, ElsewhereRests
<1>12. ASSUME DrainRead \/ DrainNothing \/ DrainStop \/ DrainLook \/ ReportFatal \/
                 DrainError PROVE ClosedForGood'
  BY <1>12 DEF DrainRead, DrainNothing, DrainStop, DrainLook, ReportFatal,
      ReportFatalUnless, DrainError
<1>13. ASSUME UNCHANGED vars PROVE ClosedForGood'
  BY <1>13 DEF vars
<1> QED BY <1>1, <1>2, <1>3, <1>4, <1>5, <1>6, <1>7, <1>8, <1>9, <1>10, <1>11, <1>12,
      <1>13 DEF Next, Drain, Close, Handle, BridgeReads, Elsewhere

\* Whoever makes the reader leave its loop closes the surface, or has it closed.
LEMMA ReaderStep ==
  OwnerTypes /\ ClosedForGood /\ ReaderOutlivesProgram /\ [Next]_vars => ReaderOutlivesProgram'
<1> SUFFICES ASSUME OwnerTypes, ClosedForGood, ReaderOutlivesProgram, [Next]_vars PROVE
    ReaderOutlivesProgram'
  OBVIOUS
<1> USE DEF OwnerTypes, ClosedForGood, ReaderOutlivesProgram, appVars, ownerVars,
        readerVars, socketVars, bridgeVars
<1>1. ASSUME AppExit PROVE ReaderOutlivesProgram'
  BY <1>1 DEF AppExit
<1>2. ASSUME DrainRead PROVE ReaderOutlivesProgram'
  BY <1>2 DEF DrainRead
<1>3. ASSUME DrainNothing PROVE ReaderOutlivesProgram'
  BY <1>3 DEF DrainNothing
<1>4. ASSUME DrainStop PROVE ReaderOutlivesProgram'
  BY <1>4 DEF DrainStop
<1>5. ASSUME DrainAppend PROVE ReaderOutlivesProgram'
  BY <1>5 DEF DrainAppend, DrainAppendTo
<1>6. ASSUME DrainLook PROVE ReaderOutlivesProgram'
  BY <1>6 DEF DrainLook
<1>7. ASSUME ReportFatal PROVE ReaderOutlivesProgram'
  BY <1>7 DEF ReportFatal, ReportFatalUnless
<1>8. ASSUME FatalRetire PROVE ReaderOutlivesProgram'
  BY <1>8 DEF FatalRetire
<1>9. ASSUME DrainError PROVE ReaderOutlivesProgram'
  BY <1>9 DEF DrainError
<1>10. ASSUME CloseSurface PROVE ReaderOutlivesProgram'
  BY <1>10 DEF CloseSurface
<1>11. ASSUME RetireSurface PROVE ReaderOutlivesProgram'
  BY <1>11 DEF RetireSurface
<1>12. ASSUME CloseFence PROVE ReaderOutlivesProgram'
  BY <1>12 DEF CloseFence, CloserLeaves
<1>13. ASSUME CloseStop PROVE ReaderOutlivesProgram'
  BY <1>13 DEF CloseStop, CloserLeaves
<1>14. ASSUME CloseJoin PROVE ReaderOutlivesProgram'
  BY <1>14 DEF CloseJoin, CloserLeaves
<1>15. ASSUME NEW c \in Connections, HandleAttach(c) PROVE ReaderOutlivesProgram'
  BY <1>15, AttachEffect
<1>16. ASSUME Elsewhere PROVE ReaderOutlivesProgram'
  BY <1>16, ElsewhereRests
<1>17. ASSUME \E c \in Connections : Detach(c) PROVE ReaderOutlivesProgram'
  BY <1>17 DEF Detach
<1>18. ASSUME UNCHANGED vars PROVE ReaderOutlivesProgram'
  BY <1>18 DEF vars
<1> QED BY <1>1, <1>2, <1>3, <1>4, <1>5, <1>6, <1>7, <1>8, <1>9, <1>10, <1>11, <1>12,
      <1>13, <1>14, <1>15, <1>16, <1>17, <1>18 DEF Next, Drain, Close, Handle, BridgeReads,
      Elsewhere

\* Connections are made in their order.
LEMMA MadeStep ==
  OwnerTypes /\ NotYetMade /\ [Next]_vars => NotYetMade'
<1> SUFFICES ASSUME OwnerTypes, NotYetMade, [Next]_vars PROVE NotYetMade'
  OBVIOUS
<1> USE BoundsAssumption DEF OwnerTypes, NotYetMade, Connections, appVars, ownerVars,
        readerVars, socketVars, bridgeVars
<1>1. ASSUME NEW c \in Connections, HandleAttach(c) PROVE NotYetMade'
  BY <1>1, AttachEffect
<1>2. ASSUME NEW c \in Connections, OnClose(c) PROVE NotYetMade'
  BY <1>2 DEF OnClose, OnCloseThen
<1>3. ASSUME NEW c \in Connections, Detach(c) PROVE NotYetMade'
  BY <1>3 DEF Detach
<1>4. ASSUME Connect PROVE NotYetMade'
  BY <1>4 DEF Connect
<1>5. ASSUME AppWrite \/ AppExit \/ DrainRead \/ DrainNothing \/ DrainStop \/
                DrainAppend PROVE NotYetMade'
  BY <1>5 DEF AppWrite, AppExit, DrainRead, DrainNothing, DrainStop, DrainAppend,
      DrainAppendTo
<1>6. ASSUME DrainLook \/ ReportFatal \/ FatalRetire \/ DrainError \/ CloseSurface \/
                RetireSurface PROVE NotYetMade'
  BY <1>6 DEF DrainLook, ReportFatal, ReportFatalUnless, FatalRetire, DrainError,
      CloseSurface, RetireSurface
<1>7. ASSUME \/ CloseFence \/ CloseStop \/ CloseJoin
             \/ \E c \in Connections : HandleInput(c)
             \/ \E c \in Connections : PumpSend(c)
             \/ \E c \in Connections : SocketLost(c)
     PROVE NotYetMade'
  BY <1>7 DEF CloseFence, CloserLeaves, CloseStop, CloseJoin, HandleInput, PumpSend,
      SocketLost
<1>8. ASSUME BridgeReads \/ BridgeInput \/ BridgeStop PROVE NotYetMade'
  BY <1>8, BridgeEffect
<1>9. ASSUME UNCHANGED vars PROVE NotYetMade'
  BY <1>9 DEF vars
<1> QED BY <1>1, <1>2, <1>3, <1>4, <1>5, <1>6, <1>7, <1>8, <1>9 DEF Next, Drain, Close,
      Handle

\* A handler has the attachment until it detaches, unless it is taken away.
LEMMA OwnerStep ==
  OwnerTypes /\ ClosedForGood /\ NotYetMade /\ AttachmentHasOwner /\ [Next]_vars => AttachmentHasOwner'
<1> SUFFICES ASSUME OwnerTypes, ClosedForGood, NotYetMade, AttachmentHasOwner, [Next]_vars
    PROVE AttachmentHasOwner'
  OBVIOUS
<1> USE BoundsAssumption DEF OwnerTypes, ClosedForGood, NotYetMade, AttachmentHasOwner,
        Connections, appVars, ownerVars, readerVars, socketVars, bridgeVars
<1>1. ASSUME DrainAppend PROVE AttachmentHasOwner'
  BY <1>1 DEF DrainAppend, DrainAppendTo
<1>2. ASSUME CloseFence PROVE AttachmentHasOwner'
  BY <1>2 DEF CloseFence, CloserLeaves
<1>3. ASSUME NEW c \in Connections, HandleAttach(c) PROVE AttachmentHasOwner'
  BY <1>3, AttachEffect
<1>4. ASSUME NEW c \in Connections, OnClose(c) PROVE AttachmentHasOwner'
  BY <1>4 DEF OnClose, OnCloseThen
<1>5. ASSUME NEW c \in Connections, Detach(c) PROVE AttachmentHasOwner'
  BY <1>5 DEF Detach
<1>6. ASSUME Connect PROVE AttachmentHasOwner'
  BY <1>6 DEF Connect
<1>7. ASSUME AppWrite \/ AppExit \/ DrainRead \/ DrainNothing \/ DrainStop \/
                DrainLook PROVE AttachmentHasOwner'
  BY <1>7 DEF AppWrite, AppExit, DrainRead, DrainNothing, DrainStop, DrainLook
<1>8. ASSUME ReportFatal \/ FatalRetire \/ DrainError \/ CloseSurface \/ RetireSurface
                \/ CloseStop PROVE AttachmentHasOwner'
  BY <1>8 DEF ReportFatal, ReportFatalUnless, FatalRetire, DrainError, CloseSurface,
      RetireSurface, CloseStop, CloserLeaves
<1>9. ASSUME \/ CloseJoin
             \/ \E c \in Connections : HandleInput(c)
             \/ \E c \in Connections : PumpSend(c)
             \/ \E c \in Connections : SocketLost(c)
     PROVE AttachmentHasOwner'
  BY <1>9 DEF CloseJoin, CloserLeaves, HandleInput, PumpSend, SocketLost
<1>10. ASSUME BridgeReads \/ BridgeInput \/ BridgeStop PROVE AttachmentHasOwner'
  BY <1>10, BridgeEffect
<1>11. ASSUME UNCHANGED vars PROVE AttachmentHasOwner'
  BY <1>11 DEF vars
<1> QED BY <1>1, <1>2, <1>3, <1>4, <1>5, <1>6, <1>7, <1>8, <1>9, <1>10, <1>11 DEF Next,
      Drain, Close, Handle

\* The invariant is inductive.
THEOREM OwnerInvariantHolds == Spec => []OwnerInvariant
<1>1. OwnerInvariant /\ [Next]_vars => OwnerInvariant'
  BY TypeStep, ClosedStep, ReaderStep, MadeStep, OwnerStep DEF OwnerInvariant
<1> QED BY InitInvariant, <1>1, PTL DEF Spec

-----------------------------------------------------------------------------
(* What follows from it.                                                   *)

\* No program lives behind a surface that the manager gave up.
THEOREM NoProcessIsLeft == Spec => []NoProcessAfterClose
<1>1. OwnerInvariant => NoProcessAfterClose
  BY DEF OwnerInvariant, ClosedForGood, NoProcessAfterClose
<1> QED BY OwnerInvariantHolds, <1>1, PTL

\* Whoever owns the attachment is attached or about to detach, unless its socket was
\* gone already when the handler answered, and the answer raised.
THEOREM AttachmentIsOwned == Spec => []AttachmentHasOwner
<1>1. OwnerInvariant => AttachmentHasOwner
  BY DEF OwnerInvariant
<1> QED BY OwnerInvariantHolds, <1>1, PTL

\* A program that has exited is found out, or its surface is closed anyway.
THEOREM ExitsAreNoticed == Spec => []ExitIsNoticed
<1>1. OwnerInvariant => ExitIsNoticed
  BY DEF OwnerInvariant, OwnerTypes, ReaderOutlivesProgram, ExitIsNoticed
<1> QED BY OwnerInvariantHolds, <1>1, PTL

-----------------------------------------------------------------------------
(* The stream: the inductive invariant behind StreamContiguous and         *)
(* BridgeNeverConfused.                                                    *)

\* A message is of what the reader put in order, and a notice has no bytes.  None says
\* that the bridge asked for what was never written.
InOrder(m, end) ==
  /\ m.to <= end /\ m.kind # "protocol_violation"
  /\ m.kind # "output" => m.from = m.to
Orderly(s, end) == Linked(s) /\ \A i \in 1 .. Len(s) : InOrder(s[i], end)

\* The window is the end of the stream, and what the reader holds comes after it.
WindowInvariant ==
  /\ Orderly(replay, next) /\ Last(replay, next) = next /\ Bytes(replay) <= ReplayLimit
  /\ reader = "appending" => next < taken

\* A queue goes on where the wire stands, as long as there is one, and that of the
\* attachment has all that the reader put in order since.
QueueInvariant ==
  \A c \in Connections :
    /\ Orderly(queue[c], next)
    /\ attachment = c /\ queue[c] # <<>> => Last(queue[c], next) = next
    /\ socket[c] = "up" => First(queue[c], sent[c]) = sent[c]
    /\ socket[c] = "up" /\ attachment = c /\ queue[c] = <<>> => sent[c] = next

WireInvariant ==
  \A c \in Connections :
    /\ Orderly(wire[c], next) /\ sent[c] <= next
    /\ socket[c] = "up" => Last(wire[c], sent[c]) = sent[c]

\* The wire goes on where the terminal stands, also after its socket was lost.  The
\* answer to an attach comes before the bytes.
BridgeInvariant ==
  /\ shown <= next
  /\ bridge \in {"attaching", "attached"} =>
       /\ conn \in Connections
       /\ First(wire[conn], shown) = shown
       /\ socket[conn] = "up" /\ wire[conn] = <<>> => sent[conn] = shown
  /\ bridge = "attaching" =>
       /\ wire[conn] # <<>> => wire[conn][1].kind # "output"
       /\ pump[conn] /\ socket[conn] = "up" => wire[conn] # <<>>
  /\ BridgeNeverConfused

\* A connection that is still to be made has carried nothing.
Unused == \A c \in Connections : c > conn => queue[c] = <<>> /\ wire[c] = <<>> /\ ~pump[c]

\* The types that ownership is not about.
StreamTypes ==
  /\ written \in Positions /\ taken \in Positions /\ next \in Positions /\ shown \in Positions
  /\ replay \in Seq(Message)
  /\ queue \in [Connections -> Seq(Message)] /\ wire \in [Connections -> Seq(Message)]
  /\ socket \in [Connections -> {"none", "up", "down"}]
  /\ inbox \in [Connections -> Seq(Request)] /\ sent \in [Connections -> Positions]
  /\ bridge \in {"apart", "attaching", "attached", "ended"}
  /\ verdict \in {"none", "gap", "early output", "wrong cursor", "lost before attachment",
                  "stopped"} \cup Final

StreamInvariant ==
  /\ StreamTypes /\ WindowInvariant /\ QueueInvariant /\ WireInvariant
  /\ BridgeInvariant /\ Unused

-----------------------------------------------------------------------------
(* Sequences of messages.                                                  *)

LEMMA PositionsAreNumbers ==
  /\ \A p \in Positions : p \in Nat /\ p \in Int /\ p <= p /\ p <= MaxByte
  /\ 0 \in Positions
  BY BoundsAssumption DEF Positions

\* Chunks and notices are messages.
LEMMA ChunksAreMessages ==
  /\ \A from, to \in Positions : Chunk(from, to) \in Message
  /\ \A kind \in Kinds, at \in Positions : Notice(kind, at) \in Message
  BY DEF Chunk, Notice, Message, Kinds

\* What is in order stays so as the stream goes on.
LEMMA OrderlyGrows ==
  ASSUME NEW s \in Seq(Message), NEW e \in Positions, NEW f \in Positions, e <= f, Orderly(s, e)
  PROVE  Orderly(s, f)
<1>1. \A i \in 1 .. Len(s) : s[i] \in Message
  OBVIOUS
<1>2. \A i \in 1 .. Len(s) : s[i].to \in Positions
  BY <1>1 DEF Message
<1> QED BY <1>2, PositionsAreNumbers DEF Orderly, InOrder

\* Nothing is in order.
LEMMA EmptyIsOrderly ==
  ASSUME NEW e
  PROVE  /\ Orderly(<<>>, e) /\ <<>> \in Seq(Message)
         /\ \A at : First(<<>>, at) = at /\ Last(<<>>, at) = at
  BY DEF Orderly, Linked, First, Last

\* A message that goes on where a sequence ends.
LEMMA OrderlyAppend ==
  ASSUME NEW s \in Seq(Message), NEW m \in Message, NEW e,
         Orderly(s, e), InOrder(m, e), Last(s, m.from) = m.from
  PROVE  /\ Append(s, m) \in Seq(Message) /\ Append(s, m) # <<>>
         /\ Orderly(Append(s, m), e)
         /\ \A x : Last(Append(s, m), x) = m.to
         /\ \A x : s # <<>> => First(Append(s, m), x) = First(s, x) /\ Append(s, m)[1] = s[1]
         /\ \A x : s = <<>> => First(Append(s, m), x) = m.from /\ Append(s, m)[1] = m
<1>1. /\ Append(s, m) \in Seq(Message) /\ Append(s, m) # <<>>
      /\ Len(s) \in Nat /\ Len(Append(s, m)) = Len(s) + 1
      /\ \A i \in 1 .. Len(s) : Append(s, m)[i] = s[i]
      /\ Append(s, m)[Len(s) + 1] = m
  <2>1. /\ Append(s, m) \in Seq(Message) /\ Len(s) \in Nat /\ Len(Append(s, m)) = Len(s) + 1
        /\ \A i \in 1 .. Len(s) : Append(s, m)[i] = s[i]
        /\ Append(s, m)[Len(s) + 1] = m
    OBVIOUS
  <2>2. Append(s, m) # <<>>
    BY <2>1, Len(<<>>) = 0
  <2> QED BY <2>1, <2>2
<1>2. s # <<>> => Len(s) \in 1 .. Len(s) /\ 1 \in 1 .. Len(s)
  OBVIOUS
<1>3. s = <<>> => Len(s) = 0
  OBVIOUS
<1>4. \A i \in 1 .. Len(s) + 1 : i \in 1 .. Len(s) \/ i = Len(s) + 1
  BY <1>1
<1>5. \A i \in 1 .. Len(Append(s, m)) : InOrder(Append(s, m)[i], e)
  BY <1>1, <1>4 DEF Orderly
<1>6. Linked(Append(s, m))
  <2> SUFFICES ASSUME NEW i \in 1 .. Len(Append(s, m)) - 1
               PROVE  Append(s, m)[i].to = Append(s, m)[i + 1].from
    BY DEF Linked
  <2>1. CASE i \in 1 .. Len(s) - 1
    <3>1. i \in 1 .. Len(s) /\ i + 1 \in 1 .. Len(s)
      BY <1>1, <2>1
    <3> QED BY <1>1, <2>1, <3>1 DEF Orderly, Linked
  <2>2. CASE i = Len(s)
    <3>1. s # <<>>
      BY <1>1, <1>3, <2>2
    <3> QED BY <1>1, <1>2, <2>2, <3>1 DEF Last
  <2> QED BY <1>1, <2>1, <2>2
<1>7. \A x : Last(Append(s, m), x) = m.to
  BY <1>1 DEF Last
<1>8. \A x : s # <<>> => First(Append(s, m), x) = First(s, x) /\ Append(s, m)[1] = s[1]
  BY <1>1, <1>2 DEF First
<1>9. \A x : s = <<>> => First(Append(s, m), x) = m.from /\ Append(s, m)[1] = m
  BY <1>1, <1>3 DEF First
<1> QED BY <1>1, <1>5, <1>6, <1>7, <1>8, <1>9 DEF Orderly

\* What is left of a sequence whose first messages are dropped.
LEMMA OrderlySuffix ==
  ASSUME NEW s \in Seq(Message), NEW e, Orderly(s, e), NEW m \in 0 .. Len(s) - 1
  PROVE  LET r == SubSeq(s, m + 1, Len(s)) IN
         /\ r \in Seq(Message) /\ r # <<>> /\ Orderly(r, e) /\ \A x, y : Last(r, x) = Last(s, y)
<1> DEFINE r == SubSeq(s, m + 1, Len(s))
<1>1. /\ Len(s) \in Nat /\ m \in Nat /\ r \in Seq(Message) /\ Len(r) = Len(s) - m
      /\ \A i \in 1 .. Len(r) : i + m \in 1 .. Len(s) /\ r[i] = s[i + m]
  OBVIOUS
<1>2. Len(r) \in 1 .. Len(r) /\ r # <<>> /\ s # <<>>
  <2> HIDE DEF r
  <2>1. Len(r) > 0 /\ Len(s) > 0
    BY <1>1
  <2> QED BY <1>1, <2>1, Len(<<>>) = 0
<1>3. \A x, y : Last(r, x) = Last(s, y)
  BY <1>1, <1>2 DEF Last
<1>4. Linked(r)
  <2> SUFFICES ASSUME NEW i \in 1 .. Len(r) - 1 PROVE r[i].to = r[i + 1].from
    BY DEF Linked
  <2>1. /\ i \in 1 .. Len(r) /\ i + 1 \in 1 .. Len(r)
        /\ i + m \in 1 .. Len(s) - 1 /\ (i + m) + 1 = (i + 1) + m
    BY <1>1
  <2>2. s[i + m].to = s[(i + m) + 1].from
    BY <2>1 DEF Orderly, Linked
  <2> QED BY <1>1, <2>1, <2>2
<1>5. \A i \in 1 .. Len(r) : InOrder(r[i], e)
  BY <1>1 DEF Orderly
<1> QED BY <1>1, <1>2, <1>3, <1>4, <1>5 DEF Orderly

\* The first message, and the rest.
LEMMA OrderlyTail ==
  ASSUME NEW s \in Seq(Message), NEW e, Orderly(s, e), s # <<>>
  PROVE  /\ Head(s) \in Message /\ InOrder(Head(s), e) /\ Head(s) = s[1]
         /\ \A x : First(s, x) = Head(s).from
         /\ Tail(s) \in Seq(Message) /\ Orderly(Tail(s), e)
         /\ First(Tail(s), Head(s).to) = Head(s).to
         /\ Tail(s) # <<>> => \A x, y : Last(Tail(s), x) = Last(s, y)
         /\ Tail(s) = <<>> => \A y : Last(s, y) = Head(s).to
<1>1. /\ Head(s) \in Message /\ Head(s) = s[1] /\ Tail(s) \in Seq(Message)
      /\ Len(s) \in Nat /\ 1 \in 1 .. Len(s) /\ Len(Tail(s)) = Len(s) - 1
      /\ \A i \in 1 .. Len(Tail(s)) : i + 1 \in 1 .. Len(s) /\ Tail(s)[i] = s[i + 1]
  OBVIOUS
<1>2. Tail(s) = <<>> => Len(s) = 1
  BY <1>1
<1>3. Tail(s) # <<>> => Len(Tail(s)) \in 1 .. Len(Tail(s)) /\ 1 \in 1 .. Len(Tail(s))
  BY <1>1
<1>4. Linked(Tail(s))
  <2> SUFFICES ASSUME NEW i \in 1 .. Len(Tail(s)) - 1 PROVE Tail(s)[i].to = Tail(s)[i + 1].from
    BY DEF Linked
  <2>1. i \in 1 .. Len(Tail(s)) /\ i + 1 \in 1 .. Len(Tail(s)) /\ i + 1 \in 1 .. Len(s) - 1
    BY <1>1
  <2>2. s[i + 1].to = s[(i + 1) + 1].from
    BY <2>1 DEF Orderly, Linked
  <2> QED BY <1>1, <2>1, <2>2
<1>5. \A i \in 1 .. Len(Tail(s)) : InOrder(Tail(s)[i], e)
  BY <1>1 DEF Orderly
<1>6. First(Tail(s), Head(s).to) = Head(s).to
  <2>1. ASSUME Tail(s) # <<>> PROVE Tail(s)[1].from = Head(s).to
    <3>1. 1 \in 1 .. Len(s) - 1 /\ 1 + 1 = 2 /\ Tail(s)[1] = s[2]
      BY <1>1, <1>3, <2>1
    <3>2. s[1].to = s[1 + 1].from
      BY <3>1 DEF Orderly, Linked
    <3> QED BY <1>1, <3>1, <3>2
  <2> QED BY <2>1 DEF First
<1>7. Tail(s) # <<>> => \A x, y : Last(Tail(s), x) = Last(s, y)
  BY <1>1, <1>3 DEF Last
<1>8. Tail(s) = <<>> => \A y : Last(s, y) = Head(s).to
  BY <1>1, <1>2 DEF Last
<1> QED BY <1>1, <1>4, <1>5, <1>6, <1>7, <1>8 DEF Orderly, First

-----------------------------------------------------------------------------
(* What steps do to the stream, one kind of step after the other.          *)

\* Steps that carry nothing: an attachment may end, and so may a pump or a socket.
StreamRests ==
  /\ UNCHANGED <<streamVars, queue, wire, sent, bridgeVars>>
  /\ attachment' \in {attachment, 0}
  /\ \A c \in Connections : (pump'[c] => pump[c]) /\ (socket'[c] = "up" => socket[c] = "up")
  /\ reader' = "appending" => reader = "appending"
  /\ written' \in Positions
  /\ socket' \in [Connections -> {"none", "up", "down"}]
  /\ inbox' \in [Connections -> Seq(Request)]

LEMMA ConnectionsAreNumbers ==
  /\ 0 \notin Connections /\ (\A c \in Connections : c \in Nat) /\ MaxConnection \in Nat
  /\ \A n \in 0 .. MaxConnection : n # 0 => n \in Connections
  BY BoundsAssumption DEF Connections

LEMMA RestsKept == StreamInvariant /\ StreamRests => StreamInvariant'
<1> SUFFICES ASSUME StreamInvariant, StreamRests PROVE StreamInvariant'
  OBVIOUS
<1> USE DEF StreamInvariant, StreamRests, streamVars, bridgeVars
<1>1. StreamTypes'
  BY DEF StreamTypes
<1>2. WindowInvariant'
  BY DEF WindowInvariant
<1>3. QueueInvariant'
  BY ConnectionsAreNumbers DEF QueueInvariant
<1>4. WireInvariant'
  BY DEF WireInvariant
<1>5. BridgeInvariant'
  BY DEF BridgeInvariant, BridgeNeverConfused
<1>6. Unused'
  BY DEF Unused
<1> QED BY <1>1, <1>2, <1>3, <1>4, <1>5, <1>6

\* The owner of the attachment is a connection that was made.
LEMMA OwnerIsMade ==
  ASSUME OwnerInvariant, attachment # 0
  PROVE  attachment \in Connections /\ attachment <= conn /\ conn \in Nat
<1>1. attachment \in Connections /\ conn \in 0 .. MaxConnection
  BY ConnectionsAreNumbers DEF OwnerInvariant, OwnerTypes
<1>2. attachment \in Nat /\ conn \in Nat
  BY <1>1, ConnectionsAreNumbers
<1>3. ~(attachment > conn)
  BY <1>1 DEF OwnerInvariant, NotYetMade, AttachmentHasOwner
<1> QED BY <1>1, <1>2, <1>3

\* What the reader puts into the queue of the attachment goes on where the queue ends.
LEMMA QueueGrows ==
  ASSUME OwnerInvariant, StreamInvariant, attachment # 0,
         NEW m \in Message, NEW end \in Positions, next <= end,
         InOrder(m, end), m.from = next, m.to = end \/ attachment' = 0,
         queue' = [queue EXCEPT ![attachment] = Append(@, m)],
         next' = end, attachment' \in {attachment, 0}, UNCHANGED <<socket, sent>>
  PROVE  queue' \in [Connections -> Seq(Message)] /\ QueueInvariant'
<1>1. attachment \in Connections
  BY OwnerIsMade
<1> DEFINE q == queue[attachment]
<1>2. q \in Seq(Message) /\ Orderly(q, end)
  BY <1>1, OrderlyGrows DEF StreamInvariant, StreamTypes, QueueInvariant
<1>3. Last(q, m.from) = m.from
  BY <1>1 DEF StreamInvariant, QueueInvariant, Last
<1>4. /\ Append(q, m) \in Seq(Message) /\ Append(q, m) # <<>> /\ Orderly(Append(q, m), end)
      /\ \A x : Last(Append(q, m), x) = m.to
      /\ \A x : q # <<>> => First(Append(q, m), x) = First(q, x)
      /\ \A x : q = <<>> => First(Append(q, m), x) = m.from
  <2> HIDE DEF q
  <2> QED BY <1>2, <1>3, OrderlyAppend
<1> USE DEF StreamInvariant, StreamTypes, QueueInvariant
<1>5. /\ queue'[attachment] = Append(q, m) /\ queue' \in [Connections -> Seq(Message)]
      /\ \A c \in Connections : c # attachment => queue'[c] = queue[c]
  BY <1>1, <1>4
<1>6. ASSUME NEW c \in Connections, c # attachment
      PROVE  /\ Orderly(queue'[c], end) /\ attachment' # c
             /\ socket'[c] = "up" => First(queue'[c], sent'[c]) = sent'[c]
  <2>1. queue[c] \in Seq(Message) /\ queue'[c] = queue[c]
    BY <1>5, <1>6
  <2>2. Orderly(queue[c], end)
    BY <2>1, OrderlyGrows
  <2> QED BY <1>6, <2>1, <2>2, ConnectionsAreNumbers
<1>7. socket[attachment] = "up" => First(Append(q, m), sent[attachment]) = sent[attachment]
  BY <1>1, <1>4
<1>8. QueueInvariant'
  <2> HIDE DEF q
  <2> SUFFICES ASSUME NEW c \in Connections
               PROVE  /\ Orderly(queue'[c], next')
                      /\ attachment' = c /\ queue'[c] # <<>> => Last(queue'[c], next') = next'
                      /\ socket'[c] = "up" => First(queue'[c], sent'[c]) = sent'[c]
                      /\ socket'[c] = "up" /\ attachment' = c /\ queue'[c] = <<>> => sent'[c] = next'
    BY DEF QueueInvariant
  <2>1. CASE c # attachment
    BY <1>6, <2>1
  <2>2. CASE c = attachment
    BY <1>4, <1>5, <1>7, <2>2
  <2> QED BY <2>1, <2>2
<1> QED BY <1>5, <1>8

\* When the reader moves on the other parts stay right.
LEMMA OthersGrow ==
  ASSUME StreamInvariant, NEW end \in Positions, next <= end, next' = end,
         UNCHANGED <<wire, sent, socket, pump, bridgeVars>>
  PROVE  WireInvariant' /\ BridgeInvariant'
<1>1. /\ next \in Nat /\ end \in Nat /\ shown \in Nat
      /\ \A c \in Connections : sent[c] \in Nat /\ wire[c] \in Seq(Message)
      /\ next \in Positions
  BY PositionsAreNumbers DEF StreamInvariant, StreamTypes
<1>2. /\ \A c \in Connections : Orderly(wire[c], next) /\ sent[c] <= next
      /\ shown <= next
  BY DEF StreamInvariant, WireInvariant, BridgeInvariant
<1>3. \A c \in Connections : Orderly(wire[c], end)
  BY <1>1, <1>2, OrderlyGrows
<1>4. shown <= end /\ \A c \in Connections : sent[c] <= end
  BY <1>1, <1>2
<1>5. WireInvariant'
  BY <1>3, <1>4 DEF StreamInvariant, WireInvariant
<1>6. BridgeInvariant'
  BY <1>4 DEF StreamInvariant, BridgeInvariant, BridgeNeverConfused, bridgeVars
<1> QED BY <1>5, <1>6

\* A notice of the reader.
LEMMA NoticeKept ==
  ASSUME OwnerInvariant, StreamInvariant, Notify(next), reader' # "appending",
         UNCHANGED <<written, streamVars, attachment, pump, socket, inbox, wire, sent, bridgeVars>>
  PROVE  StreamInvariant'
<1> USE DEF StreamInvariant, streamVars
<1>1. CASE attachment # 0 /\ Len(queue[attachment]) < QueueLimit
  <2> DEFINE m == Notice("channel_closed", next)
  <2>1. next \in Positions
    BY DEF StreamTypes
  <2>2. m \in Message
    BY <2>1, ChunksAreMessages DEF Kinds, Retryable
  <2>3. m.from = next /\ m.to = next /\ InOrder(m, next) /\ next <= next
    BY <2>1, PositionsAreNumbers DEF Notice, InOrder
  <2>4. queue' = [queue EXCEPT ![attachment] = Append(@, m)]
    BY <1>1 DEF Notify
  <2>5. queue' \in [Connections -> Seq(Message)] /\ QueueInvariant'
    <3> HIDE DEF m
    <3> QED BY <1>1, <2>1, <2>2, <2>3, <2>4, QueueGrows
  <2>6. \A c \in Connections : c > conn => queue'[c] = queue[c]
    <3>1. \A c \in Connections : c > conn => c # attachment
      BY <1>1, OwnerIsMade, ConnectionsAreNumbers
    <3> QED BY <2>4, <3>1 DEF StreamTypes
  <2>7. StreamTypes' /\ WindowInvariant' /\ WireInvariant'
    BY <2>5 DEF StreamTypes, WindowInvariant, WireInvariant, bridgeVars
  <2>8. BridgeInvariant' /\ Unused'
    BY <2>6 DEF BridgeInvariant, BridgeNeverConfused, Unused, bridgeVars
  <2> QED BY <2>5, <2>7, <2>8
<1>2. CASE UNCHANGED queue
  <2>1. StreamRests
    BY <1>2 DEF StreamRests, StreamTypes
  <2> QED BY <2>1, RestsKept
<1> QED BY <1>1, <1>2 DEF Notify

\* read() returned more of what the program wrote.
LEMMA DrainReadKept == StreamInvariant /\ DrainRead => StreamInvariant'
<1> SUFFICES ASSUME StreamInvariant, DrainRead PROVE StreamInvariant'
  OBVIOUS
<1> USE DEF StreamInvariant, DrainRead, appVars, ownerVars, socketVars, bridgeVars
<1>1. PICK to \in next + 1 .. written : taken' = to
  OBVIOUS
<1>2. next < to /\ to \in Positions
  <2>1. next \in Nat /\ written \in Nat /\ written <= MaxByte /\ MaxByte \in Nat
    BY PositionsAreNumbers, BoundsAssumption DEF StreamTypes
  <2> QED BY <1>1, <2>1 DEF Positions
<1>3. StreamTypes' /\ WindowInvariant' /\ QueueInvariant'
  BY <1>1, <1>2 DEF StreamTypes, WindowInvariant, QueueInvariant
<1>4. WireInvariant' /\ BridgeInvariant' /\ Unused'
  BY DEF WireInvariant, BridgeInvariant, BridgeNeverConfused, Unused
<1> QED BY <1>3, <1>4

\* The window after a chunk more: its end is the end of the stream.
LEMMA WindowGrows ==
  ASSUME StreamInvariant, reader = "appending", AppendReplay(Chunk(next, taken))
  PROVE  /\ replay' \in Seq(Message) /\ Orderly(replay', taken)
         /\ Last(replay', taken) = taken /\ Bytes(replay') <= ReplayLimit
<1> DEFINE chunk == Chunk(next, taken)
           all == Append(replay, chunk)
           tail == Chunk(taken - ReplayLimit, taken)
<1>1. /\ next \in Nat /\ taken \in Nat /\ next < taken /\ ReplayLimit \in Nat
      /\ next \in Positions /\ taken \in Positions
  BY PositionsAreNumbers, LimitsAssumption DEF StreamInvariant, StreamTypes, WindowInvariant
<1>2. /\ chunk \in Message /\ chunk.from = next /\ chunk.to = taken /\ InOrder(chunk, taken)
  BY <1>1, ChunksAreMessages DEF Chunk, InOrder
<1>3. /\ replay \in Seq(Message) /\ Orderly(replay, taken)
      /\ Last(replay, chunk.from) = chunk.from
  <2>1. replay \in Seq(Message) /\ Orderly(replay, next) /\ Last(replay, next) = next
    BY DEF StreamInvariant, StreamTypes, WindowInvariant
  <2>2. next <= taken
    BY <1>1
  <2> QED BY <1>1, <1>2, <2>1, <2>2, OrderlyGrows
<1>4. /\ all \in Seq(Message) /\ all # <<>> /\ Orderly(all, taken) /\ \A x : Last(all, x) = taken
  <2> HIDE DEF chunk
  <2> QED BY <1>2, <1>3, OrderlyAppend
<1>5. Len(all) = Len(replay) + 1 /\ Len(replay) \in Nat
  BY <1>2, <1>3
<1>6. CASE chunk.to - chunk.from > ReplayLimit
  <2>1. replay' = <<tail>>
    BY <1>2, <1>6 DEF AppendReplay, AppendReplayWith
  <2>2. taken - ReplayLimit \in Positions /\ taken \in Positions
    BY <1>1, <1>2, <1>6, BoundsAssumption DEF Positions
  <2>3. tail \in Message /\ tail.to = taken /\ tail.from = taken - ReplayLimit /\ InOrder(tail, taken)
    BY <1>1, <2>2, ChunksAreMessages DEF Chunk, InOrder
  <2> HIDE DEF tail
  <2>4. replay' \in Seq(Message) /\ Len(replay') = 1 /\ replay'[1] = tail /\ replay' # <<>>
    BY <2>1, <2>3
  <2>5. Orderly(replay', taken)
    BY <2>3, <2>4 DEF Orderly, Linked
  <2>6. Last(replay', taken) = taken /\ Bytes(replay') = ReplayLimit
    BY <1>1, <2>3, <2>4 DEF Last, Bytes
  <2> QED BY <1>1, <2>4, <2>5, <2>6
<1>7. CASE ~(chunk.to - chunk.from > ReplayLimit)
  <2>1. PICK m \in 0 .. Len(replay) : /\ Bytes(SubSeq(all, m + 1, Len(all))) <= ReplayLimit
                                      /\ replay' = SubSeq(all, m + 1, Len(all))
    BY <1>7 DEF AppendReplay, AppendReplayWith
  <2>2. m \in 0 .. Len(all) - 1
    BY <1>5
  <2> HIDE DEF all
  <2>3. /\ SubSeq(all, m + 1, Len(all)) \in Seq(Message)
        /\ Orderly(SubSeq(all, m + 1, Len(all)), taken)
        /\ \A x, y : Last(SubSeq(all, m + 1, Len(all)), x) = Last(all, y)
    BY <1>4, <2>2, OrderlySuffix
  <2> QED BY <1>4, <2>1, <2>3
<1> QED BY <1>6, <1>7

\* A chunk goes to the window and to the attachment, which may lose its place.
LEMMA DrainAppendKept == OwnerInvariant /\ StreamInvariant /\ DrainAppend => StreamInvariant'
<1> SUFFICES ASSUME OwnerInvariant, StreamInvariant, DrainAppend PROVE StreamInvariant'
  OBVIOUS
<1> DEFINE chunk == Chunk(next, taken)
           notice == Notice("channel_closed", next)
<1>0. /\ next' = taken /\ reader = "appending" /\ reader' = "reading" /\ AppendReplay(chunk)
      /\ \/ /\ attachment # 0 /\ Len(queue[attachment]) < QueueLimit
            /\ queue' = [queue EXCEPT ![attachment] = Append(@, chunk)] /\ UNCHANGED attachment
         \/ UNCHANGED queue /\ attachment' = 0
         \/ /\ attachment # 0 /\ attachment' = 0
            /\ queue' = [queue EXCEPT ![attachment] = Append(@, notice)]
      /\ UNCHANGED <<written, taken, pump, socket, inbox, wire, sent, bridgeVars>>
  <2>1. /\ next' = taken /\ reader = "appending" /\ reader' = "reading" /\ AppendReplay(chunk)
        /\ UNCHANGED <<written, taken, pump, socket, inbox, wire, sent, bridgeVars>>
    BY DEF DrainAppend, DrainAppendTo, appVars, socketVars
  <2>2. CASE attachment # 0 /\ Len(queue[attachment]) < QueueLimit
    BY <2>1, <2>2 DEF DrainAppend, DrainAppendTo
  <2>3. CASE ~(attachment # 0 /\ Len(queue[attachment]) < QueueLimit)
    <3>1. attachment' = 0 /\ (Notify(next) \/ NotifyLate(next))
      BY <2>3 DEF DrainAppend, DrainAppendTo
    <3>2. CASE Notify(next)
      BY <2>1, <2>3, <3>1, <3>2 DEF Notify
    <3>3. CASE NotifyLate(next)
      BY <2>1, <3>1, <3>3 DEF NotifyLate
    <3> QED BY <3>1, <3>2, <3>3
  <2> QED BY <2>2, <2>3
<1>1. /\ next \in Positions /\ taken \in Positions /\ next < taken /\ next \in Nat /\ taken \in Nat
  BY <1>0, PositionsAreNumbers DEF StreamInvariant, StreamTypes, WindowInvariant
<1>9. next <= taken
  BY <1>1
<1>2. chunk \in Message /\ chunk.from = next /\ chunk.to = taken /\ InOrder(chunk, taken)
  BY <1>1, PositionsAreNumbers, ChunksAreMessages DEF Chunk, InOrder
<1>3. /\ replay' \in Seq(Message) /\ Orderly(replay', taken)
      /\ Last(replay', taken) = taken /\ Bytes(replay') <= ReplayLimit
  BY <1>0, WindowGrows
<1>4. WindowInvariant'
  BY <1>0, <1>3 DEF WindowInvariant
<1>5. WireInvariant' /\ BridgeInvariant'
  BY <1>0, <1>1, <1>9, OthersGrow
<1>6. CASE /\ attachment # 0 /\ Len(queue[attachment]) < QueueLimit
            /\ queue' = [queue EXCEPT ![attachment] = Append(@, chunk)] /\ UNCHANGED attachment
  <2>1. queue' \in [Connections -> Seq(Message)] /\ QueueInvariant'
    <3> HIDE DEF chunk
    <3> QED BY <1>0, <1>1, <1>2, <1>6, <1>9, QueueGrows
  <2>2. \A c \in Connections : c > conn => c # attachment
    BY <1>6, OwnerIsMade, ConnectionsAreNumbers
  <2>3. Unused'
    BY <1>0, <1>6, <2>2 DEF StreamInvariant, StreamTypes, Unused, bridgeVars
  <2>4. StreamTypes'
    BY <1>0, <1>1, <1>3, <2>1 DEF StreamInvariant, StreamTypes, bridgeVars
  <2> QED BY <1>4, <1>5, <2>1, <2>3, <2>4 DEF StreamInvariant
<1>8. CASE /\ attachment # 0 /\ attachment' = 0
            /\ queue' = [queue EXCEPT ![attachment] = Append(@, notice)]
  <2>1. notice \in Message /\ notice.from = next /\ InOrder(notice, taken)
    <3>1. notice \in Message
      BY <1>1, ChunksAreMessages DEF Kinds, Retryable
    <3> QED BY <1>1, <3>1 DEF Notice, InOrder
  <2>2. queue' \in [Connections -> Seq(Message)] /\ QueueInvariant'
    <3> HIDE DEF notice
    <3> QED BY <1>0, <1>1, <1>8, <1>9, <2>1, QueueGrows
  <2>3. \A c \in Connections : c > conn => c # attachment
    BY <1>8, OwnerIsMade, ConnectionsAreNumbers
  <2>4. Unused'
    BY <1>0, <1>8, <2>3 DEF StreamInvariant, StreamTypes, Unused, bridgeVars
  <2>5. StreamTypes'
    BY <1>0, <1>1, <1>3, <2>2 DEF StreamInvariant, StreamTypes, bridgeVars
  <2> QED BY <1>4, <1>5, <2>2, <2>4, <2>5 DEF StreamInvariant
<1>7. CASE UNCHANGED queue /\ attachment' = 0
  <2>1. \A c \in Connections : Orderly(queue[c], taken)
    BY <1>1, <1>9, OrderlyGrows DEF StreamInvariant, StreamTypes, QueueInvariant
  <2>2. QueueInvariant'
    BY <1>0, <1>7, <2>1, ConnectionsAreNumbers DEF StreamInvariant, QueueInvariant
  <2>3. StreamTypes' /\ Unused'
    BY <1>0, <1>1, <1>3, <1>7 DEF StreamInvariant, StreamTypes, Unused, bridgeVars
  <2> QED BY <1>4, <1>5, <2>2, <2>3 DEF StreamInvariant
<1> QED BY <1>0, <1>6, <1>7, <1>8

\* What a message adds to the wire of a connection, if its socket is up.
LEMMA SendEffect ==
  ASSUME StreamInvariant, NEW c \in Connections, NEW m \in Message, Send(c, m)
  PROVE  /\ wire' \in [Connections -> Seq(Message)]
         /\ sent' \in [Connections -> Positions]
         /\ \A d \in Connections : d # c => wire'[d] = wire[d] /\ sent'[d] = sent[d]
         /\ socket[c] = "up" => wire'[c] = Append(wire[c], m) /\ sent'[c] = m.to
         /\ socket[c] # "up" => wire'[c] = wire[c] /\ sent'[c] = sent[c]
<1>1. /\ wire \in [Connections -> Seq(Message)] /\ sent \in [Connections -> Positions]
      /\ m.to \in Positions
  BY DEF StreamInvariant, StreamTypes, Message
<1>2. Append(wire[c], m) \in Seq(Message)
  BY <1>1
<1> QED BY <1>1, <1>2 DEF Send

\* The wire after a message that goes on where the wire ends, and the bridge: it gets no
\* bytes before the answer to its attach.
LEMMA SendKept ==
  ASSUME StreamInvariant, NEW c \in Connections, NEW m \in Message, Send(c, m),
         InOrder(m, next), socket[c] = "up" => m.from = sent[c],
         m.kind = "output" => pump[c],
         \A d \in Connections : d # c => pump'[d] = pump[d],
         UNCHANGED <<next, socket, bridgeVars>>
  PROVE  /\ wire' \in [Connections -> Seq(Message)] /\ sent' \in [Connections -> Positions]
         /\ WireInvariant' /\ BridgeInvariant'
<1>1. /\ wire' \in [Connections -> Seq(Message)] /\ sent' \in [Connections -> Positions]
      /\ \A d \in Connections : d # c => wire'[d] = wire[d] /\ sent'[d] = sent[d]
      /\ socket[c] = "up" => wire'[c] = Append(wire[c], m) /\ sent'[c] = m.to
      /\ socket[c] # "up" => wire'[c] = wire[c] /\ sent'[c] = sent[c]
  BY SendEffect DEF StreamInvariant, StreamTypes
<1>2. ASSUME socket[c] = "up"
      PROVE  /\ Append(wire[c], m) # <<>> /\ Orderly(Append(wire[c], m), next)
             /\ \A x : Last(Append(wire[c], m), x) = m.to
             /\ \A x : wire[c] # <<>> => /\ First(Append(wire[c], m), x) = First(wire[c], x)
                                         /\ Append(wire[c], m)[1] = wire[c][1]
             /\ \A x : wire[c] = <<>> => /\ First(Append(wire[c], m), x) = m.from
                                         /\ Append(wire[c], m)[1] = m
  <2>1. /\ wire[c] \in Seq(Message) /\ Orderly(wire[c], next)
        /\ Last(wire[c], m.from) = m.from
    BY <1>2 DEF StreamInvariant, StreamTypes, WireInvariant
  <2> DEFINE w == wire[c]
  <2> HIDE DEF w
  <2>2. w \in Seq(Message) /\ Orderly(w, next) /\ Last(w, m.from) = m.from
    BY <2>1 DEF w
  <2>3. /\ Append(w, m) # <<>> /\ Orderly(Append(w, m), next)
        /\ \A x : Last(Append(w, m), x) = m.to
        /\ \A x : w # <<>> => First(Append(w, m), x) = First(w, x) /\ Append(w, m)[1] = w[1]
        /\ \A x : w = <<>> => First(Append(w, m), x) = m.from /\ Append(w, m)[1] = m
    BY <2>2, OrderlyAppend
  <2> QED BY <2>3 DEF w
<1>3. m.to <= next
  BY DEF InOrder
<1>4. WireInvariant'
  <2>1. ASSUME NEW d \in Connections
        PROVE  /\ Orderly(wire[d], next) /\ sent[d] <= next
               /\ socket[d] = "up" => Last(wire[d], sent[d]) = sent[d]
    BY DEF StreamInvariant, WireInvariant
  <2>2. ASSUME NEW d \in Connections
        PROVE  /\ Orderly(wire'[d], next) /\ sent'[d] <= next
               /\ socket[d] = "up" => Last(wire'[d], sent'[d]) = sent'[d]
    <3>1. CASE d # c
      BY <1>1, <2>1, <3>1
    <3>2. CASE d = c /\ socket[c] # "up"
      BY <1>1, <2>1, <3>2
    <3>3. CASE d = c /\ socket[c] = "up"
      <4>1. Orderly(wire'[c], next) /\ Last(wire'[c], sent'[c]) = m.to
        BY <1>1, <1>2, <3>3
      <4>2. sent'[c] = m.to
        BY <1>1, <3>3
      <4> QED BY <1>3, <3>3, <4>1, <4>2
    <3> QED BY <3>1, <3>2, <3>3
  <2> QED BY <2>2 DEF WireInvariant
<1>5. BridgeInvariant'
  <2> USE DEF StreamInvariant, BridgeInvariant, BridgeNeverConfused, bridgeVars
  <2>1. CASE conn # c \/ bridge \notin {"attaching", "attached"} \/ socket[c] # "up"
    BY <1>1, <2>1
  <2>2. CASE conn = c /\ bridge \in {"attaching", "attached"} /\ socket[c] = "up"
    <3>1. wire'[c] # <<>> /\ wire'[c] = Append(wire[c], m)
      BY <1>1, <1>2, <2>2
    <3>2. First(wire'[c], shown) = shown
      <4>1. wire[c] = <<>> => m.from = shown
        BY <2>2
      <4> QED BY <1>2, <2>2, <3>1, <4>1
    <3>3. bridge = "attaching" => wire'[c][1].kind # "output"
      BY <1>2, <2>2, <3>1
    <3> QED BY <2>2, <3>1, <3>2, <3>3
  <2> QED BY <2>1, <2>2
<1> QED BY <1>1, <1>4, <1>5

\* What is left to see to when a message is sent: the queues.
LEMMA SendCompletes ==
  ASSUME StreamInvariant, NEW c \in Connections, NEW m \in Message, Send(c, m), ~(c > conn),
         InOrder(m, next), socket[c] = "up" => m.from = sent[c],
         m.kind = "output" => pump[c],
         \A d \in Connections : d # c => pump'[d] = pump[d],
         UNCHANGED <<written, streamVars, socket, bridgeVars>>,
         inbox' \in [Connections -> Seq(Request)], reader' = "appending" => reader = "appending",
         queue' \in [Connections -> Seq(Message)], QueueInvariant',
         \A d \in Connections : d # c => queue'[d] = queue[d]
  PROVE  StreamInvariant'
<1>1. UNCHANGED <<taken, next, replay, bridge, conn, shown, verdict>>
  BY DEF streamVars, bridgeVars
<1>2. /\ wire' \in [Connections -> Seq(Message)] /\ sent' \in [Connections -> Positions]
      /\ WireInvariant' /\ BridgeInvariant'
  BY <1>1, SendKept
<1>3. \A d \in Connections : d # c => wire'[d] = wire[d]
  BY SendEffect
<1>4. StreamTypes' /\ WindowInvariant'
  BY <1>1, <1>2 DEF StreamInvariant, StreamTypes, WindowInvariant
<1>5. Unused'
  BY <1>1, <1>3 DEF StreamInvariant, Unused
<1> QED BY <1>2, <1>4, <1>5 DEF StreamInvariant

\* A notice stands where the wire stands, and leaves it there.
LEMMA NoticeSentKept ==
  ASSUME StreamInvariant, NEW c \in Connections, ~(c > conn),
         NEW kind \in Kinds \ {"protocol_violation", "output"}, Send(c, Notice(kind, sent[c])),
         UNCHANGED <<written, streamVars, socket, bridgeVars>>,
         inbox' \in [Connections -> Seq(Request)], reader' = "appending" => reader = "appending",
         \A d \in Connections : d # c => queue'[d] = queue[d] /\ pump'[d] = pump[d],
         queue' \in [Connections -> Seq(Message)],
         UNCHANGED sent => QueueInvariant'
  PROVE  StreamInvariant'
<1> DEFINE m == Notice(kind, sent[c])
<1>1. sent[c] \in Positions /\ sent[c] <= next /\ sent \in [Connections -> Positions]
  BY DEF StreamInvariant, StreamTypes, WireInvariant
<1>2. /\ m \in Message /\ m.from = sent[c] /\ m.to = sent[c] /\ InOrder(m, next)
      /\ m.kind # "output" /\ Send(c, m)
  BY <1>1, ChunksAreMessages DEF Notice, InOrder
<1> HIDE DEF m
<1>3. UNCHANGED sent
  BY <1>1, <1>2 DEF Send
<1> QED BY <1>2, <1>3, SendCompletes

\* A request that is taken from the inbox.
LEMMA TakesKept ==
  ASSUME StreamInvariant, NEW c \in Connections, NEW request, Takes(c, request)
  PROVE  inbox' \in [Connections -> Seq(Request)]
<1>1. inbox[c] \in Seq(Request) /\ inbox[c] # <<>> /\ inbox \in [Connections -> Seq(Request)]
  BY DEF StreamInvariant, StreamTypes, Takes
<1>2. Tail(inbox[c]) \in Seq(Request)
  BY <1>1
<1> QED BY <1>1, <1>2 DEF Takes

\* A connection with a handler was made.
LEMMA HandledIsMade ==
  ASSUME OwnerInvariant, NEW c \in Connections, handler[c] # "none"
  PROVE  ~(c > conn)
  BY DEF OwnerInvariant, NotYetMade

\* Input for an attachment that is no longer in charge is answered with a notice.
LEMMA HandleInputKept ==
  ASSUME OwnerInvariant, StreamInvariant, NEW c \in Connections, HandleInput(c)
  PROVE  StreamInvariant'
<1>1. inbox' \in [Connections -> Seq(Request)] /\ ~(c > conn)
  BY TakesKept, HandledIsMade DEF HandleInput
<1>2. UNCHANGED <<written, streamVars, attachment, queue, reader, pump, socket, bridgeVars>>
  BY DEF HandleInput, appVars, readerVars
<1>3. queue \in [Connections -> Seq(Message)] /\ QueueInvariant
  BY DEF StreamInvariant, StreamTypes
<1>4. UNCHANGED sent => QueueInvariant'
  BY <1>2, <1>3 DEF QueueInvariant, streamVars
<1>5. CASE UNCHANGED <<wire, sent>>
  <2>1. StreamRests
    BY <1>1, <1>2, <1>5 DEF StreamRests, StreamInvariant, StreamTypes
  <2> QED BY <2>1, RestsKept
<1>6. CASE Send(c, Notice("channel_closed", sent[c]))
  <2>1. "channel_closed" \in Kinds \ {"protocol_violation", "output"}
    BY DEF Kinds, Retryable, Final
  <2> QED BY <1>1, <1>2, <1>3, <1>4, <1>6, <2>1, NoticeSentKept
<1>7. CASE Send(c, Notice("not_found", sent[c]))
  <2>1. "not_found" \in Kinds \ {"protocol_violation", "output"}
    BY DEF Kinds, Retryable, Final
  <2> QED BY <1>1, <1>2, <1>3, <1>4, <1>7, <2>1, NoticeSentKept
<1> QED BY <1>5, <1>6, <1>7 DEF HandleInput

\* What an attachment is given of the window goes on where the bridge stands.
LEMMA ReplayGoesOn ==
  ASSUME StreamInvariant, NEW at \in Positions, at \in Earliest .. next,
         NEW m \in 0 .. Len(replay),
         \A i \in 1 .. Len(replay) : replay[i].to <= at <=> i <= m
  PROVE  LET r == Replayed(m, at) IN
         /\ r \in Seq(Message) /\ Orderly(r, next)
         /\ r # <<>> => Last(r, next) = next
         /\ First(r, at) = at /\ (r = <<>> => at = next)
<1> DEFINE r == Replayed(m, at)
           n == Len(replay)
           piece(i) == Chunk(IF replay[i].from < at THEN at ELSE replay[i].from, replay[i].to)
<1>1. /\ replay \in Seq(Message) /\ next \in Positions /\ next \in Nat /\ at \in Nat
      /\ Linked(replay) /\ Last(replay, next) = next
      /\ \A i \in 1 .. n : InOrder(replay[i], next)
  BY PositionsAreNumbers DEF StreamInvariant, StreamTypes, WindowInvariant, Orderly
<1>2. /\ n \in Nat /\ m \in Nat /\ m <= n
      /\ \A i \in 1 .. n : replay[i] \in Message
  BY <1>1
<1>3. \A i \in 1 .. n : /\ replay[i].from \in Positions /\ replay[i].to \in Positions
                        /\ replay[i].from \in Nat /\ replay[i].to \in Nat
                        /\ replay[i].to <= next
  BY <1>1, <1>2, PositionsAreNumbers DEF Message, InOrder
<1>4. \A i \in 1 .. n : /\ piece(i) \in Message /\ piece(i).to = replay[i].to
                        /\ piece(i).from = (IF replay[i].from < at THEN at ELSE replay[i].from)
                        /\ InOrder(piece(i), next)
  BY <1>3, ChunksAreMessages DEF Chunk, InOrder
<1>5. \A i \in 1 .. n - m : m + i \in 1 .. n
  BY <1>2
<1>6. r = [i \in 1 .. n - m |-> piece(m + i)]
  BY DEF Replayed
<1>7. n - m \in Nat
  BY <1>2
<1> HIDE DEF piece, r
<1>8. /\ r \in Seq(Message) /\ Len(r) = n - m
      /\ \A i \in 1 .. n - m : r[i] = piece(m + i)
  BY <1>4, <1>5, <1>6, <1>7
<1>9. \A i \in 1 .. n - 1 : replay[i].to = replay[i + 1].from
  BY <1>1 DEF Linked
<1>10. Linked(r)
  <2> SUFFICES ASSUME NEW i \in 1 .. Len(r) - 1 PROVE r[i].to = r[i + 1].from
    BY DEF Linked
  <2>1. /\ i \in 1 .. n - m /\ i + 1 \in 1 .. n - m /\ m + i \in 1 .. n - 1 /\ m + i \in 1 .. n
        /\ (m + i) + 1 = m + (i + 1) /\ m + (i + 1) \in 1 .. n /\ ~(m + i <= m)
    BY <1>2, <1>8
  <2>2. ~(replay[m + i].to <= at) /\ replay[m + i].to = replay[m + (i + 1)].from
    BY <1>9, <2>1
  <2>3. piece(m + (i + 1)).from = replay[m + (i + 1)].from
    BY <1>1, <1>3, <1>4, <2>1, <2>2
  <2> QED BY <1>4, <1>8, <2>1, <2>2, <2>3
<1>11. Orderly(r, next)
  BY <1>4, <1>5, <1>8, <1>10 DEF Orderly
<1>12. ASSUME n = m PROVE r = <<>> /\ at = next
  <2>1. r = <<>>
    BY <1>2, <1>8, <1>12
  <2>2. at = next
    <3>1. CASE replay = <<>>
      BY <1>1, <3>1 DEF Earliest
    <3>2. CASE replay # <<>>
      <4>1. n \in 1 .. n
        BY <1>2, <3>2, <1>1
      <4>2. replay[n].to <= at
        BY <1>2, <1>12, <4>1
      <4>3. Last(replay, next) = replay[n].to
        BY <3>2 DEF Last
      <4> QED BY <1>1, <1>3, <4>1, <4>2, <4>3
    <3> QED BY <3>1, <3>2
  <2> QED BY <2>1, <2>2
<1>13. ASSUME n # m PROVE r # <<>> /\ Last(r, next) = next /\ First(r, at) = at
  <2>1. /\ n - m \in 1 .. n - m /\ 1 \in 1 .. n - m /\ m + (n - m) = n /\ n \in 1 .. n
        /\ m + 1 \in 1 .. n /\ ~(m + 1 <= m)
    BY <1>2, <1>13
  <2>2. r # <<>> /\ replay # <<>>
    BY <1>8, <2>1, Len(<<>>) = 0
  <2>3. Last(r, next) = next
    BY <1>1, <1>4, <1>8, <2>1, <2>2 DEF Last
  <2>4. replay[m + 1].from <= at
    <3>1. CASE m = 0
      BY <1>1, <2>2, <3>1 DEF Earliest
    <3>2. CASE m # 0
      <4>1. m \in 1 .. n - 1 /\ m \in 1 .. n /\ m <= m
        BY <1>2, <1>13, <3>2
      <4> QED BY <1>9, <4>1
    <3> QED BY <3>1, <3>2
  <2>5. piece(m + 1).from = at
    BY <1>1, <1>3, <1>4, <2>1, <2>4
  <2>6. First(r, at) = at
    <3>0. 1 \in 1 .. n - m
      BY <2>1
    <3>1. r[1] = piece(m + 1)
      BY <1>8, <3>0
    <3> QED BY <2>2, <2>5, <3>1 DEF First
  <2> QED BY <2>2, <2>3, <2>6
<1>14. /\ r \in Seq(Message) /\ Orderly(r, next)
       /\ r # <<>> => Last(r, next) = next
       /\ First(r, at) = at /\ (r = <<>> => at = next)
  BY <1>8, <1>11, <1>12, <1>13 DEF First
<1> QED BY <1>14 DEF r

\* An attach that is refused, or that gets what the window holds of what is missing.
LEMMA HandleAttachKept ==
  ASSUME OwnerInvariant, StreamInvariant, NEW c \in Connections, HandleAttach(c)
  PROVE  StreamInvariant'
<1>1. inbox' \in [Connections -> Seq(Request)] /\ ~(c > conn) /\ handler[c] = "open"
  BY TakesKept, HandledIsMade DEF HandleAttach
<1>2. UNCHANGED <<written, streamVars, socket, bridgeVars>>
  BY DEF HandleAttach
<1>3. /\ sent[c] \in Positions /\ sent[c] <= next /\ sent[c] \in Nat /\ next \in Nat
      /\ queue \in [Connections -> Seq(Message)] /\ QueueInvariant
      /\ pump \in [Connections -> BOOLEAN]
  BY PositionsAreNumbers
     DEF OwnerInvariant, OwnerTypes, StreamInvariant, StreamTypes, WireInvariant
<1>4. UNCHANGED next
  BY <1>2 DEF streamVars
<1>5. ASSUME NEW kind \in Kinds \ {"protocol_violation", "output"},
             Send(c, Notice(kind, sent[c])), UNCHANGED <<attachment, queue, reader, pump>>
      PROVE  StreamInvariant'
  <2>1. UNCHANGED sent => QueueInvariant'
    BY <1>2, <1>3, <1>4, <1>5 DEF QueueInvariant
  <2> QED BY <1>1, <1>2, <1>3, <1>5, <2>1, NoticeSentKept
<1>6. CASE AttachRefused(c)
  <2>1. PICK reason \in Retryable \cup Final :
          /\ reason # "protocol_violation" \/ sent[c] > next
          /\ Send(c, Notice(reason, sent[c]))
          /\ UNCHANGED <<attachment, queue, reader, pump>>
    BY <1>6 DEF AttachRefused
  <2>2. reason \in Kinds \ {"protocol_violation", "output"}
    BY <1>3, <2>1 DEF Kinds, Retryable, Final
  <2> QED BY <1>5, <2>1, <2>2
<1>7. CASE Attach(c)
  <2>1. PICK m \in 0 .. Len(replay) :
          /\ \A i \in 1 .. Len(replay) : replay[i].to <= sent[c] <=> i <= m
          /\ \/ /\ attachment' = c /\ queue' = [queue EXCEPT ![c] = Replayed(m, sent[c])]
                /\ reader' = IF reader = "none" THEN "reading" ELSE reader
                /\ pump' = [pump EXCEPT ![c] = socket[c] = "up"]
                /\ Send(c, Notice("attached", sent[c]))
             \/ /\ Send(c, Notice("channel_closed", sent[c]))
                /\ UNCHANGED <<attachment, queue, reader, pump>>
    BY <1>7 DEF Attach, AttachIf
  <2>2. sent[c] \in Earliest .. next
    BY <1>7 DEF Attach, AttachIf
  <2>3. /\ "channel_closed" \in Kinds \ {"protocol_violation", "output"}
        /\ "attached" \in Kinds \ {"protocol_violation", "output"}
    BY DEF Kinds, Retryable, Final
  <2>4. CASE /\ attachment' = c /\ queue' = [queue EXCEPT ![c] = Replayed(m, sent[c])]
             /\ reader' = IF reader = "none" THEN "reading" ELSE reader
             /\ pump' = [pump EXCEPT ![c] = socket[c] = "up"]
             /\ Send(c, Notice("attached", sent[c]))
    <3> DEFINE r == Replayed(m, sent[c])
    <3>1. /\ r \in Seq(Message) /\ Orderly(r, next)
          /\ r # <<>> => Last(r, next) = next
          /\ First(r, sent[c]) = sent[c] /\ (r = <<>> => sent[c] = next)
      BY <1>3, <2>1, <2>2, ReplayGoesOn
    <3> HIDE DEF r
    <3>2. /\ queue' \in [Connections -> Seq(Message)] /\ queue'[c] = r
          /\ \A d \in Connections : d # c => queue'[d] = queue[d] /\ pump'[d] = pump[d]
      BY <1>3, <2>4, <3>1 DEF r
    <3>3. ASSUME UNCHANGED sent, NEW d \in Connections
          PROVE  /\ Orderly(queue'[d], next)
                 /\ attachment' = d /\ queue'[d] # <<>> => Last(queue'[d], next) = next
                 /\ socket[d] = "up" => First(queue'[d], sent[d]) = sent[d]
                 /\ socket[d] = "up" /\ attachment' = d /\ queue'[d] = <<>> => sent[d] = next
      <4>1. CASE d = c
        BY <3>1, <3>2, <4>1
      <4>2. CASE d # c
        BY <1>3, <2>4, <3>2, <4>2 DEF QueueInvariant
      <4> QED BY <4>1, <4>2
    <3>4. UNCHANGED sent => QueueInvariant'
      BY <1>2, <1>4, <3>3 DEF QueueInvariant
    <3>5. reader' = "appending" => reader = "appending"
      BY <2>4
    <3> QED BY <1>1, <1>2, <2>3, <2>4, <3>2, <3>4, <3>5, NoticeSentKept
  <2>5. CASE /\ Send(c, Notice("channel_closed", sent[c]))
             /\ UNCHANGED <<attachment, queue, reader, pump>>
    BY <1>5, <2>3, <2>5
  <2> QED BY <2>1, <2>4, <2>5
<1> QED BY <1>6, <1>7 DEF HandleAttach

\* The pump takes from the queue what it puts on the wire.
LEMMA PumpSendKept ==
  ASSUME OwnerInvariant, StreamInvariant, NEW c \in Connections, PumpSend(c)
  PROVE  StreamInvariant'
<1> DEFINE q == queue[c]
<1>1. /\ pump[c] /\ q # <<>> /\ Send(c, Head(q)) /\ queue' = [queue EXCEPT ![c] = Tail(q)]
      /\ \A d \in Connections : d # c => pump'[d] = pump[d]
      /\ UNCHANGED <<written, streamVars, attachment, reader, socket, inbox, bridgeVars>>
  BY DEF PumpSend, appVars, readerVars, OwnerInvariant, OwnerTypes
<1>2. /\ queue \in [Connections -> Seq(Message)] /\ QueueInvariant
      /\ inbox \in [Connections -> Seq(Request)] /\ ~(c > conn)
  BY <1>1 DEF StreamInvariant, StreamTypes, Unused
<1>3. q \in Seq(Message) /\ Orderly(q, next)
  BY <1>2 DEF QueueInvariant
<1> HIDE DEF q
<1>4. /\ Head(q) \in Message /\ InOrder(Head(q), next)
      /\ \A x : First(q, x) = Head(q).from
      /\ Tail(q) \in Seq(Message) /\ Orderly(Tail(q), next)
      /\ First(Tail(q), Head(q).to) = Head(q).to
      /\ Tail(q) # <<>> => \A x, y : Last(Tail(q), x) = Last(q, y)
      /\ Tail(q) = <<>> => \A y : Last(q, y) = Head(q).to
  BY <1>1, <1>3, OrderlyTail
<1>5. socket[c] = "up" => Head(q).from = sent[c]
  <2>1. socket[c] = "up" => First(q, sent[c]) = sent[c]
    BY <1>2 DEF QueueInvariant, q
  <2> QED BY <1>4, <2>1
<1>6. attachment = c => Last(q, next) = next
  BY <1>1, <1>2 DEF QueueInvariant, q
<1>7. /\ queue' \in [Connections -> Seq(Message)] /\ queue'[c] = Tail(q)
      /\ \A d \in Connections : d # c => queue'[d] = queue[d]
  BY <1>1, <1>2, <1>4
<1>8. /\ \A d \in Connections : d # c => sent'[d] = sent[d]
      /\ socket[c] = "up" => sent'[c] = Head(q).to
  BY <1>1, <1>4, SendEffect
<1>9. UNCHANGED <<next, attachment, socket>>
  BY <1>1 DEF streamVars
<1>10. ASSUME NEW d \in Connections
       PROVE  /\ Orderly(queue'[d], next)
              /\ attachment = d /\ queue'[d] # <<>> => Last(queue'[d], next) = next
              /\ socket[d] = "up" => First(queue'[d], sent'[d]) = sent'[d]
              /\ socket[d] = "up" /\ attachment = d /\ queue'[d] = <<>> => sent'[d] = next
  <2>1. CASE d = c
    BY <1>4, <1>6, <1>7, <1>8, <2>1
  <2>2. CASE d # c
    BY <1>2, <1>7, <1>8, <2>2 DEF QueueInvariant
  <2> QED BY <2>1, <2>2
<1>11. QueueInvariant'
  BY <1>9, <1>10 DEF QueueInvariant
<1> QED BY <1>1, <1>2, <1>4, <1>5, <1>7, <1>11, SendCompletes

\* A connection that detaches leaves its queue behind.
LEMMA DetachKept ==
  ASSUME OwnerInvariant, StreamInvariant, NEW c \in Connections, Detach(c)
  PROVE  StreamInvariant'
<1>1. /\ queue' = [queue EXCEPT ![c] = <<>>]
      /\ attachment' \in {attachment, 0} /\ attachment' # c
      /\ UNCHANGED <<written, taken, next, replay, reader, pump, socket, inbox, wire, sent,
                     bridge, conn, shown, verdict>>
  <2>1. attachment = c => listed
    BY ConnectionsAreNumbers DEF OwnerInvariant, ClosedForGood
  <2> QED BY <2>1, ConnectionsAreNumbers
         DEF Detach, appVars, streamVars, readerVars, bridgeVars
<1>2. queue \in [Connections -> Seq(Message)] /\ QueueInvariant
  BY DEF StreamInvariant, StreamTypes
<1>3. /\ queue' \in [Connections -> Seq(Message)] /\ queue'[c] = <<>>
      /\ \A d \in Connections : d # c => queue'[d] = queue[d]
  BY <1>1, <1>2, EmptyIsOrderly
<1>4. ASSUME NEW d \in Connections
      PROVE  /\ Orderly(queue'[d], next)
             /\ attachment' = d /\ queue'[d] # <<>> => Last(queue'[d], next) = next
             /\ socket[d] = "up" => First(queue'[d], sent[d]) = sent[d]
             /\ socket[d] = "up" /\ attachment' = d /\ queue'[d] = <<>> => sent[d] = next
  <2>1. CASE d = c
    BY <1>1, <1>3, <2>1, EmptyIsOrderly
  <2>2. CASE d # c
    BY <1>1, <1>2, <1>3, <2>2, ConnectionsAreNumbers DEF QueueInvariant
  <2> QED BY <2>1, <2>2
<1>5. QueueInvariant'
  BY <1>1, <1>4 DEF QueueInvariant
<1>6. StreamTypes' /\ WindowInvariant' /\ WireInvariant'
  BY <1>1, <1>3 DEF StreamInvariant, StreamTypes, WindowInvariant, WireInvariant
<1>7. BridgeInvariant' /\ Unused'
  BY <1>1, <1>3 DEF StreamInvariant, BridgeInvariant, BridgeNeverConfused, Unused
<1> QED BY <1>5, <1>6, <1>7 DEF StreamInvariant

\* A new connection begins where the terminal stands.
LEMMA ConnectKept == OwnerInvariant /\ StreamInvariant /\ Connect => StreamInvariant'
<1> SUFFICES ASSUME OwnerInvariant, StreamInvariant, Connect PROVE StreamInvariant'
  OBVIOUS
<1> DEFINE c == conn + 1
<1>1. /\ c \in Connections /\ bridge = "apart" /\ bridge' = "attaching" /\ conn' = c
      /\ socket' = [socket EXCEPT ![c] = "up"] /\ inbox' = [inbox EXCEPT ![c] = <<"attach">>]
      /\ sent' = [sent EXCEPT ![c] = shown]
      /\ UNCHANGED <<written, taken, next, replay, attachment, queue, reader, pump, wire, shown,
                     verdict>>
  BY DEF Connect, appVars, streamVars, readerVars
<1>2. conn \in Nat /\ c > conn /\ \A d \in Connections : d > c => d > conn
  <2>1. conn \in Nat
    BY BoundsAssumption DEF OwnerInvariant, OwnerTypes
  <2> QED BY <2>1, ConnectionsAreNumbers
<1> HIDE DEF c
<1>3. queue[c] = <<>> /\ wire[c] = <<>> /\ ~pump[c]
  BY <1>1, <1>2 DEF StreamInvariant, Unused
<1>4. attachment # c
  <2>1. CASE attachment = 0
    BY <1>1, <2>1, ConnectionsAreNumbers
  <2>2. CASE attachment # 0
    <3>1. attachment <= conn /\ attachment \in Nat /\ c \in Nat
      BY <1>1, <2>2, OwnerIsMade, ConnectionsAreNumbers
    <3> QED BY <1>2, <3>1
  <2> QED BY <2>1, <2>2
<1>5. <<"attach">> \in Seq(Request) /\ shown \in Positions /\ shown <= next
  <2>1. "attach" \in Request
    BY DEF Request
  <2>2. <<"attach">> \in Seq(Request)
    BY <2>1
  <2>3. shown \in Positions /\ shown <= next
    BY DEF StreamInvariant, StreamTypes, BridgeInvariant
  <2> QED BY <2>2, <2>3
<1>6. StreamTypes' /\ WindowInvariant'
  BY <1>1, <1>5 DEF StreamInvariant, StreamTypes, WindowInvariant
<1>7. /\ sent'[c] = shown /\ socket'[c] = "up"
      /\ \A d \in Connections : d # c => sent'[d] = sent[d] /\ socket'[d] = socket[d]
  BY <1>1 DEF StreamInvariant, StreamTypes
<1>8. QueueInvariant'
  <2>1. ASSUME NEW d \in Connections
        PROVE  /\ Orderly(queue[d], next)
               /\ attachment = d /\ queue[d] # <<>> => Last(queue[d], next) = next
               /\ socket'[d] = "up" => First(queue[d], sent'[d]) = sent'[d]
               /\ socket'[d] = "up" /\ attachment = d /\ queue[d] = <<>> => sent'[d] = next
    <3>1. CASE d = c
      BY <1>3, <1>4, <3>1, EmptyIsOrderly
    <3>2. CASE d # c
      BY <1>7, <3>2 DEF StreamInvariant, QueueInvariant
    <3> QED BY <3>1, <3>2
  <2> QED BY <1>1, <2>1 DEF QueueInvariant
<1>9. WireInvariant'
  <2>1. ASSUME NEW d \in Connections
        PROVE  /\ Orderly(wire[d], next) /\ sent'[d] <= next
               /\ socket'[d] = "up" => Last(wire[d], sent'[d]) = sent'[d]
    <3>1. CASE d = c
      BY <1>3, <1>5, <1>7, <3>1, EmptyIsOrderly
    <3>2. CASE d # c
      BY <1>7, <3>2 DEF StreamInvariant, WireInvariant
    <3> QED BY <3>1, <3>2
  <2> QED BY <1>1, <2>1 DEF WireInvariant
<1>10. BridgeInvariant'
  BY <1>1, <1>3, <1>5, <1>7, EmptyIsOrderly
     DEF StreamInvariant, BridgeInvariant, BridgeNeverConfused
<1>11. Unused'
  BY <1>1, <1>2 DEF StreamInvariant, Unused
<1> QED BY <1>6, <1>8, <1>9, <1>10, <1>11 DEF StreamInvariant

\* What the bridge leaves alone when it reads its socket.
ServiceRests ==
  UNCHANGED <<written, taken, next, replay, attachment, queue, reader, pump, inbox, sent, conn>>

\* The bridge takes a message from the wire, and goes on where it ends.
LEMMA TakeKept ==
  ASSUME StreamInvariant, ServiceRests, bridge \in {"attaching", "attached"},
         wire[conn] # <<>>, TakeMessage, bridge' = "attached", UNCHANGED verdict,
         shown' = Head(wire[conn]).to
  PROVE  StreamInvariant'
<1> DEFINE w == wire[conn]
<1>1. /\ conn \in Connections /\ w \in Seq(Message) /\ Orderly(w, next) /\ w # <<>>
      /\ First(w, shown) = shown /\ wire \in [Connections -> Seq(Message)]
  BY DEF StreamInvariant, StreamTypes, WireInvariant, BridgeInvariant
<1> HIDE DEF w
<1>2. /\ Head(w) \in Message /\ InOrder(Head(w), next)
      /\ Tail(w) \in Seq(Message) /\ Orderly(Tail(w), next)
      /\ First(Tail(w), Head(w).to) = Head(w).to
      /\ Tail(w) # <<>> => \A x, y : Last(Tail(w), x) = Last(w, y)
      /\ Tail(w) = <<>> => \A y : Last(w, y) = Head(w).to
  BY <1>1, OrderlyTail
<1>3. /\ wire' \in [Connections -> Seq(Message)] /\ wire'[conn] = Tail(w)
      /\ \A d \in Connections : d # conn => wire'[d] = wire[d]
      /\ UNCHANGED socket /\ shown' = Head(w).to
  BY <1>1, <1>2 DEF TakeMessage, w
<1>4. Head(w).to \in Positions /\ Head(w).to <= next
  BY <1>2 DEF Message, InOrder
<1>5. StreamTypes' /\ WindowInvariant' /\ QueueInvariant'
  BY <1>3, <1>4 DEF StreamInvariant, StreamTypes, WindowInvariant, QueueInvariant, ServiceRests
<1>6. socket[conn] = "up" => Last(w, sent[conn]) = sent[conn]
  BY <1>1 DEF StreamInvariant, WireInvariant, w
<1>7. Tail(w) # <<>> => Last(Tail(w), sent[conn]) = Last(w, sent[conn])
  BY <1>2
<1>8. /\ socket[conn] = "up" => Last(Tail(w), sent[conn]) = sent[conn]
      /\ socket[conn] = "up" /\ Tail(w) = <<>> => sent[conn] = Head(w).to
  BY <1>2, <1>6, <1>7 DEF Last
<1>9. WireInvariant'
  <2>1. ASSUME NEW d \in Connections
        PROVE  /\ Orderly(wire'[d], next) /\ sent[d] <= next
               /\ socket[d] = "up" => Last(wire'[d], sent[d]) = sent[d]
    <3>1. CASE d = conn
      BY <1>2, <1>3, <1>8, <3>1 DEF StreamInvariant, WireInvariant
    <3>2. CASE d # conn
      BY <1>3, <3>2 DEF StreamInvariant, WireInvariant
    <3> QED BY <3>1, <3>2
  <2> QED BY <1>3, <2>1 DEF WireInvariant, ServiceRests
<1>10. BridgeInvariant'
  BY <1>1, <1>2, <1>3, <1>4, <1>8
     DEF StreamInvariant, BridgeInvariant, BridgeNeverConfused, ServiceRests
<1>11. \A d \in Connections : d > conn => d # conn
  BY <1>1, ConnectionsAreNumbers
<1>12. Unused'
  BY <1>3, <1>11 DEF StreamInvariant, Unused, ServiceRests
<1> QED BY <1>5, <1>9, <1>10, <1>12 DEF StreamInvariant

\* The bridge gives its connection up.
LEMMA HangUpKept ==
  ASSUME StreamInvariant, ServiceRests, HangUp, bridge \in {"attaching", "attached"},
         bridge' \in {"apart", "ended"}, UNCHANGED shown,
         verdict' \in {"none", "lost before attachment", "stopped"} \cup (Final \ {"protocol_violation"})
           \/ UNCHANGED verdict
  PROVE  StreamInvariant'
<1>1. conn \in Connections
  BY DEF StreamInvariant, BridgeInvariant
<1>2. /\ socket' \in [Connections -> {"none", "up", "down"}] /\ socket'[conn] = "down"
      /\ wire' \in [Connections -> Seq(Message)] /\ wire'[conn] = <<>>
      /\ \A d \in Connections : d # conn => wire'[d] = wire[d] /\ socket'[d] = socket[d]
  BY <1>1, EmptyIsOrderly DEF StreamInvariant, StreamTypes, HangUp
<1>3. StreamTypes' /\ WindowInvariant'
  BY <1>2 DEF StreamInvariant, StreamTypes, WindowInvariant, ServiceRests
<1>4. \A d \in Connections : socket'[d] = "up" => socket[d] = "up"
  BY <1>2
<1>5. QueueInvariant'
  BY <1>4 DEF StreamInvariant, QueueInvariant, ServiceRests
<1>6. WireInvariant'
  <2>1. ASSUME NEW d \in Connections
        PROVE  /\ Orderly(wire'[d], next) /\ sent[d] <= next
               /\ socket'[d] = "up" => Last(wire'[d], sent[d]) = sent[d]
    <3>1. CASE d = conn
      BY <1>2, <3>1, EmptyIsOrderly DEF StreamInvariant, WireInvariant
    <3>2. CASE d # conn
      BY <1>2, <3>2 DEF StreamInvariant, WireInvariant
    <3> QED BY <3>1, <3>2
  <2> QED BY <2>1 DEF WireInvariant, ServiceRests
<1>7. BridgeInvariant'
  BY DEF StreamInvariant, BridgeInvariant, BridgeNeverConfused, ServiceRests, Final
<1>8. Unused'
  BY <1>2 DEF StreamInvariant, Unused, ServiceRests
<1> QED BY <1>3, <1>5, <1>6, <1>7, <1>8 DEF StreamInvariant

\* What the bridge finds on the wire starts where the terminal stands, and is no bytes
\* before the attachment.
LEMMA WireGoesOn ==
  ASSUME StreamInvariant, bridge \in {"attaching", "attached"}, wire[conn] # <<>>
  PROVE  /\ Head(wire[conn]).from = shown /\ Head(wire[conn]).kind # "protocol_violation"
         /\ Head(wire[conn]).kind # "output" => Head(wire[conn]).to = shown
         /\ bridge = "attaching" => Head(wire[conn]).kind # "output"
<1> DEFINE w == wire[conn]
<1>1. /\ conn \in Connections /\ w \in Seq(Message) /\ Orderly(w, next) /\ w # <<>>
      /\ First(w, shown) = shown
      /\ bridge = "attaching" => w[1].kind # "output"
  BY DEF StreamInvariant, StreamTypes, WireInvariant, BridgeInvariant
<1> HIDE DEF w
<1>2. InOrder(Head(w), next) /\ Head(w) = w[1] /\ First(w, shown) = Head(w).from
  BY <1>1, OrderlyTail
<1>3. /\ Head(w).from = shown /\ Head(w).kind # "protocol_violation"
      /\ Head(w).kind # "output" => Head(w).to = shown
      /\ bridge = "attaching" => Head(w).kind # "output"
  BY <1>1, <1>2 DEF InOrder
<1> QED BY <1>3 DEF w

\* The bridge reads its socket, loses it or is closed.
LEMMA BridgeKept ==
  StreamInvariant /\ (BridgeReads \/ BridgeStop) => StreamInvariant'
<1> SUFFICES ASSUME StreamInvariant, BridgeReads \/ BridgeStop PROVE StreamInvariant'
  OBVIOUS
<1>1. ServiceRests /\ bridge \in {"attaching", "attached"}
  BY DEF BridgeReads, BridgeAttached, BridgeOutput, BridgeOutputTo, BridgeRejected, BridgeLost,
     BridgeStop, ReadWire, ServiceRests, serviceVars, appVars, streamVars, readerVars
<1>2. CASE BridgeAttached
  <2>1. /\ wire[conn] # <<>> /\ Head(wire[conn]).kind = "attached"
    BY <1>2 DEF BridgeAttached, ReadWire
  <2>2. Head(wire[conn]).from = shown /\ Head(wire[conn]).to = shown
    BY <1>1, <2>1, WireGoesOn
  <2>3. TakeMessage /\ bridge' = "attached" /\ UNCHANGED verdict /\ shown' = shown
    BY <1>2, <2>2 DEF BridgeAttached
  <2> QED BY <1>1, <2>1, <2>2, <2>3, TakeKept
<1>3. CASE BridgeOutput
  <2>1. /\ wire[conn] # <<>> /\ Head(wire[conn]).kind = "output"
    BY <1>3 DEF BridgeOutput, BridgeOutputTo, ReadWire
  <2>2. Head(wire[conn]).from = shown /\ bridge = "attached"
    BY <1>1, <2>1, WireGoesOn
  <2>3. /\ TakeMessage /\ bridge' = "attached" /\ UNCHANGED verdict
        /\ shown' = Head(wire[conn]).to
    BY <1>3, <2>2 DEF BridgeOutput, BridgeOutputTo
  <2> QED BY <1>1, <2>1, <2>3, TakeKept
<1>4. CASE BridgeRejected
  <2>1. wire[conn] # <<>> /\ Head(wire[conn]).kind \in Retryable \cup Final
    BY <1>4 DEF BridgeRejected, ReadWire
  <2>2. Head(wire[conn]).kind # "protocol_violation"
    BY <1>1, <2>1, WireGoesOn
  <2>3. /\ HangUp /\ bridge' \in {"apart", "ended"} /\ UNCHANGED shown
        /\ verdict' \in Final \ {"protocol_violation"} \/ UNCHANGED verdict
    BY <1>4, <2>1, <2>2 DEF BridgeRejected, Retries, GivesUp
  <2> QED BY <1>1, <2>3, HangUpKept
<1>5. CASE BridgeLost \/ BridgeStop
  <2>1. /\ HangUp /\ bridge' \in {"apart", "ended"} /\ UNCHANGED shown
        /\ verdict' \in {"lost before attachment", "stopped"} \/ UNCHANGED verdict
    BY <1>5 DEF BridgeLost, BridgeStop, Retries, GivesUp
  <2> QED BY <1>1, <2>1, HangUpKept
<1> QED BY <1>2, <1>3, <1>4, <1>5 DEF BridgeReads

\* Everything else carries nothing.
LEMMA OtherStepsRest ==
  ASSUME OwnerInvariant, StreamInvariant,
         \/ AppWrite \/ AppExit \/ DrainNothing \/ DrainStop \/ ReportFatal \/ FatalRetire
         \/ CloseSurface \/ RetireSurface \/ Close
         \/ \E c \in Connections : OnClose(c) \/ SocketLost(c)
         \/ BridgeInput \/ UNCHANGED vars
  PROVE  StreamRests
<1> USE DEF StreamRests, appVars, streamVars, ownerVars, readerVars, socketVars, bridgeVars,
        serviceVars
<1>1. /\ written \in Positions /\ socket \in [Connections -> {"none", "up", "down"}]
      /\ inbox \in [Connections -> Seq(Request)] /\ pump \in [Connections -> BOOLEAN]
  BY DEF StreamInvariant, StreamTypes, OwnerInvariant, OwnerTypes
<1>2. CASE AppWrite
  <2>1. written + 1 \in Positions
    BY <1>1, <1>2, BoundsAssumption DEF AppWrite, Positions
  <2> QED BY <1>1, <1>2, <2>1 DEF AppWrite
<1>3. CASE AppExit \/ DrainNothing \/ DrainStop \/ ReportFatal \/ FatalRetire
  BY <1>1, <1>3 DEF AppExit, DrainNothing, DrainStop, ReportFatal, ReportFatalUnless, FatalRetire
<1>4. CASE CloseSurface \/ RetireSurface \/ Close
  BY <1>1, <1>4 DEF CloseSurface, RetireSurface, Close, CloseFence, CloseStop, CloseJoin,
     CloserLeaves
<1>5. ASSUME NEW c \in Connections, OnClose(c) PROVE StreamRests
  <2>1. <<>> \in Seq(Request)
    OBVIOUS
  <2> QED BY <1>1, <1>5, <2>1 DEF OnClose, OnCloseThen
<1>6. ASSUME NEW c \in Connections, SocketLost(c) PROVE StreamRests
  BY <1>1, <1>6 DEF SocketLost
<1>7. CASE BridgeInput
  <2>1. <<"input">> \in Seq(Request)
    BY DEF Request
  <2> QED BY <1>1, <1>7, <2>1 DEF BridgeInput
<1>8. CASE UNCHANGED vars
  BY <1>1, <1>8 DEF vars
<1> QED BY <1>2, <1>3, <1>4, <1>5, <1>6, <1>7, <1>8

\* Every step keeps the invariant.
LEMMA StreamStep ==
  OwnerInvariant /\ StreamInvariant /\ [Next]_vars => StreamInvariant'
<1> SUFFICES ASSUME OwnerInvariant, StreamInvariant, [Next]_vars PROVE StreamInvariant'
  OBVIOUS
<1>1. CASE DrainRead \/ DrainAppend
  BY <1>1, DrainReadKept, DrainAppendKept
<1>2. CASE DrainLook /\ app = "running"
  <2>1. StreamRests
    BY <1>2 DEF DrainLook, StreamRests, StreamInvariant, StreamTypes, appVars, streamVars,
       socketVars, bridgeVars
  <2> QED BY <2>1, RestsKept
<1>3. CASE (DrainLook /\ app # "running") \/ DrainError
  <2>1. /\ Notify(next) /\ reader' # "appending"
        /\ UNCHANGED <<written, streamVars, attachment, pump, socket, inbox, wire, sent, bridgeVars>>
    BY <1>3 DEF DrainLook, DrainError, appVars, socketVars
  <2> QED BY <2>1, NoticeKept
<1>4. ASSUME NEW c \in Connections, HandleAttach(c) \/ HandleInput(c) \/ Detach(c) \/ PumpSend(c)
      PROVE  StreamInvariant'
  BY <1>4, HandleAttachKept, HandleInputKept, DetachKept, PumpSendKept
<1>5. CASE Connect
  BY <1>5, ConnectKept
<1>6. CASE BridgeReads \/ BridgeStop
  BY <1>6, BridgeKept
<1>7. CASE \/ AppWrite \/ AppExit \/ DrainNothing \/ DrainStop \/ ReportFatal \/ FatalRetire
           \/ CloseSurface \/ RetireSurface \/ Close
           \/ \E c \in Connections : OnClose(c) \/ SocketLost(c)
           \/ BridgeInput \/ UNCHANGED vars
  BY <1>7, OtherStepsRest, RestsKept
<1> QED BY <1>1, <1>2, <1>3, <1>4, <1>5, <1>6, <1>7 DEF Next, Drain, Handle

\* A surface that nobody has written to or connected to.
LEMMA StreamInit == Init => StreamInvariant
<1> SUFFICES ASSUME Init PROVE StreamInvariant
  OBVIOUS
<1> USE DEF Init
<1>1. 0 \in Positions /\ 0 <= 0 /\ 0 <= ReplayLimit
  BY PositionsAreNumbers, LimitsAssumption
<1>2. StreamTypes
  BY <1>1 DEF StreamTypes
<1>3. WindowInvariant
  BY <1>1, EmptyIsOrderly DEF WindowInvariant, Bytes
<1>4. QueueInvariant /\ WireInvariant
  BY <1>1, EmptyIsOrderly DEF QueueInvariant, WireInvariant
<1>5. BridgeInvariant /\ Unused
  BY <1>1 DEF BridgeInvariant, BridgeNeverConfused, Unused
<1> QED BY <1>2, <1>3, <1>4, <1>5 DEF StreamInvariant

\* The invariant of the stream is inductive, with that of its ownership.
THEOREM StreamInvariantHolds == Spec => []StreamInvariant
<1>1. OwnerInvariant /\ StreamInvariant /\ [Next]_vars => StreamInvariant'
  BY StreamStep
<1> QED BY StreamInit, <1>1, OwnerInvariantHolds, PTL DEF Spec

\* The surface, its attachment and socket, and the bridge are of their types.
THEOREM TypeCorrect == Spec => []TypeOK
<1>1. OwnerInvariant /\ StreamInvariant => TypeOK
  BY DEF OwnerInvariant, OwnerTypes, StreamInvariant, StreamTypes, TypeOK
<1> QED BY <1>1, OwnerInvariantHolds, StreamInvariantHolds, PTL

\* The bytes of the program reach the terminal in order, without a gap and none twice,
\* over any number of attachments and lost sockets, and the window keeps to its limit.
THEOREM StreamIsContiguous == Spec => []StreamContiguous
<1>1. StreamInvariant => StreamContiguous
  <2> SUFFICES ASSUME StreamInvariant PROVE StreamContiguous
    OBVIOUS
  <2>1. Linked(replay) /\ Last(replay, next) = next /\ Bytes(replay) <= ReplayLimit
    BY DEF StreamInvariant, WindowInvariant, Orderly
  <2>2. ASSUME NEW c \in Connections
        PROVE  /\ Linked(queue[c]) /\ Linked(wire[c])
               /\ socket[c] = "up" => Last(wire[c], sent[c]) = First(queue[c], sent[c])
               /\ socket[c] = "up" /\ attachment = c => Last(queue[c], sent[c]) = next
    BY DEF StreamInvariant, QueueInvariant, WireInvariant, Orderly, Last
  <2>3. bridge \in {"attaching", "attached"} =>
          First(wire[conn], IF socket[conn] = "up" THEN sent[conn] ELSE shown) = shown
    BY DEF StreamInvariant, BridgeInvariant, First
  <2> QED BY <2>1, <2>2, <2>3 DEF StreamContiguous
<1> QED BY StreamInvariantHolds, <1>1, PTL

\* The bridge never ends over what it is sent.
THEOREM BridgeIsNeverConfused == Spec => []BridgeNeverConfused
<1>1. StreamInvariant => BridgeNeverConfused
  BY DEF StreamInvariant, BridgeInvariant
<1> QED BY StreamInvariantHolds, <1>1, PTL

=============================================================================
