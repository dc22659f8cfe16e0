------------------------- MODULE EditorActionsProofs -------------------------
(***************************************************************************)
(* Theorems about EditorActions, for any set of editors, any number of     *)
(* chunks, links and fetching records, and without its fairness.           *)
(***************************************************************************)
EXTENDS EditorActions, TLAPS

-----------------------------------------------------------------------------
(* The inductive invariant.                                                *)

\* Only the current record has a request that still matters: it is being fetched,
\* and no record after it has asked for anything.
OneFetch ==
  /\ record = "fetching" => current \in Records
  /\ \A r \in Records : r > current => call[r] = "none"
  /\ current \in Records /\ call[current] # "none" => record = "fetching"

\* What was applied is what the record says, and only an outcome is acknowledged.
RecordIsTrue ==
  /\ applied = IF record = "delivered" THEN 1 ELSE 0
  /\ ack # "none" => record \in {"delivered", "failed"}

\* Data, and what came of it, was fetched; the manager's outcome is the record's, or
\* comes of a time when nothing was fetched.
ResultIsTrue ==
  /\ (\E r \in Records : call[r] = "data") \/ record = "delivered" => fetched
  /\ result = "delivered" => record = "delivered"
  /\ result \in {"failed", "cancelled"} => ~fetched \/ record = "failed"
  /\ fetched => result # "none"

\* The service knows the link of every editor that has one.
LinkIsKnown == \A e \in Editor : up[e] => <<e, link[e]>> \in connections

\* Whatever is fetched or about to be was submitted, for an editor.
AskedFirst ==
  /\ news # {} \/ record # "none" \/ (\E r \in Records : call[r] # "none") => result # "none"
  /\ result # "none" => editor \in Editor

ActionInvariant ==
  TypeOK /\ OneFetch /\ RecordIsTrue /\ ResultIsTrue /\ AskedFirst /\ LinkIsKnown

\* The service before the action is made.
LEMMA InitInvariant == Init => ActionInvariant
<1> SUFFICES ASSUME Init PROVE ActionInvariant
  OBVIOUS
<1> USE SizeAssumption, BoundsAssumption DEF Init, Records, Final
<1>1. TypeOK
  <2>1. 0 \in 0 .. Size - 1 /\ 0 \in 0 .. MaxLink /\ 1 \in 1 .. MaxRecord + 1
    OBVIOUS
  <2>2. /\ offset \in [Records -> 0 .. Size - 1] /\ link \in [Editor -> 0 .. MaxLink]
        /\ current \in 1 .. MaxRecord + 1
    BY <2>1
  <2> QED BY <2>2 DEF TypeOK
<1>2. OneFetch /\ RecordIsTrue /\ ResultIsTrue /\ AskedFirst /\ LinkIsKnown
  BY DEF OneFetch, RecordIsTrue, ResultIsTrue, AskedFirst, LinkIsKnown
<1> QED BY <1>1, <1>2 DEF ActionInvariant

\* Every operation keeps the types.
LEMMA TypeStep ==
  TypeOK /\ OneFetch /\ RecordIsTrue /\ AskedFirst /\ [Next]_vars => TypeOK'
<1> SUFFICES ASSUME TypeOK, OneFetch, RecordIsTrue, AskedFirst, [Next]_vars PROVE TypeOK'
  OBVIOUS
<1> USE SizeAssumption, BoundsAssumption DEF TypeOK, OneFetch, RecordIsTrue, AskedFirst,
      Records, Final, clientVars, actionVars, linkVars, deliveryVars
<1>1. ASSUME Submit PROVE TypeOK'
  BY <1>1 DEF Submit, Calls
<1>2. ASSUME Lapse PROVE TypeOK'
  BY <1>2 DEF Lapse
<1>3. ASSUME Answer PROVE TypeOK'
  BY <1>3 DEF Answer, Answers, Outcome, WithoutAnswer
<1>4. ASSUME CloseClient PROVE TypeOK'
  BY <1>4 DEF CloseClient, Cancel, WithoutAnswer
<1>5. ASSUME NEW e \in Editor \cup {NoEditor}, Bind(e) PROVE TypeOK'
  BY <1>5 DEF Bind, Cancel, WithoutAnswer
<1>6. ASSUME AckServed PROVE TypeOK'
  BY <1>6 DEF AckServed, Outcome, WithoutAnswer
<1>7. ASSUME AckReturns PROVE TypeOK'
  BY <1>7 DEF AckReturns
<1>8. ASSUME NEW r \in Records, FetchServed(r) PROVE TypeOK'
  <2>1. call' \in [Records -> {"none", "asked", "data", "refused", "lost"}]
    BY <1>8 DEF FetchServed, Calls
  <2>2. fetched' \in BOOLEAN /\ complete' \in BOOLEAN
    BY <1>8 DEF FetchServed
  <2>3. result' \in Final \cup {"none", "pending"}
    BY <1>8 DEF FetchServed, Outcome, WithoutAnswer
  <2> QED BY <1>8, <2>1, <2>2, <2>3 DEF FetchServed
<1>9. ASSUME NEW r \in Records, FetchLost(r) PROVE TypeOK'
  BY <1>9 DEF FetchLost, Calls
<1>10. ASSUME NEW r \in Records, FetchCancelled(r) PROVE TypeOK'
  BY <1>10 DEF FetchCancelled, Calls
<1>11. ASSUME NEW r \in Records, FetchFails(r) PROVE TypeOK'
  BY <1>11 DEF FetchFails, Calls, Forget
<1>12. ASSUME NEW r \in Records, FetchReturns(r) PROVE TypeOK'
  <2> USE <1>12 DEF FetchReturns, FetchReturnsTo
  <2>1. call' \in [Records -> {"none", "asked", "data", "refused", "lost"}]
    BY DEF Calls
  <2>2. ack' \in {"none", "asked", "answered"}
    BY DEF Acknowledged
  <2>3. offset' \in [Records -> 0 .. Size - 1]
    <3>1. offset[r] \in 0 .. Size - 1
      OBVIOUS
    <3>2. offset[r] + 1 < Size => offset[r] + 1 \in 0 .. Size - 1
      BY <3>1
    <3> QED BY <3>2
  <2>4. record' \in {"none", "fetching", "delivered", "failed"} /\ applied' \in Nat
    OBVIOUS
  <2> QED BY <2>1, <2>2, <2>3, <2>4
<1>13. ASSUME NEW e \in Editor, Request(e) PROVE TypeOK'
  <2>1. /\ record' \in {"none", "fetching", "delivered", "failed"}
        /\ call' \in [Records -> {"none", "asked", "data", "refused", "lost"}]
    BY <1>13 DEF Request, Calls
  <2>2. ack' \in {"none", "asked", "answered"} /\ news' \in SUBSET Editor
    BY <1>13 DEF Request, Acknowledged
  <2> QED BY <1>13, <2>1, <2>2 DEF Request
<1>14. ASSUME NEW e \in Editor, Connect(e) PROVE TypeOK'
  BY <1>14 DEF Connect, Outcome, WithoutAnswer
<1>15. ASSUME NEW e \in Editor, Break(e) PROVE TypeOK'
  BY <1>15 DEF Break, StreamEnds
<1>16. ASSUME NEW e \in Editor, Disconnect(e) PROVE TypeOK'
  <2>1. /\ record' \in {"none", "fetching", "delivered", "failed"}
        /\ current' \in 1 .. MaxRecord + 1
    BY <1>16 DEF Disconnect, Forget
  <2> QED BY <1>16, <2>1 DEF Disconnect, StreamEnds
<1>17. ASSUME NEW e \in Editor, Disown(e) PROVE TypeOK'
  BY <1>17 DEF Disown
<1>18. ASSUME NEW e \in Editor, NEW k \in 1 .. MaxLink, Drop(e, k) PROVE TypeOK'
  BY <1>18 DEF Drop, DropLinks
<1>19. ASSUME UNCHANGED vars PROVE TypeOK'
  BY <1>19 DEF vars, clientVars, actionVars, linkVars, deliveryVars
<1> QED BY <1>1, <1>2, <1>3, <1>4, <1>5, <1>6, <1>7, <1>8, <1>9, <1>10, <1>11, <1>12, <1>13, <1>14, <1>15, <1>16, <1>17, <1>18, <1>19 DEF Next

\* A record that is dropped is never current again, and what it asked for is ignored.
LEMMA OneFetchStep ==
  TypeOK /\ OneFetch /\ [Next]_vars => OneFetch'
<1> SUFFICES ASSUME TypeOK, OneFetch, [Next]_vars PROVE OneFetch'
  OBVIOUS
<1> USE BoundsAssumption DEF TypeOK, OneFetch, Records, Final, clientVars, actionVars,
      linkVars, deliveryVars
<1>1. ASSUME NEW r \in Records, FetchServed(r) PROVE OneFetch'
  BY <1>1 DEF FetchServed, Calls, Outcome, WithoutAnswer
<1>2. ASSUME NEW r \in Records, FetchLost(r) PROVE OneFetch'
  BY <1>2 DEF FetchLost, Calls
<1>3. ASSUME NEW r \in Records, FetchCancelled(r) PROVE OneFetch'
  BY <1>3 DEF FetchCancelled, Calls
<1>4. ASSUME NEW r \in Records, FetchFails(r) PROVE OneFetch'
  BY <1>4 DEF FetchFails, Calls, Forget
<1>5. ASSUME NEW r \in Records, FetchReturns(r) PROVE OneFetch'
  BY <1>5 DEF FetchReturns, FetchReturnsTo, Calls, Acknowledged
<1>6. ASSUME NEW e \in Editor, Request(e) PROVE OneFetch'
  BY <1>6 DEF Request, Calls, Acknowledged
<1>7. ASSUME NEW e \in Editor, Disconnect(e) PROVE OneFetch'
  BY <1>7 DEF Disconnect, StreamEnds, Forget
<1>8. ASSUME \/ Submit \/ Lapse \/ Answer \/ CloseClient \/ AckServed \/ AckReturns
             \/ \E e \in Editor \cup {NoEditor} : Bind(e)
             \/ \E e \in Editor : Connect(e)
             \/ \E e \in Editor : Break(e)
             \/ \E e \in Editor : Disown(e)
             \/ \E e \in Editor : \E k \in 1 .. MaxLink : Drop(e, k)
             \/ UNCHANGED vars
     PROVE OneFetch'
  BY <1>8 DEF Submit, Calls, Lapse, Answer, Answers, Outcome, WithoutAnswer, CloseClient,
      Cancel, Bind, AckServed, AckReturns, Connect, Break, StreamEnds, Disown, Drop,
      DropLinks, vars, clientVars, actionVars, linkVars, deliveryVars
<1> QED BY <1>1, <1>2, <1>3, <1>4, <1>5, <1>6, <1>7, <1>8 DEF Next

\* The text is applied only as the record becomes delivered, and that stays.
LEMMA RecordStep ==
  TypeOK /\ OneFetch /\ RecordIsTrue /\ [Next]_vars => RecordIsTrue'
<1> SUFFICES ASSUME TypeOK, OneFetch, RecordIsTrue, [Next]_vars PROVE RecordIsTrue'
  OBVIOUS
<1> USE DEF TypeOK, OneFetch, RecordIsTrue, Records, Final, clientVars, actionVars,
      linkVars, deliveryVars
<1>1. ASSUME AckServed PROVE RecordIsTrue'
  BY <1>1 DEF AckServed, Outcome, WithoutAnswer
<1>2. ASSUME AckReturns PROVE RecordIsTrue'
  BY <1>2 DEF AckReturns
<1>3. ASSUME NEW r \in Records, FetchFails(r) PROVE RecordIsTrue'
  BY <1>3 DEF FetchFails, Calls, Forget
<1>4. ASSUME NEW r \in Records, FetchReturns(r) PROVE RecordIsTrue'
  BY <1>4 DEF FetchReturns, FetchReturnsTo, Calls, Acknowledged
<1>5. ASSUME NEW e \in Editor, Request(e) PROVE RecordIsTrue'
  BY <1>5 DEF Request, Calls, Acknowledged
<1>6. ASSUME NEW e \in Editor, Disconnect(e) PROVE RecordIsTrue'
  BY <1>6 DEF Disconnect, StreamEnds, Forget
<1>7. ASSUME \/ Submit \/ Lapse \/ Answer \/ CloseClient
             \/ \E e \in Editor \cup {NoEditor} : Bind(e)
             \/ \E r \in Records : FetchServed(r)
             \/ \E r \in Records : FetchLost(r)
             \/ \E r \in Records : FetchCancelled(r)
             \/ \E e \in Editor : Connect(e)
             \/ \E e \in Editor : Break(e)
             \/ \E e \in Editor : Disown(e)
             \/ \E e \in Editor : \E k \in 1 .. MaxLink : Drop(e, k)
             \/ UNCHANGED vars
     PROVE RecordIsTrue'
  BY <1>7 DEF Submit, Calls, Lapse, Answer, Answers, Outcome, WithoutAnswer, CloseClient,
      Cancel, Bind, FetchServed, FetchLost, FetchCancelled, Connect, Break, StreamEnds,
      Disown, Drop, DropLinks, vars, clientVars, actionVars, linkVars, deliveryVars
<1> QED BY <1>1, <1>2, <1>3, <1>4, <1>5, <1>6, <1>7 DEF Next

\* The manager decides by what was fetched, or by the record.
LEMMA ResultStep ==
  TypeOK /\ OneFetch /\ RecordIsTrue /\ ResultIsTrue /\ [Next]_vars => ResultIsTrue'
<1> SUFFICES ASSUME TypeOK, OneFetch, RecordIsTrue, ResultIsTrue, [Next]_vars PROVE ResultIsTrue'
  OBVIOUS
<1> USE DEF TypeOK, OneFetch, RecordIsTrue, ResultIsTrue, Records, Final, clientVars,
      actionVars, linkVars, deliveryVars
<1>1. ASSUME Submit PROVE ResultIsTrue'
  BY <1>1 DEF Submit, Calls
<1>2. ASSUME Lapse PROVE ResultIsTrue'
  BY <1>2 DEF Lapse
<1>3. ASSUME Answer PROVE ResultIsTrue'
  BY <1>3 DEF Answer, Answers, Outcome, WithoutAnswer
<1>4. ASSUME CloseClient PROVE ResultIsTrue'
  BY <1>4 DEF CloseClient, Cancel, WithoutAnswer
<1>5. ASSUME NEW e \in Editor \cup {NoEditor}, Bind(e) PROVE ResultIsTrue'
  BY <1>5 DEF Bind, Cancel, WithoutAnswer
<1>6. ASSUME AckServed PROVE ResultIsTrue'
  BY <1>6 DEF AckServed, Outcome, WithoutAnswer
<1>7. ASSUME AckReturns PROVE ResultIsTrue'
  BY <1>7 DEF AckReturns
<1>8. ASSUME NEW r \in Records, FetchServed(r) PROVE ResultIsTrue'
  BY <1>8 DEF FetchServed, Calls, Outcome, WithoutAnswer
<1>9. ASSUME NEW r \in Records, FetchLost(r) PROVE ResultIsTrue'
  BY <1>9 DEF FetchLost, Calls
<1>10. ASSUME NEW r \in Records, FetchCancelled(r) PROVE ResultIsTrue'
  BY <1>10 DEF FetchCancelled, Calls
<1>11. ASSUME NEW r \in Records, FetchFails(r) PROVE ResultIsTrue'
  BY <1>11 DEF FetchFails, Calls, Forget
<1>12. ASSUME NEW r \in Records, FetchReturns(r) PROVE ResultIsTrue'
  BY <1>12 DEF FetchReturns, FetchReturnsTo, Calls, Acknowledged
<1>13. ASSUME NEW e \in Editor, Request(e) PROVE ResultIsTrue'
  BY <1>13 DEF Request, Calls, Acknowledged
<1>14. ASSUME NEW e \in Editor, Connect(e) PROVE ResultIsTrue'
  BY <1>14 DEF Connect, Outcome, WithoutAnswer
<1>15. ASSUME NEW e \in Editor, Break(e) PROVE ResultIsTrue'
  BY <1>15 DEF Break, StreamEnds
<1>16. ASSUME NEW e \in Editor, Disconnect(e) PROVE ResultIsTrue'
  BY <1>16 DEF Disconnect, StreamEnds, Forget
<1>17. ASSUME NEW e \in Editor, Disown(e) PROVE ResultIsTrue'
  BY <1>17 DEF Disown
<1>18. ASSUME NEW e \in Editor, NEW k \in 1 .. MaxLink, Drop(e, k) PROVE ResultIsTrue'
  BY <1>18 DEF Drop, DropLinks
<1>19. ASSUME UNCHANGED vars PROVE ResultIsTrue'
  BY <1>19 DEF vars, clientVars, actionVars, linkVars, deliveryVars
<1> QED BY <1>1, <1>2, <1>3, <1>4, <1>5, <1>6, <1>7, <1>8, <1>9, <1>10, <1>11, <1>12, <1>13, <1>14, <1>15, <1>16, <1>17, <1>18, <1>19 DEF Next

\* Delivery acts on what was submitted.
LEMMA AskedStep ==
  TypeOK /\ RecordIsTrue /\ AskedFirst /\ [Next]_vars => AskedFirst'
<1> SUFFICES ASSUME TypeOK, RecordIsTrue, AskedFirst, [Next]_vars PROVE AskedFirst'
  OBVIOUS
<1> USE DEF TypeOK, RecordIsTrue, AskedFirst, Records, Final, clientVars, actionVars,
      linkVars, deliveryVars
<1>1. ASSUME Submit PROVE AskedFirst'
  BY <1>1 DEF Submit, Calls
<1>2. ASSUME Answer PROVE AskedFirst'
  BY <1>2 DEF Answer, Answers, Outcome, WithoutAnswer
<1>3. ASSUME CloseClient PROVE AskedFirst'
  BY <1>3 DEF CloseClient, Cancel, WithoutAnswer
<1>4. ASSUME NEW e \in Editor \cup {NoEditor}, Bind(e) PROVE AskedFirst'
  BY <1>4 DEF Bind, Cancel, WithoutAnswer
<1>5. ASSUME AckServed PROVE AskedFirst'
  BY <1>5 DEF AckServed, Outcome, WithoutAnswer
<1>6. ASSUME NEW r \in Records, FetchServed(r) PROVE AskedFirst'
  BY <1>6 DEF FetchServed, Calls, Outcome, WithoutAnswer
<1>7. ASSUME NEW r \in Records, FetchLost(r) PROVE AskedFirst'
  BY <1>7 DEF FetchLost, Calls
<1>8. ASSUME NEW r \in Records, FetchCancelled(r) PROVE AskedFirst'
  <2>1. \A q \in Records : call'[q] # "none" => call[q] # "none"
    BY <1>8 DEF FetchCancelled, Calls
  <2> QED BY <1>8, <2>1 DEF FetchCancelled
<1>9. ASSUME NEW r \in Records, FetchFails(r) PROVE AskedFirst'
  BY <1>9 DEF FetchFails, Calls, Forget
<1>10. ASSUME NEW r \in Records, FetchReturns(r) PROVE AskedFirst'
  BY <1>10 DEF FetchReturns, FetchReturnsTo, Calls, Acknowledged
<1>11. ASSUME NEW e \in Editor, Request(e) PROVE AskedFirst'
  BY <1>11 DEF Request, Calls, Acknowledged
<1>12. ASSUME NEW e \in Editor, Connect(e) PROVE AskedFirst'
  BY <1>12 DEF Connect, Outcome, WithoutAnswer
<1>13. ASSUME NEW e \in Editor, Break(e) PROVE AskedFirst'
  BY <1>13 DEF Break, StreamEnds
<1>14. ASSUME NEW e \in Editor, Disconnect(e) PROVE AskedFirst'
  BY <1>14 DEF Disconnect, StreamEnds, Forget
<1>15. ASSUME \/ Lapse \/ AckReturns
              \/ \E e \in Editor : Disown(e)
              \/ \E e \in Editor : \E k \in 1 .. MaxLink : Drop(e, k)
              \/ UNCHANGED vars
     PROVE AskedFirst'
  BY <1>15 DEF Lapse, AckReturns, Disown, Drop, DropLinks, vars, clientVars, actionVars,
      linkVars, deliveryVars
<1> QED BY <1>1, <1>2, <1>3, <1>4, <1>5, <1>6, <1>7, <1>8, <1>9, <1>10, <1>11, <1>12, <1>13, <1>14, <1>15 DEF Next

\* A link is forgotten only when its editor has another one or none.
LEMMA LinkStep ==
  TypeOK /\ LinkIsKnown /\ [Next]_vars => LinkIsKnown'
<1> SUFFICES ASSUME TypeOK, LinkIsKnown, [Next]_vars PROVE LinkIsKnown'
  OBVIOUS
<1> USE DEF TypeOK, LinkIsKnown, clientVars, actionVars, linkVars, deliveryVars
<1>1. ASSUME NEW e \in Editor, Connect(e) PROVE LinkIsKnown'
  BY <1>1 DEF Connect, Outcome, WithoutAnswer
<1>2. ASSUME NEW e \in Editor, Break(e) PROVE LinkIsKnown'
  BY <1>2 DEF Break, StreamEnds
<1>3. ASSUME NEW e \in Editor, Disconnect(e) PROVE LinkIsKnown'
  BY <1>3 DEF Disconnect, StreamEnds, Forget
<1>4. ASSUME NEW e \in Editor, NEW k \in 1 .. MaxLink, Drop(e, k) PROVE LinkIsKnown'
  BY <1>4 DEF Drop, DropLinks
<1>5. ASSUME \/ Submit \/ Lapse \/ Answer \/ CloseClient \/ AckServed \/ AckReturns
             \/ \E e \in Editor \cup {NoEditor} : Bind(e)
             \/ \E r \in Records : FetchServed(r)
             \/ \E r \in Records : FetchLost(r)
             \/ \E r \in Records : FetchCancelled(r)
             \/ \E r \in Records : FetchFails(r)
             \/ \E r \in Records : FetchReturns(r)
             \/ \E e \in Editor : Request(e)
             \/ \E e \in Editor : Disown(e)
             \/ UNCHANGED vars
     PROVE LinkIsKnown'
  BY <1>5 DEF Submit, Calls, Lapse, Answer, Answers, Outcome, WithoutAnswer, CloseClient,
      Cancel, Bind, AckServed, AckReturns, FetchServed, FetchLost, FetchCancelled, FetchFails,
      Forget, FetchReturns, FetchReturnsTo, Acknowledged, Request, Disown, vars, clientVars,
      actionVars, linkVars, deliveryVars
<1> QED BY <1>1, <1>2, <1>3, <1>4, <1>5 DEF Next

\* The invariant is inductive.
THEOREM ActionInvariantHolds == Spec => []ActionInvariant
<1>1. ActionInvariant /\ [Next]_vars => ActionInvariant'
  BY TypeStep, OneFetchStep, RecordStep, ResultStep, AskedStep, LinkStep DEF ActionInvariant
<1> QED BY InitInvariant, <1>1, PTL DEF Spec

-----------------------------------------------------------------------------
(* What follows from it.                                                   *)

\* The states of the manager, the links and Delivery are of their types.
THEOREM TypeCorrect == Spec => []TypeOK
<1>1. ActionInvariant => TypeOK
  BY DEF ActionInvariant
<1> QED BY ActionInvariantHolds, <1>1, PTL

\* What the application is told of its action is true for good.
THEOREM OutcomesHonest == Spec => []OutcomeIsHonest
<1>1. ActionInvariant => OutcomeIsHonest
  BY DEF ActionInvariant, RecordIsTrue, ResultIsTrue, OutcomeIsHonest
<1> QED BY ActionInvariantHolds, <1>1, PTL

\* No loss, retry, replay or reconnection applies the action twice.
THEOREM AppliedAtMostOnce == Spec => []AppliedOnce
<1>1. ActionInvariant => AppliedOnce
  BY DEF ActionInvariant, RecordIsTrue, AppliedOnce
<1> QED BY ActionInvariantHolds, <1>1, PTL

\* An editor that has a stream can be reached.
THEOREM ConnectedReachable == Spec => []ConnectedIsReachable
<1>1. ActionInvariant => ConnectedIsReachable
  <2> SUFFICES ASSUME ActionInvariant, NEW e \in Editor, up[e] PROVE Connected(e)
    BY DEF ConnectedIsReachable
  <2>1. <<e, link[e]>> \in connections /\ <<e, link[e]>>[1] = e
    BY DEF ActionInvariant, LinkIsKnown
  <2> QED BY <2>1 DEF Connected
<1> QED BY ActionInvariantHolds, <1>1, PTL

=============================================================================
