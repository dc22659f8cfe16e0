---------------------------- MODULE EditorActions ----------------------------
(***************************************************************************)
(* What an application in a terminal asks of the editor that shows it      *)
(* (copy, open, show_diff): EditorActionManager of the service             *)
(* (editor_actions.py), the socket its waiter answers                      *)
(* (editor_action_socket.py), the handlers of http.py, and Delivery of the *)
(* frontend (editor_delivery.lua).                                         *)
(*                                                                         *)
(* One client and one action, of Size chunks: actions share nothing but    *)
(* the connections and the owner of their client.  An editor connects      *)
(* again and again, each time by a new link; what it fetches belongs to a  *)
(* record, and a record that is dropped or cancelled is never used again.  *)
(***************************************************************************)
EXTENDS Naturals

CONSTANTS
  Editor,      \* editor identities
  NoEditor,
  Size,        \* chunks of the text
  MaxLink,     \* links per editor (bound)
  MaxRecord    \* records that fetch the action (bound)

ASSUME EditorAssumption == NoEditor \notin Editor
ASSUME SizeAssumption == Size \in Nat \ {0}
ASSUME BoundsAssumption == MaxLink \in Nat /\ MaxRecord \in Nat \ {0}

Records == 1 .. MaxRecord
Final   == {"delivered", "failed", "cancelled", "unknown"}

VARIABLES
  registered,   \* is the client in _clients?
  owner,        \* _owners of it
  connections,  \* _connections: pairs of an editor and a link
  editor,       \* the editor_id of the action
  result,       \* "none" before it is submitted, "pending", or its outcome
  fetched, complete,
  due,          \* is its deadline over?
  waiter,       \* submit(): "none", "waiting" or what it answered
  up,           \* per editor, is its transport connected?
  link,         \* the link it has or had last
  owns,         \* does its notebook still have the client and its cell?
  news,         \* editors that are about to hand the action to Delivery
  record,       \* what seen has: "none", "fetching", or an outcome
  current,      \* its number
  offset,       \* per record, chunks it has
  call,         \* per record, its request: "none", "asked", "data", "refused" or "lost"
  ack,          \* the acknowledgement: "none", "asked" or "answered"
  applied       \* times an editor applied the action

clientVars   == <<registered, owner>>
actionVars   == <<editor, result, fetched, complete, due, waiter>>
linkVars     == <<up, link>>
deliveryVars == <<news, record, current, offset, call, ack, applied>>
vars == <<clientVars, connections, actionVars, linkVars, owns, deliveryVars>>

Init ==
  /\ registered = TRUE /\ owner = NoEditor /\ connections = {}
  /\ editor = NoEditor /\ result = "none" /\ fetched = FALSE /\ complete = FALSE
  /\ due = FALSE /\ waiter = "none"
  /\ up = [e \in Editor |-> FALSE] /\ link = [e \in Editor |-> 0]
  /\ owns = [e \in Editor |-> TRUE] /\ news = {}
  /\ record = "none" /\ current = 1 /\ offset = [r \in Records |-> 0]
  /\ call = [r \in Records |-> "none"] /\ ack = "none" /\ applied = 0

Connected(e) == \E c \in connections : c[1] = e

-----------------------------------------------------------------------------
(* EditorActionManager.                                                    *)

\* _finish without an acknowledgement: an editor that fetched may have applied it.
\* Mutant: whether it was fetched does not matter.
WithoutAnswerAsIs(otherwise) == otherwise
WithoutAnswer(otherwise) == IF fetched THEN "unknown" ELSE otherwise

\* The outcome after _expire.
Outcome == IF result = "pending" /\ due THEN WithoutAnswer("failed") ELSE result

\* The application asks, and waits in submit().
Submit ==
  /\ result = "none" /\ registered /\ owner # NoEditor /\ Connected(owner)
  /\ result' = "pending" /\ waiter' = "waiting" /\ editor' = owner
  /\ news' = IF up[owner] THEN {owner} ELSE {}
  /\ UNCHANGED <<clientVars, connections, fetched, complete, due, linkVars, owns, record,
                 current, offset, call, ack, applied>>

\* Time passes.
Lapse ==
  /\ result = "pending" /\ ~due /\ due' = TRUE
  /\ UNCHANGED <<clientVars, connections, editor, result, fetched, complete, waiter, linkVars,
                 owns, deliveryVars>>

\* The thread of submit() wakes up, at the deadline or for an outcome, and answers
\* if there is one.
\* Mutants: at the deadline it does not expire the action; it does not look whether
\* there is an outcome.
Answers(outcome) ==
  /\ waiter = "waiting" /\ result' = outcome /\ waiter' = outcome
  /\ UNCHANGED <<clientVars, connections, editor, fetched, complete, due, linkVars, owns,
                 deliveryVars>>
AnswerUnexpired == result # "pending" /\ Answers(result)
AnswerAtOnce == Answers(Outcome)
Answer == Outcome # "pending" /\ Answers(Outcome)

Cancel(ended) ==
  result' = IF ended /\ result = "pending" THEN WithoutAnswer("cancelled") ELSE result

\* The terminal is attached by an editor, or by one that gives no identity.
Bind(e) ==
  /\ registered /\ owner' = e /\ Cancel(owner # e)
  /\ UNCHANGED <<registered, connections, editor, fetched, complete, due, waiter, linkVars,
                 owns, deliveryVars>>

CloseClient ==
  /\ registered /\ registered' = FALSE /\ owner' = NoEditor /\ Cancel(TRUE)
  /\ UNCHANGED <<connections, editor, fetched, complete, due, waiter, linkVars, owns,
                 deliveryVars>>

-----------------------------------------------------------------------------
(* The event stream of an editor.                                          *)

\* EventsHandler.get and on_open.  The inspection before it expires what is due,
\* and has brought what is pending.
Connect(e) ==
  /\ ~up[e] /\ link[e] < MaxLink
  /\ link' = [link EXCEPT ![e] = @ + 1] /\ up' = [up EXCEPT ![e] = TRUE]
  /\ connections' = connections \cup {<<e, link[e] + 1>>}
  /\ result' = Outcome
  /\ news' = IF Outcome = "pending" /\ editor = e THEN news \cup {e} ELSE news
  /\ UNCHANGED <<clientVars, editor, fetched, complete, due, waiter, owns, record, current,
                 offset, call, ack, applied>>

\* What the stream had is lost; the timer of a retry runs on.
StreamEnds(e) ==
  /\ up[e] /\ up' = [up EXCEPT ![e] = FALSE] /\ news' \in {news, news \ {e}}

Break(e) ==
  /\ StreamEnds(e)
  /\ UNCHANGED <<clientVars, connections, actionVars, link, owns, record, current, offset, call,
                 ack, applied>>

\* disconnect(): a record without an outcome is cancelled, and forgotten.
Forget == record' = "none" /\ current' = current + 1
Disconnect(e) ==
  /\ StreamEnds(e)
  /\ IF e = editor /\ record = "fetching" THEN Forget ELSE UNCHANGED <<record, current>>
  /\ UNCHANGED <<clientVars, connections, actionVars, link, owns, offset, call, ack, applied>>

\* The service finds out that a link is gone, early or late.
DropLinks(e, k, gone) ==
  /\ <<e, k>> \in connections /\ ~(up[e] /\ link[e] = k)
  /\ connections' = connections \ gone
  /\ UNCHANGED <<clientVars, actionVars, linkVars, owns, deliveryVars>>

\* Mutant: the editor is disconnected, not the link.
DropAll(e, k) == DropLinks(e, k, {c \in connections : c[1] = e})
Drop(e, k) == DropLinks(e, k, {<<e, k>>})

\* The cell is gone, or the frontend has heard of the client's end.
Disown(e) ==
  /\ owns[e] /\ owns' = [owns EXCEPT ![e] = FALSE]
  /\ UNCHANGED <<clientVars, connections, actionVars, linkVars, deliveryVars>>

-----------------------------------------------------------------------------
(* Delivery.                                                               *)

Calls(r, state) == call' = [call EXCEPT ![r] = state]

\* ack: one at a time, and only over a connection.
Acknowledged == ack' = IF up[editor] /\ ack = "none" THEN "asked" ELSE ack

\* request(): an action with an outcome is acknowledged again, one that is being
\* fetched goes on.
Request(e) ==
  /\ e \in news /\ news' = news \ {e}
  /\ \/ /\ record = "fetching" \/ (record = "none" /\ ~up[e])
        /\ UNCHANGED <<record, call, ack>>
     \/ /\ record \in Final
        /\ Acknowledged /\ UNCHANGED <<record, call>>
     \/ /\ record = "none" /\ up[e] /\ ~owns[e]
        /\ record' = "failed" /\ Acknowledged /\ UNCHANGED call
     \/ /\ record = "none" /\ up[e] /\ owns[e] /\ current \in Records
        /\ record' = "fetching" /\ Calls(current, "asked") /\ UNCHANGED ack
  /\ UNCHANGED <<clientVars, connections, actionVars, linkVars, owns, current, offset, applied>>

\* fetch(), for a record: it renews the lease.
FetchServed(r) ==
  /\ call[r] = "asked" /\ result' = Outcome
  /\ IF Outcome = "pending" /\ Connected(editor)
     THEN /\ fetched' = TRUE
          /\ complete' = (complete \/ offset[r] + 1 = Size)
          /\ Calls(r, "data")
     ELSE Calls(r, "refused") /\ UNCHANGED <<fetched, complete>>
  /\ UNCHANGED <<clientVars, connections, editor, due, waiter, linkVars, owns, news, record,
                 current, offset, ack, applied>>

\* curl is killed, or fails: what the service did is done.
FetchLost(r) ==
  /\ call[r] \in {"asked", "data"} /\ Calls(r, "lost")
  /\ UNCHANGED <<clientVars, connections, actionVars, linkVars, owns, news, record, current,
                 offset, ack, applied>>

\* The callback of a record that is cancelled does nothing.
FetchCancelled(r) ==
  /\ call[r] \in {"data", "refused", "lost"} /\ r # current /\ Calls(r, "none")
  /\ UNCHANGED <<clientVars, connections, actionVars, linkVars, owns, news, record, current,
                 offset, ack, applied>>

\* A failure, or an answer that comes when the stream is down: the record is
\* dropped, and after a loss the action may be requested again.
FetchFails(r) ==
  /\ call[r] \in {"data", "refused", "lost"} /\ (call[r] = "data" => ~up[editor])
  /\ r = current /\ Calls(r, "none") /\ Forget
  /\ news' \in {news} \cup (IF call[r] = "lost" THEN {news \cup {editor}} ELSE {})
  /\ UNCHANGED <<clientVars, connections, actionVars, linkVars, owns, offset, ack, applied>>

\* A chunk is written to the file, and the next one asked for; or it was the last
\* and the text is applied.  Each may fail, and does for an action of another's.
FetchReturnsTo(r) ==
  /\ call[r] = "data" /\ up[editor]
  /\ \/ /\ owns[editor] /\ offset[r] + 1 < Size
        /\ offset' = [offset EXCEPT ![r] = @ + 1] /\ Calls(r, "asked") /\ UNCHANGED <<record, ack, applied>>
     \/ /\ owns[editor] /\ offset[r] + 1 = Size
        /\ applied' = applied + 1 /\ record' = "delivered" /\ Acknowledged
        /\ Calls(r, "none") /\ UNCHANGED offset
     \/ /\ record' = "failed" /\ Acknowledged
        /\ Calls(r, "none") /\ UNCHANGED <<offset, applied>>
  /\ UNCHANGED <<clientVars, connections, actionVars, linkVars, owns, news, current>>

\* Mutant: whatever record it was asked for.
FetchReturnsToAny(r) == applied < 2 /\ FetchReturnsTo(r)
FetchReturns(r) == r = current /\ FetchReturnsTo(r)

\* acknowledge(): the first outcome stays.
AckServed ==
  /\ ack = "asked" /\ ack' = "answered"
  /\ result' = IF Outcome = "pending" /\ (record = "delivered" => complete) THEN record
               ELSE Outcome
  /\ UNCHANGED <<clientVars, connections, editor, fetched, complete, due, waiter, linkVars, owns,
                 news, record, current, offset, call, applied>>

\* The answer, or a loss, after which it may be sent again.
AckReturns ==
  /\ \/ ack = "answered" /\ ack' = "none"
     \/ ack \in {"asked", "answered"} /\ ack' \in {"none"} \cup (IF up[editor] THEN {"asked"} ELSE {})
  /\ UNCHANGED <<clientVars, connections, actionVars, linkVars, owns, news, record, current,
                 offset, call, applied>>

-----------------------------------------------------------------------------
Next ==
  \/ Submit \/ Lapse \/ Answer \/ CloseClient \/ \E e \in Editor \cup {NoEditor} : Bind(e)
  \/ AckServed \/ AckReturns
  \/ \E r \in Records :
       \/ FetchServed(r) \/ FetchLost(r) \/ FetchCancelled(r) \/ FetchFails(r)
       \/ FetchReturns(r)
  \/ \E e \in Editor :
       \/ Request(e) \/ Connect(e) \/ Break(e) \/ Disconnect(e) \/ Disown(e)
       \/ \E k \in 1 .. MaxLink : Drop(e, k)

Spec == Init /\ [][Next]_vars

\* Time passes, and the thread of submit() runs.
FairSpec == Spec /\ WF_vars(Lapse) /\ WF_vars(Answer)

-----------------------------------------------------------------------------
(* Properties.                                                             *)

\* Type invariant: the states of the manager, the links and Delivery.
TypeOK ==
  /\ registered \in BOOLEAN /\ owner \in Editor \cup {NoEditor}
  /\ connections \subseteq Editor \X (1 .. MaxLink)
  /\ editor \in Editor \cup {NoEditor}
  /\ result \in Final \cup {"none", "pending"}
  /\ fetched \in BOOLEAN /\ complete \in BOOLEAN /\ due \in BOOLEAN
  /\ waiter \in Final \cup {"none", "waiting"}
  /\ up \in [Editor -> BOOLEAN] /\ link \in [Editor -> 0 .. MaxLink]
  /\ owns \in [Editor -> BOOLEAN] /\ news \in SUBSET Editor
  /\ record \in {"none", "fetching", "delivered", "failed"}
  /\ current \in 1 .. MaxRecord + 1 /\ offset \in [Records -> 0 .. Size - 1]
  /\ call \in [Records -> {"none", "asked", "data", "refused", "lost"}]
  /\ ack \in {"none", "asked", "answered"} /\ applied \in Nat

\* What the application is told is true for good: a delivered action was applied,
\* and one that failed or was cancelled was not and never will be (_finish,
\* acknowledge and finish(), across every loss, expiry and replacement).
OutcomeIsHonest ==
  /\ result = "delivered" => applied > 0
  /\ result \in {"failed", "cancelled"} => applied = 0

\* No loss, retry, replay or reconnection applies the action twice (the records in
\* seen of editor_delivery.lua).
AppliedOnce == applied <= 1

\* An editor that has a stream can be reached, whatever links of its the service
\* finds out to be gone (_connections keeps each link of an editor).
ConnectedIsReachable == \A e \in Editor : up[e] => Connected(e)

\* Whoever waits in submit() is answered, and with the outcome that stays.
SubmitIsAnswered == waiter = "waiting" ~> (waiter \in Final /\ waiter = result)
=============================================================================
