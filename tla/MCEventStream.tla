--------------------------- MODULE MCEventStream ---------------------------
(***************************************************************************)
(* EventStream for TLC, with a history variable: did the answer to a       *)
(* command of its own ever change what the controller shows?               *)
(***************************************************************************)
EXTENDS EventStream

VARIABLE answered

MCInit == Init /\ answered = FALSE
MCNext ==
  /\ Next
  /\ answered' = (answered \/ (view' # view /\ (StartAnswered \/ StopAnswered)))
MCSpec == MCInit /\ [][MCNext]_<<vars, answered>> /\ Fairness

\* A controller that has caught up shows the kernel and the execution the service
\* has, as long as no answer to a command of its own has changed its view: an
\* answer carries no sequence, and may undo what a later event told (controller.lua
\* applies it whenever it comes).
TruthUnlessAnswered == ~answered => FollowerSeesTruth
=============================================================================
