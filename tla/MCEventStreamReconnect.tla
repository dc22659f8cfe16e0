---------------------- MODULE MCEventStreamReconnect ----------------------
(***************************************************************************)
(* EventStream for TLC, with a history variable: has the controller lost,  *)
(* with its stream, the answer to a start of its own that succeeded?       *)
(***************************************************************************)
EXTENDS EventStream

VARIABLE cut

MCInit == Init /\ cut = FALSE
MCNext == Next /\ cut' = (cut \/ (startAnswer # 0 /\ link # "none" /\ link' = "none"))
MCSpec == MCInit /\ [][MCNext]_<<vars, cut>>

\* "reconnect restores truth" (docs/1.0/architecture/lifecycle-reliability.md):
\* a controller that lost its stream while its start was answered, followed the
\* service again and has caught up, knows the runtime of the kernel that is on.
\* The runtime is in the answer to a start and in a snapshot that replaces the
\* view, but in no event that is replayed.
ReconnectRestoresTruth ==
  cut /\ Settled /\ on => view.kernel = kernel /\ view.on /\ view.runtime = runtime
=============================================================================
