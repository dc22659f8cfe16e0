---------------------------- MODULE MCSupervisor ----------------------------
(***************************************************************************)
(* Small instances of Supervisor for TLC.                                  *)
(***************************************************************************)
EXTENDS SupervisorInvariant, TLC

\* Threads are interchangeable; the runs that check liveness do not use this.
ThreadSymmetry == Permutations(Requesters)

AllRequests == RequestKinds
ControlRequests == {"start", "execute", "interrupt", "input", "stop"}
\* Without close: what a queued restart publishes after it nobody polls (NothingOutlivesClose).
LivenessRequests == {"start", "execute", "interrupt", "input", "stop", "restart", "poll"}
ProbeRequests == {"start", "execute", "complete", "poll"}

\* Beside a close there are two executions, or one and its prompt: a state with more
\* is checked, and not gone on from.
FewBesideClose == op[Service] = "close" \/ down => lastExec + lastPrompt <= 2
=============================================================================
