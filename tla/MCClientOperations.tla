------------------------- MODULE MCClientOperations -------------------------
(***************************************************************************)
(* ClientOperations for TLC, with a bound on the threads that are at work  *)
(* at the same time.                                                       *)
(***************************************************************************)
EXTENDS ClientOperations

CONSTANT MaxBusy

ASSUME BusyAssumption == MaxBusy \in Nat

\* A state with more of them is checked, and not gone on from.  An execution that has
\* the lane and hands nothing off counts for two, and a kernel that was turned off beside
\* every teardown for one, or for two if it is the second.
AtWork ==
  Cardinality({t \in Threads : at[t] # "idle"})
    + (IF at[Execute] = "executing" THEN 1 ELSE 0) + (IF untorn THEN kernel ELSE 0)

FewAtOnce == AtWork <= MaxBusy
=============================================================================
