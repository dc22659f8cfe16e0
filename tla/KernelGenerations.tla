------------------------- MODULE KernelGenerations -------------------------
(***************************************************************************)
(* What the supervisor promises about kernels (docs/1.0/state-model.md,    *)
(* "Kernel"): at most one is on, a kernel that went off never comes back   *)
(* on, and a later kernel always has a fresh identity.                     *)
(***************************************************************************)
EXTENDS Naturals

VARIABLES generation, isOn

Init == generation = 0 /\ isOn = FALSE

\* A successful start: only from off, and under an identity never used before.
TurnOn ==
  /\ ~isOn /\ isOn'
  /\ generation' \in Nat /\ generation' > generation

\* A stop, an observed death or a cleanup.
TurnOff == isOn /\ ~isOn' /\ generation' = generation

Next == TurnOn \/ TurnOff

Spec == Init /\ [][Next]_<<generation, isOn>>
=============================================================================
