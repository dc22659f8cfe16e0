-------------------------- MODULE MCTerminalStream --------------------------
(***************************************************************************)
(* TerminalStream for TLC, with a bound on what is written while a surface *)
(* closes.                                                                 *)
(***************************************************************************)
EXTENDS TerminalStream

\* A surface that closes after more than this was written is checked, and not gone
\* on from.
CONSTANT MaxAtClose

ASSUME CloseAssumption == MaxAtClose \in Nat

FewAtClose == closing => written <= MaxAtClose
=============================================================================
