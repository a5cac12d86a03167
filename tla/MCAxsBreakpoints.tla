--------------------------- MODULE MCAxsBreakpoints ---------------------------
(***************************************************************************)
(* Small instances of AxsBreakpoints for TLC: two breakpoints, the second  *)
(* of no project, on a target with two numbers.                            *)
(***************************************************************************)
EXTENDS AxsBreakpoints
CONSTANTS b1, b2
===============================================================================
