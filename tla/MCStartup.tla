------------------------------ MODULE MCStartup ------------------------------
(* Values for the constants of Startup. *)
EXTENDS Startup

CONSTANTS p1, p2

\* The checks of two processes share nothing: one of them has its check off.
FirstChecks == [p \in Procs |-> p = p1]
=============================================================================
