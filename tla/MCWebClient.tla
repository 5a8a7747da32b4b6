----------------------------- MODULE MCWebClient -----------------------------
(* Values for the constants of WebClient. *)
EXTENDS WebClient

CONSTANTS t1, t2

\* Polls overlap in the first tab; the second one is there to interfere.
OverlapInFirst == [t \in Tabs |-> IF t = t1 THEN 2 ELSE 1]
=============================================================================
