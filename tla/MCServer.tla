------------------------------- MODULE MCServer -------------------------------
(* A small instance of Server for TLC: one process per transport. *)
EXTENDS Server

CONSTANTS p1, p2, r1

MCProcs     == {p1, p2}
MCTransport == [p \in MCProcs |-> IF p = p1 THEN "http" ELSE "stdio"]
MCRequests  == {r1}

(* One process alone, for the crash between two statements of one start. *)
OneProc          == {p1}
OneProcTransport == [p \in OneProc |-> "http"]
=============================================================================
