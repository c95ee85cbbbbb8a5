--------------------------- MODULE MCCallLifecycle ---------------------------
(* Small instances of CallLifecycle.  Start i, end request, sockets and    *)
(* their call ids are given by MCCallId over plain strings.                *)
EXTENDS CallLifecycle

MCCallIdOne == [x \in Starts \cup Enders \cup Apps \cup Monitors |-> "c1"]
=============================================================================
