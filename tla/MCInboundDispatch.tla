-------------------------- MODULE MCInboundDispatch --------------------------
(* Small instances of InboundDispatch.  Agents and app sockets are         *)
(* interchangeable.                                                        *)
EXTENDS InboundDispatch, TLC

Callers == Permutations(Calls)

(* Bounds of the run with several calls: one cleanup at a time; what       *)
(* follows the moment the second caller too is given a session is not      *)
(* explored.                                                               *)
OneCleanup == Cardinality({t \in Task : todo[t] # <<>>}) <= 1
OneSession == Cardinality({c \in Calls : session[c] # "none"}) <= 1
=============================================================================
