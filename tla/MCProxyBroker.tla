---------------------------- MODULE MCProxyBroker ----------------------------
(* Instances of ProxyBroker for TLC.                                       *)
EXTENDS ProxyBroker, TLC

CONSTANTS p1, p2, k1, q1

ToolOnly == (k1 :> p1)              \* one tool call in the first process
NoCalls  == [c \in {} |-> p1]
PollOnly == (q1 :> p1)              \* the recovery timer of the first process
=============================================================================
