------------------------- MODULE MCSessionLifecycle -------------------------
(* Instances of SessionLifecycle for TLC.                                  *)
EXTENDS SessionLifecycle, TLC

CONSTANTS s1, s2, c1, g1, g2

OneCall == (c1 :> s1)
NoCall  == [c \in {} |-> s1]
Alike   == Permutations(Brokers) \cup Permutations(Closures)
=============================================================================
