----------------------------- MODULE MCThrottle -----------------------------
(* DAThrottle for TLC: three requests, so that one can hold the slot, one    *)
(* the mutex and one the queue.                                              *)
EXTENDS DAThrottle, TLC

CONSTANTS r1, r2, r3

ThreeReqs == {r1, r2, r3}
TwoReqs == {r1, r2}
NoneProxied == {}
OneProxied == {r1}

=============================================================================
