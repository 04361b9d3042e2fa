---------------------------- MODULE MCRateMeter ----------------------------
(* RateMeter, and with it RateLimiter, for TLC: tokens of two units that     *)
(* come three units a tick, metered over a few ticks.                        *)
EXTENDS RateMeter, TLC

CONSTANTS c1, c2

TwoClients == {c1, c2}
NothingOrAnother == {<<>>} \cup {<<c>> : c \in Clients}

Symmetry == Permutations(Clients)
=============================================================================
