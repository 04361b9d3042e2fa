----------------------------- MODULE MCAPICache -----------------------------
(* APICache for TLC: three callers, so that one can lead, one wait and one   *)
(* come late, on up to two keys.                                             *)
EXTENDS APICache, TLC

CONSTANTS r1, r2, r3, k1, k2, Forbidden, NotFound

TwoCallers == {r1, r2}
ThreeCallers == {r1, r2, r3}
OneKey == {k1}
TwoKeys == {k1, k2}
AllStatuses == {OK, Forbidden, NotFound}
JustForbidden == {Forbidden}
OneByte == {1}
TwoBytes == {1, 2}

Symmetry == Permutations(Callers) \cup Permutations(Keys)
=============================================================================
