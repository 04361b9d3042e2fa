---------------------------- MODULE MCMediaCache ----------------------------
(* MediaCache for TLC: two requests, so that two can write one file, and an  *)
(* image and an avatar, so that a pass has files to choose from.             *)
EXTENDS MediaCache, TLC

CONSTANTS r1, r2, image, avatar

TwoReqs == {r1, r2}
OneImage == {image}
OneAvatar == {avatar}
NoAvatars == {}

Symmetry == Permutations(Reqs)
=============================================================================
