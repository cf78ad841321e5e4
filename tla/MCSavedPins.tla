---------------------------- MODULE MCSavedPins ----------------------------
(* Two members, two videos, transactions overlapping two by two.     *)
EXTENDS SavedPins, TLC

CONSTANTS a, b, v1, v2, t1, t2, none

MCUser == {a, b}
MCTx == {t1, t2}
MCTwoVideos == {v1, v2}

Symmetric == Permutations(MCUser) \cup Permutations(MCTx)
=============================================================================
