----------------------------- MODULE MCEviction -----------------------------
(* Three videos, one of them twice the size of the others.                  *)
EXTENDS Eviction

CONSTANTS v1, v2, v3

MCVideo == {v1, v2, v3}
MCSize == [v \in MCVideo |-> IF v = v3 THEN 2 ELSE 1]
=============================================================================
