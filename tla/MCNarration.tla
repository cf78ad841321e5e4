----------------------------- MODULE MCNarration -----------------------------
(* One stream, two goroutines at a time.                                    *)
EXTENDS NarrationProperties

CONSTANTS g1, g2, s1

MCObj == 1..5
MCTogether == {{"stream"}, {"file"}}
=============================================================================
