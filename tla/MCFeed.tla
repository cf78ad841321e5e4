------------------------------- MODULE MCFeed -------------------------------
(* Two screens and two videos; for the order of a page six, of two channels *)
(* and of none, in buckets that have places, have none and are switched off. *)
EXTENDS FeedProperties

CONSTANTS a1, a2, a3, a4, b1, n1, A, B, r1, r2

MCVideo == {a1, b1}
MCChannel == [v \in {a1, a2, a3, a4, b1, n1} |-> CASE v = b1 -> B [] v = n1 -> NoChannel [] OTHER -> A]
MCSlot == [v \in {a1, a2, a3, a4, b1, n1} |->
             CASE v = a1 -> "subscribed" [] v = a2 -> "fresh"      [] v = a3 -> "fresh"
               [] v = a4 -> "discovery"  [] v = b1 -> "affinity"   [] v = n1 -> "other"]
MCMix == [subscribed |-> 60, affinity |-> 20, discovery |-> 0]
MCId == 1..6
=============================================================================
