------------------------------ MODULE MCStreams ------------------------------
(* Two requests at a time.                                                  *)
EXTENDS StreamProperties

CONSTANTS r1, r2

MCTogether == {{"playlist", "segment"}, {"mux", "start"}, {"segment", "instant"}}
MCUrl == 1..8
=============================================================================
