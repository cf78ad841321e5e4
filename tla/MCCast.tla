------------------------------- MODULE MCCast -------------------------------
(* One speaker of either kind, two songs and a broadcast.                   *)
EXTENDS CastProperties

MCAsked == {<<"air", "song", "chant">>}
MCEdits == {<<"chant", "song">>}
=============================================================================
