----------------------------- MODULE MCAccounts -----------------------------
(* One member with two playlists, one of which upstream never hands over;   *)
(* what lists hold is below the cap or past it.                             *)
EXTENDS AccountProperties

CONSTANTS a, la, lc, v, w, x, y

MCMember == {a}
MCList == {la, lc}
MCOwner == [l \in MCList |-> a]
MCContents == {<<w, x>>, <<v, w, y, x>>}
MCNone == [m \in MCMember |-> {}]
MCFollows == [m \in MCMember |-> {v}]
=============================================================================
