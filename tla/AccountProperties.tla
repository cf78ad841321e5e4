-------------------------- MODULE AccountProperties --------------------------
(* What the mirror of the members' YouTube accounts keeps.                  *)
EXTENDS AccountMirror

\* Rows are well formed, no two videos of a playlist share a place, a playlist
\* is stamped once, and whoever scans, an account is not failed more often than
\* the limit and one pass more.
AccountsTypeOK ==
  /\ account \in [Member -> [file : BOOLEAN, state : {"OK", "EXPIRED"},
                             failures : 0..(FailureLimit + 1)]]
  /\ DOMAIN rows \subseteq List
  /\ \A l \in DOMAIN rows : /\ DOMAIN rows[l].items \subseteq Video
                            /\ IsInjective(rows[l].items)
  /\ IsInjective(stamped) /\ Range(stamped) \subseteq DOMAIN rows
  /\ \A m \in Member : /\ taste[m].follows \subseteq Follows[m]
                       /\ taste[m].likes \subseteq Likes[m]
  /\ later \in [Member -> SUBSET Video]

\* A pass takes a video off a playlist only if the read it writes went past the
\* end of the list and did not meet it, or could not write it: never one that
\* lies beyond the cap (ImportPlaylistItems: "neither ever removes a video the
\* read did not cover").
RemovedOnlyIfUnseen ==
  [][\A l \in DOMAIN rows \cap DOMAIN rows' :
       \A v \in DOMAIN rows[l].items \ DOMAIN rows'[l].items :
         \E p \in Pass :
           /\ At(p, "import") /\ pass[p].l = l
           /\ v \notin pass[p].all \/ (v \in Range(pass[p].read) /\ faults' > faults)]_<<rows, pass, faults>>

-----------------------------------------------------------------------------
\* The ticker fires and a request upstream or to the catalog returns.  What
\* members do is never owed.
Fairness == WF_vars(Hourly) /\ \A p \in Pass : WF_vars(PassGoesOn(p))

FairSpec == Spec /\ Fairness

Works(m) == session[m] = "live" /\ Usable(m)

InOrder(items, q) ==
  /\ DOMAIN items = Range(q)
  /\ \A i, j \in DOMAIN q : i < j => items[q[i]] < items[q[j]]

Theirs(m, lists) == {l \in lists : Owner[l] = m}

\* Playlists, their order, Watch later and the ranker say what YouTube says, as
\* far as a read goes and an empty answer can be believed.
InStep(m) ==
  /\ Theirs(m, upstream.listed) # {} => Theirs(m, DOMAIN rows) = Theirs(m, upstream.listed)
  /\ \A l \in Theirs(m, DOMAIN rows) \ Unreadable :
       Len(upstream.contents[l]) < Limit => InOrder(rows[l].items, upstream.contents[l])
  /\ Len(upstream.later[m]) < Limit => later[m] = Range(upstream.later[m])
  /\ Follows[m] \cup Likes[m] \subseteq taste[m].ranked

\* While every account works, whatever failed, was read in part, raced or
\* crashed before: each member's mirror is in step in the end.
MirrorCatchesUp ==
  <>[](\A m \in Member : Works(m)) => <>[](\A m \in Member : InStep(m))

\* A session that is over is not used for ever: the account is given up, or its
\* owner pastes another or removes it.
DeadSessionIsGivenUp ==
  \A m \in Member : session[m] = "dead" ~> ~Usable(m) \/ session[m] = "live"
=============================================================================
