---------------------------- MODULE FeedProperties ----------------------------
(* What Home keeps while it is scrolled, and what its order keeps.          *)
EXTENDS Feed

\* A screen that scrolls on in one ordering shows every video of it once, in its
\* order, whatever other screens, the library and the clock do meanwhile
\* (SnapshotStore: "what makes page 2 mean the same thing").
ScrollIsWhole ==
  /\ IsInjective(scroll.shown)
  /\ \A e \in Range(store) :
       e.id = scroll.id =>
         scroll.shown = SubSeq(e.ranked, scroll.offset - Len(scroll.shown) + 1, scroll.offset)

\* An ordering that says it is of a library has all of its videos that its own
\* ranking was given and did not exclude, whoever appended, failed or was
\* late meanwhile (SetLibrary: "called after the ranking has succeeded rather
\* than before it").  That the ranking is given that library is not said: an
\* older projection may have come back in between.
StampedHasCaughtUp ==
  \A e \in Range(store) :
    e.library # Unstamped => e.library \ Range(e.ranked) \subseteq e.leftOut

\* A video that stays in the library and is no longer excluded is offered again
\* and again, whatever the orderings that have been scrolled, or stamped from a
\* projection that went back, lack of it.
StayingVideoIsOffered ==
  \A v \in Video :
    <>[](v \in library \ excluded) => []<>(\E e \in Range(store) : v \in Range(e.ranked))

-----------------------------------------------------------------------------
(* The order of one page, for every order the scores may put videos in.     *)

Orders == UNION {SetToSeqs(s) : s \in SUBSET DOMAIN Slot}

\* What the quota and the diversity of channels make of any order is one of the
\* orderings the feed reckons with: it "reorders and never drops"
\* (applyChannelDiversity), but for the shares that were set to nothing.
ReordersOnly(q) == Diversity(Quota(q)) \in Orderings({v \in Range(q) : ~Off(Slot[v])})

Sharing == {b \in Range(Buckets) : ~Off(b) /\ Places(b) > 0}

\* No bucket has a video of a later round before all of the buckets had their
\* places in the rounds before it, or ran out (applyDiscoveryQuota).
SharesAreHad(q) ==
  LET out == Quota(q)
      In(b, n) == Cardinality({i \in 1..n : Slot[out[i]] = b})
  IN  \A n \in DOMAIN out, b \in Sharing :
        Slot[out[n]] \in Sharing =>
          LET had == (In(Slot[out[n]], n) - 1) \div Places(Slot[out[n]])
          IN  In(b, n) >= Min({had * Places(b), In(b, Len(out))})

Before(q, u, v) == \E i, j \in DOMAIN q : i < j /\ q[i] = u /\ q[j] = v

\* Where two videos of a channel come too close, only what was held back
\* follows, in the order of its scores (applyChannelDiversity).
CrowdsOnlyAtTheEnd(q) ==
  LET out == Diversity(q)
      Crowded(j) == \E i \in 1..(j - 1) : /\ Channel[out[i]] = Channel[out[j]]
                                          /\ Channel[out[j]] # NoChannel
                                          /\ j - i < Gap(out[j])
  IN  \A j \in DOMAIN out : Crowded(j) => 
        \A k, l \in j..Len(out) : k < l => Before(q, out[k], out[l])

\* They are about the constants, so the first state will do.  A page loses and
\* doubles nothing, for any order of scores (applyDiscoveryQuota).
PagesReorderOnly == Init => \A q \in Orders : ReordersOnly(q)

\* A page gives every bucket its places, for any order of scores.
PagesShareFairly == Init => \A q \in Orders : SharesAreHad(q)

\* A page keeps a channel's videos apart, for any order of scores.
PagesKeepChannelsApart == Init => \A q \in Orders : CrowdsOnlyAtTheEnd(q)
=============================================================================
