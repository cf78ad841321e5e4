------------------------------- MODULE FeedMix -------------------------------
(***************************************************************************)
(* The order of the Home feed (services/recsys, usecase/quota.go): videos   *)
(* of a page are taken from six buckets by share, and then kept apart by    *)
(* channel.                                                                 *)
(*                                                                          *)
(* Scores are drawn with noise inside a bucket, so a bucket may come in any *)
(* order.  Shares are whole percentages.                                    *)
(***************************************************************************)
EXTENDS Integers, FiniteSets, SequencesExt, FiniteSetsExt

CONSTANTS
  Channel,      \* of each video; NoChannel if it is not known
  NoChannel,
  Slot,         \* which bucket a video competes in, or "other"
  Mix,          \* the viewer's three sliders
  FreshShare,   \* shareFreshSubscribed, in percent
  Window,       \* quotaWindow
  PerChannel,   \* maxPerChannelPerWindow
  FreshGap      \* freshChannelGap

Buckets    == <<"fresh", "affinity", "subscribed", "discovery", "continue", "rewatch">>
Adjustable == {"affinity", "subscribed", "discovery"}
DefaultMix == [subscribed |-> 60, affinity |-> 20, discovery |-> 20]

ASSUME FeedMixAssumption ==
  /\ DOMAIN Slot = DOMAIN Channel /\ IsFiniteSet(DOMAIN Slot)
  /\ \A v \in DOMAIN Slot : Slot[v] \in Range(Buckets) \cup {"other"}
  /\ Mix \in [Adjustable -> Nat] /\ FreshShare \in 0..40
  /\ Window \in Nat \ {0} /\ PerChannel \in Nat \ {0} /\ FreshGap \in Nat

Total(mix) == mix["affinity"] + mix["subscribed"] + mix["discovery"]
Wanted     == IF Total(Mix) = 0 THEN DefaultMix ELSE Mix

\* A share set to nothing is switched off; the other buckets have a floor.
Off(b) == b \in Adjustable /\ Wanted[b] = 0

\* How many a bucket gets of each round.
Places(b) ==
  CASE b \in Adjustable -> (Wanted[b] * (82 - FreshShare) * Window) \div (100 * Total(Wanted))
    [] b = "fresh"      -> Max({1, (FreshShare * Window) \div 100})
    [] b = "continue"   -> Max({1, (10 * Window) \div 100})
    [] b = "rewatch"    -> Max({1, (8 * Window) \div 100})

\* Split by slot, in the order of q; what is switched off is dropped.
InBucket(q, b) ==
  LET upTo[n \in 0..Len(q)] ==
        IF n = 0 THEN <<>>
        ELSE IF Slot[q[n]] = b THEN Append(upTo[n - 1], q[n]) ELSE upTo[n - 1]
  IN  IF Off(b) THEN <<>> ELSE upTo[Len(q)]

\* What the n-th round takes of a bucket, and of all of them.
Cut(q, b, n) ==
  SubSeq(InBucket(q, b), (n - 1) * Places(b) + 1, Min({n * Places(b), Len(InBucket(q, b))}))
Round(q, n) == FlattenSeq([i \in DOMAIN Buckets |-> Cut(q, Buckets[i], n)])

Placeless(q) ==
  FlattenSeq([i \in DOMAIN Buckets |-> IF Places(Buckets[i]) = 0 THEN InBucket(q, Buckets[i]) ELSE <<>>])

\* Variant: a bucket whose share rounds to no place is forgotten.
QuotaRounded(q) == FlattenSeq([n \in DOMAIN q |-> Round(q, n)]) \o InBucket(q, "other")

\* Variant: a bucket is taken whole in its first round.
QuotaWhole(q) ==
  FlattenSeq([i \in DOMAIN Buckets |-> InBucket(q, Buckets[i])]) \o InBucket(q, "other")

\* applyDiscoveryQuota: rounds, while any bucket with places has videos left;
\* then the buckets whose share rounds to no place, and what is in none.
Quota(q) ==
  FlattenSeq([n \in DOMAIN q |-> Round(q, n)]) \o Placeless(q) \o InBucket(q, "other")

-----------------------------------------------------------------------------
(* applyChannelDiversity: what is placed, what is held back in score order,  *)
(* and where the current window began.                                      *)

Gap(v) == IF Slot[v] = "fresh" THEN FreshGap ELSE Max({1, Window \div PerChannel})

Kin(v, placed) == {i \in DOMAIN placed : Channel[placed[i]] = Channel[v]}

\* Variant: channels are counted and not spaced.
FitsByCount(v, s) ==
  \/ Channel[v] = NoChannel
  \/ Slot[v] = "fresh"
  \/ Cardinality({i \in Kin(v, s.placed) : i > s.start}) < PerChannel

Fits(v, s) ==
  \/ Channel[v] = NoChannel
  \/ /\ \/ Slot[v] = "fresh"
        \/ Cardinality({i \in Kin(v, s.placed) : i > s.start}) < PerChannel
     /\ \A i \in Kin(v, s.placed) : Len(s.placed) + 1 - i >= Gap(v)

Full(s)      == Len(s.placed) - s.start >= Window
NewWindow(s) == IF Full(s) THEN [s EXCEPT !.start = Len(s.placed)] ELSE s

Put(v, s)      == [s EXCEPT !.placed = Append(s.placed, v)]
HoldBack(v, s) == [s EXCEPT !.held = Append(s.held, v)]

\* In order, up to the first that does not fit.
Drain(s) ==
  LET upTo[n \in 0..Len(s.held)] ==
        IF n = 0 THEN [s EXCEPT !.held = <<>>]
        ELSE LET a == upTo[n - 1]
                 v == s.held[n]
             IN  IF a.held # <<>> \/ Full(a) \/ ~Fits(v, a) THEN HoldBack(v, a) ELSE Put(v, a)
  IN  upTo[Len(s.held)]

Place(s, v) ==
  LET drained == Drain(NewWindow(s))
      ready   == IF Full(drained) THEN Drain(NewWindow(drained)) ELSE drained
  IN  IF Fits(v, ready) THEN Put(v, ready) ELSE HoldBack(v, ready)

Unplaced == [placed |-> <<>>, held |-> <<>>, start |-> 0]

\* All of q, one after the other.
Placing(q) ==
  LET upTo[n \in 0..Len(q)] == IF n = 0 THEN Unplaced ELSE Place(upTo[n - 1], q[n])
  IN  upTo[Len(q)]

Diversity(q) == Placing(q).placed \o Placing(q).held
=============================================================================
