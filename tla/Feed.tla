--------------------------------- MODULE Feed ---------------------------------
(***************************************************************************)
(* Home's frozen orderings (services/recsys, usecase/snapshot.go, the pages  *)
(* of ranker.go, and the projection of the library behind them,              *)
(* adapter/catalogclient/features.go), for one member and one topic.         *)
(*                                                                          *)
(* Readers are that member's screens; one of them is scrolled, the others   *)
(* only ever open Home, and what those are answered is not looked at.  A     *)
(* step holds the store's lock once, but choosing an ordering and ranking    *)
(* what is to join it are one step.  Ids are used again once nobody holds    *)
(* them, and an expired ordering is one no longer stored.  A fingerprint is  *)
(* the set it is computed from.  What a ranking is told to leave out, by the *)
(* member's history, a video's state and age, or the mix its request came    *)
(* with, is one set that changes.                                           *)
(***************************************************************************)
EXTENDS FeedMix, FiniteSets

CONSTANTS
  Video,
  First,       \* the library at first
  Reader,
  Scroller,    \* the reader that is scrolled
  Id,          \* names of orderings: more than can be held at once
  NoId,
  NotLoaded,
  PageSize,
  MaxChanges,  \* bound: videos that come and go, or are excluded and no longer
  MaxFaults    \* bound: calls that fail, restarts

ASSUME FeedAssumption ==
  /\ First \subseteq Video /\ IsFiniteSet(Video)
  /\ IsFiniteSet(Reader) /\ Scroller \in Reader
  /\ Id \subseteq Nat /\ IsFiniteSet(Id) /\ NoId \notin Id \cup Video
  /\ \A videos \in SUBSET Video : videos # NotLoaded
  /\ PageSize \in Nat \ {0} /\ MaxChanges \in Nat /\ MaxFaults \in Nat

VARIABLES
  library,      \* the catalog's videos
  excluded,     \* those that scoreVideo excludes, or the mix switches off
  projection,   \* FeatureSource.cached
  store,        \* SnapshotStore.entries, in the order they were created
  req,          \* what each reader's request is at
  scroll,       \* what the scrolled screen shows, and of which ordering
  changes, faults

\* In whatever order rankAll puts what it does not leave out: scores are noisy,
\* and FeedMix neither drops nor repeats anything.
Orderings(videos) == {q \in [1..Cardinality(videos) -> videos] : Range(q) = videos}

\* What rankAll has to order: the projection as it is now, less what is excluded.
Rankable == projection \ excluded

bounds == <<changes, faults>>
vars   == <<library, excluded, projection, store, req, scroll, bounds>>

Idle  == [pc |-> "idle"]
Blank == [id |-> NoId, offset |-> 0, shown |-> <<>>, more |-> FALSE]

Init ==
  /\ library = First /\ excluded \in SUBSET Video
  /\ projection = NotLoaded
  /\ store = <<>>
  /\ req = [r \in Reader |-> Idle]
  /\ scroll = Blank
  /\ changes = 0 /\ faults = 0

Fault == faults < MaxFaults /\ faults' = faults + 1

At(r, pc)   == req[r].pc = pc
Goes(r, to) == req' = [req EXCEPT ![r] = to]

Stored    == {store[i].id : i \in DOMAIN store}
Entry(id) == CHOOSE e \in Range(store) : e.id = id
Update(e)   == store' = [i \in DOMAIN store |-> IF store[i].id = e.id THEN e ELSE store[i]]

Named == Stored \cup {scroll.id}
                \cup {req[r].id : r \in {s \in Reader : req[s].pc # "idle"}}
Fresh == CHOOSE id \in Id : id \notin Named

-----------------------------------------------------------------------------
(* A page (GetFeedPage).                                                    *)

Asking(pc, from, seen) == [pc |-> pc, id |-> from.id, offset |-> from.offset, library |-> seen]

\* The next one with the token of the last, the first with none: the same
\* scroll read again, or a new one.  A stale projection is answered with; only
\* one never loaded is waited for.
Ask(r) ==
  /\ At(r, "idle")
  /\ \E from \in {Blank} \cup {s \in {scroll} : r = Scroller /\ s.more} :
       Goes(r, IF projection = NotLoaded
               THEN Asking("loading", from, library)
               ELSE Asking("choose", from, projection))
  /\ UNCHANGED <<library, excluded, projection, store, scroll, bounds>>

\* Whoever has read the library says what it is, however long ago that was.
Load(r) ==
  /\ At(r, "loading")
  /\ \/ /\ projection' = req[r].library
        /\ Goes(r, Asking("choose", req[r], req[r].library))
        /\ UNCHANGED faults
     \/ /\ Fault
        /\ Goes(r, IF projection = NotLoaded THEN Idle ELSE Asking("choose", req[r], projection))
        /\ UNCHANGED projection
  /\ UNCHANGED <<library, excluded, store, scroll, changes>>

\* What of an ordering answers the request: the page at its offset, which is
\* never rewound, and a token unless it was the last.  A page that continues the
\* scroll on screen joins it, any other begins one.
Answer(r, id, ordering) ==
  LET offset == req[r].offset
      page   == SubSeq(ordering, offset + 1, Min({offset + PageSize, Len(ordering)}))
      goesOn == offset > 0 /\ <<scroll.id, scroll.offset>> = <<id, offset>>
  IN  /\ Goes(r, Idle)
      /\ scroll' = IF r # Scroller THEN scroll ELSE
           [id     |-> id,
            offset |-> offset + Len(page),
            shown  |-> IF goesOn THEN scroll.shown \o page ELSE page,
            more   |-> offset + PageSize < Len(ordering)]

\* Get, or Latest.
Chosen(id) ==
  IF id \in Stored \/ store = <<>> THEN id ELSE store[Len(store)].id

\* Variant: the ordering has already claimed the library it was to catch up with.
RankFailsClaimed(r, id) ==
  /\ Fault /\ Goes(r, Idle)
  /\ IF id = NoId THEN UNCHANGED store
     ELSE Update([Entry(id) EXCEPT !.library = req[r].library])

RankFails(r, id) == Fault /\ Goes(r, Idle) /\ UNCHANGED store

\* An ordering of the library as it is now is served; behind one of another
\* library goes what is ranked now, and where there is none one is made.  The
\* ranking reads the projection again, and the member's signals.
Choose(r) ==
  /\ At(r, "choose")
  /\ LET id == Chosen(req[r].id)
         Rank(known, ordering) ==
           \/ /\ Goes(r, [pc |-> "keep", id |-> known, offset |-> req[r].offset,
                          library |-> req[r].library, found |-> Rankable,
                          ordering |-> IF r = Scroller THEN ordering ELSE <<>>])
              /\ UNCHANGED <<store, faults>>
           \/ RankFails(r, known)
     IN  \/ id \notin Stored /\ Rank(NoId, <<>>) /\ UNCHANGED scroll
         \/ /\ id \in Stored /\ Entry(id).library # req[r].library
            /\ Rank(id, Entry(id).ranked) /\ UNCHANGED scroll
         \/ /\ id \in Stored /\ Entry(id).library = req[r].library
            /\ Answer(r, id, Entry(id).ranked) /\ UNCHANGED <<store, faults>>
  /\ UNCHANGED <<library, excluded, projection, changes>>

\* Not yet said which library an ordering is of.
Unstamped == {NoId}

\* Variant: what another request has put there meanwhile is not seen.
NewBlindly(ranked, known, found) == found \ Range(known)

\* What the ordering has not, whatever it had when it was read.
New(ranked, known, found) == found \ Range(ranked)

\* Put, or Append: behind all that is there.  What was put, or grew, is read
\* again before it is served.
Keep(r) ==
  /\ At(r, "keep")
  /\ LET q == req[r]
         GoesToStamp(id, again) ==
           Goes(r, [pc |-> "stamp", id |-> id, offset |-> q.offset, library |-> q.library,
                    found |-> q.found, again |-> again,
                    ordering |-> IF again THEN <<>> ELSE q.ordering])
     IN  \/ /\ q.id = NoId /\ Id \ Named # {}
            /\ \E ranked \in Orderings(q.found) :
                 store' = Append(store, [id |-> Fresh, ranked |-> ranked,
                                         library |-> Unstamped, leftOut |-> {}])
            /\ GoesToStamp(Fresh, TRUE)
         \/ /\ q.id \in Stored
            /\ LET e == Entry(q.id)
               IN  \E more \in Orderings(New(e.ranked, q.ordering, q.found)) :
                     /\ Update([e EXCEPT !.ranked = @ \o more])
                     /\ GoesToStamp(q.id, more # <<>>)
         \/ /\ q.id # NoId /\ q.id \notin Stored
            /\ GoesToStamp(q.id, FALSE) /\ UNCHANGED store
  /\ UNCHANGED <<library, excluded, projection, scroll, bounds>>

\* SetLibrary, with the library that was read before ranking, and the answer.
\* Ghost leftOut: what of that library the ranking was not given, or excluded.
Stamp(r) ==
  /\ At(r, "stamp")
  /\ LET q == req[r]
     IN  /\ IF q.id \in Stored
            THEN Update([Entry(q.id) EXCEPT !.library = q.library,
                                            !.leftOut = q.library \ q.found])
            ELSE UNCHANGED store
         /\ Answer(r, q.id, IF ~q.again THEN q.ordering
                            ELSE IF q.id \in Stored THEN Entry(q.id).ranked ELSE <<>>)
  /\ UNCHANGED <<library, excluded, projection, bounds>>

PageGoesOn(r) == Load(r) \/ Choose(r) \/ Keep(r) \/ Stamp(r)

-----------------------------------------------------------------------------
(* What the member does elsewhere, the library, and time.                   *)

\* RecordSignal, of a video watched for more than a moment, and DeleteUserData.
InvalidateUser ==
  /\ store' = <<>>
  /\ UNCHANGED <<library, excluded, projection, req, scroll, bounds>>

Change == changes < MaxChanges /\ changes' = changes + 1

LibraryChanges ==
  /\ Change
  /\ \E v \in Video : library' = SymDiff(library, {v})
  /\ UNCHANGED <<excluded, projection, store, req, scroll, faults>>

\* A dislike, a video watched to its end, one that cannot be played or is too
\* old now, a share set to nothing: all seen by the next ranking only.
ExcludedChanges ==
  /\ Change
  /\ \E v \in Video : excluded' = SymDiff(excluded, {v})
  /\ UNCHANGED <<library, projection, store, req, scroll, faults>>

\* Behind the back of a request that met it stale.
Refresh ==
  /\ projection \notin {NotLoaded, library}
  /\ projection' = library
  /\ UNCHANGED <<library, excluded, store, req, scroll, bounds>>

\* Variant: reading an ordering pushes its deadline back.
ExpireUnread ==
  /\ store # <<>> /\ scroll.id # Head(store).id
  /\ store' = Tail(store)
  /\ UNCHANGED <<library, excluded, projection, req, scroll, bounds>>

\* Thirty minutes after it was created, so the oldest goes first.
Expire ==
  /\ store # <<>>
  /\ store' = Tail(store)
  /\ UNCHANGED <<library, excluded, projection, req, scroll, bounds>>

Restart ==
  /\ Fault
  /\ projection' = NotLoaded /\ store' = <<>>
  /\ req' = [r \in Reader |-> Idle]
  /\ UNCHANGED <<library, excluded, scroll, changes>>

Next ==
  \/ \E r \in Reader : Ask(r) \/ PageGoesOn(r)
  \/ InvalidateUser
  \/ LibraryChanges \/ ExcludedChanges \/ Refresh \/ Expire \/ Restart

Spec == Init /\ [][Next]_vars

\* Calls return, somebody keeps asking for Home, the projection is refreshed and
\* an ordering lives for the thirty minutes it has, read or not.
Fairness ==
  /\ \A r \in Reader : WF_vars(Ask(r)) /\ WF_vars(PageGoesOn(r))
  /\ WF_vars(Refresh) /\ WF_vars(Expire)

FairSpec == Spec /\ Fairness
=============================================================================
