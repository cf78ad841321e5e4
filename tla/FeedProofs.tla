------------------------------ MODULE FeedProofs ------------------------------
(***************************************************************************)
(* Home, for any number of screens, videos and faults.                      *)
(*                                                                          *)
(* An ordering that says it is of a library lacks nothing of it but what its *)
(* own ranking did not find: what a request's ranking found is followed     *)
(* from step to step, until the ordering has all of it.  Orderings only     *)
(* grow, and a name given to a new one is nobody's, so what one request     *)
(* knows of its ordering survives what the others do.                       *)
(*                                                                          *)
(* A scrolled screen shows a stretch of its ordering: orderings repeat      *)
(* nothing and are only appended to, and the page in hand begins where the  *)
(* screen ends.                                                             *)
(*                                                                          *)
(* The order of a page: the quota and the diversity of channels are lists   *)
(* of the same videos as they were given, bucket by bucket and one by one.  *)
(***************************************************************************)
EXTENDS FeedProperties, FiniteSetTheorems, SequenceTheorems, WellFoundedInduction, TLAPS

Ordering == [id : Id, ranked : Seq(Video), library : (SUBSET Video) \cup {Unstamped},
             leftOut : SUBSET Video]

\* What a request knows of the library it read, and of what was found to rank.
Stage(r) ==
  /\ req[r].pc # "idle" => req[r].library \subseteq Video
  /\ req[r].pc = "choose" => projection # NotLoaded
  /\ req[r].pc \in {"keep", "stamp"} => req[r].found \subseteq Video
  /\ req[r].pc = "stamp" =>
       \A i \in DOMAIN store :
         store[i].id = req[r].id => req[r].found \subseteq Range(store[i].ranked)

Settled(e) == e.library # Unstamped => e.library \ Range(e.ranked) \subseteq e.leftOut

AllSettled == \A i \in DOMAIN store : Settled(store[i])

FeedShape ==
  /\ library \subseteq Video
  /\ projection = NotLoaded \/ projection \subseteq Video
  /\ store \in Seq(Ordering)
  /\ DOMAIN req = Reader
  /\ \A i, j \in DOMAIN store : store[i].id = store[j].id => i = j

FeedInv ==
  /\ FeedShape
  /\ \A r \in Reader : Stage(r)
  /\ AllSettled

-----------------------------------------------------------------------------
LEMMA EntryIsIt ==
  ASSUME FeedShape, NEW i \in DOMAIN store
  PROVE  Entry(store[i].id) = store[i]
<1>1. store[i] \in Range(store)
  BY DEF Range
<1>2. \A e \in Range(store) : e.id = store[i].id => e = store[i]
  BY DEF FeedShape, Range
<1> QED
  BY <1>1, <1>2 DEF Entry

LEMMA StoredIsSomewhere ==
  ASSUME FeedShape, NEW id \in Stored
  PROVE  \E i \in DOMAIN store : store[i].id = id /\ Entry(id) = store[i]
BY EntryIsIt DEF Stored

LEMMA OrderingsAreOf ==
  ASSUME NEW videos \in SUBSET Video, NEW q \in Orderings(videos)
  PROVE  q \in Seq(Video) /\ Range(q) = videos
<1>1. q \in [1..Cardinality(videos) -> videos] /\ Range(q) = videos
  BY DEF Orderings
<1>2. Cardinality(videos) \in Nat
  BY FS_CardinalityType, FS_Subset, FeedAssumption
<1> QED
  BY <1>1, <1>2

\* What a step may do to the orderings: one that is there afterwards was there
\* before and has not shrunk, or it has a name nobody held.
OldOrNew ==
  \A i \in DOMAIN store' :
    \/ store'[i].id \notin Named
    \/ \E j \in DOMAIN store : /\ store[j].id = store'[i].id
                               /\ Range(store[j].ranked) \subseteq Range(store'[i].ranked)

\* What it may do to the projection.
StaysLoaded ==
  /\ projection' = NotLoaded \/ projection' \subseteq Video
  /\ projection # NotLoaded => projection' # NotLoaded

\* What one request knows survives the steps of others.
LEMMA StageSurvives ==
  ASSUME FeedInv, NEW r \in Reader, req'[r] = req[r], StaysLoaded, OldOrNew
  PROVE  Stage(r)'
<1>1. Stage(r)
  BY DEF FeedInv
<1>2. /\ req[r].pc # "idle" => req[r].library \subseteq Video
      /\ req[r].pc = "choose" => projection' # NotLoaded
      /\ req[r].pc \in {"keep", "stamp"} => req[r].found \subseteq Video
  BY <1>1 DEF Stage, StaysLoaded
<1>3. ASSUME req[r].pc = "stamp", NEW i \in DOMAIN store', store'[i].id = req[r].id
      PROVE  req[r].found \subseteq Range(store'[i].ranked)
  <2>1. req[r].id \in Named
    BY <1>3 DEF Named
  <2>2. PICK j \in DOMAIN store : /\ store[j].id = store'[i].id
                                  /\ Range(store[j].ranked) \subseteq Range(store'[i].ranked)
    BY <1>3, <2>1 DEF OldOrNew
  <2> QED
    BY <1>1, <1>3, <2>2 DEF Stage
<1> QED
  BY <1>2, <1>3 DEF Stage

-----------------------------------------------------------------------------
(* Steps that leave the orderings alone.                                    *)
LEMMA SameStoreIsOld ==
  ASSUME FeedShape, store' = store PROVE OldOrNew
BY DEF OldOrNew

LEMMA SettledSurvives ==
  ASSUME FeedInv, store' = store PROVE AllSettled'
BY DEF FeedInv, AllSettled, Settled, Unstamped

\* A request moves and nothing else changes but perhaps the projection.
LEMMA RequestMoves ==
  ASSUME FeedInv, NEW r \in Reader, NEW q, Goes(r, q), store' = store, library' = library,
         StaysLoaded, Stage(r)'
  PROVE  FeedInv'
<1>1. DOMAIN req' = Reader /\ \A s \in Reader : s # r => req'[s] = req[s]
  BY DEF Goes, FeedInv, FeedShape
<1>2. FeedShape'
  BY <1>1 DEF FeedInv, FeedShape, StaysLoaded
<1>3. \A s \in Reader : Stage(s)'
  BY <1>1, SameStoreIsOld, StageSurvives DEF FeedInv
<1> QED
  BY <1>2, <1>3, SettledSurvives DEF FeedInv

LEMMA ReqIs ==
  ASSUME FeedInv, NEW r \in Reader, NEW q, Goes(r, q)
  PROVE  req'[r] = q
BY DEF Goes, FeedInv, FeedShape

LEMMA IdleIsFine ==
  ASSUME FeedInv, NEW r \in Reader, Goes(r, Idle) PROVE Stage(r)'
<1>1. req'[r].pc = "idle"
  BY ReqIs DEF Idle
<1> QED
  BY <1>1 DEF Stage

LEMMA InitIsSettled ==
  ASSUME Init PROVE FeedInv
<1>1. FeedShape
  BY FeedAssumption DEF Init, FeedShape
<1>2. \A r \in Reader : Stage(r)
  BY DEF Init, Idle, Stage
<1>3. AllSettled
  BY DEF Init, AllSettled
<1> QED
  BY <1>1, <1>2, <1>3 DEF FeedInv

LEMMA AskKeeps ==
  ASSUME FeedInv, NEW r \in Reader, Ask(r) PROVE FeedInv'
<1>1. PICK from \in {Blank} \cup {s \in {scroll} : r = Scroller /\ s.more} :
        Goes(r, IF projection = NotLoaded THEN Asking("loading", from, library)
                ELSE Asking("choose", from, projection))
  BY DEF Ask
<1> DEFINE q == IF projection = NotLoaded THEN Asking("loading", from, library)
                ELSE Asking("choose", from, projection)
<1>2. Goes(r, q) /\ req'[r] = q
  BY <1>1, ReqIs
<1>3. q.library \subseteq Video /\ q.pc \in {"loading", "choose"}
  BY DEF Asking, FeedInv, FeedShape
<1>4. q.pc = "choose" => projection # NotLoaded
  BY DEF Asking
<1>5. UNCHANGED <<library, projection, store>>
  BY DEF Ask
<1> HIDE DEF q
<1>6. Stage(r)'
  BY <1>2, <1>3, <1>4, <1>5 DEF Stage
<1> QED
  BY <1>2, <1>5, <1>6, RequestMoves DEF StaysLoaded, FeedInv, FeedShape

LEMMA LoadKeeps ==
  ASSUME FeedInv, NEW r \in Reader, Load(r) PROVE FeedInv'
<1>1. store' = store /\ library' = library /\ req[r].pc = "loading"
  BY DEF Load, At
<1>2. req[r].library \subseteq Video
  BY <1>1 DEF FeedInv, Stage
<1> DEFINE q(seen) == Asking("choose", req[r], seen)
<1>3. \A seen : q(seen).pc = "choose" /\ q(seen).library = seen
  BY DEF Asking
<1> HIDE DEF q
<1>4. CASE projection' = req[r].library /\ Goes(r, q(req[r].library))
  <2>1. StaysLoaded /\ projection' # NotLoaded
    BY <1>2, <1>4, FeedAssumption DEF StaysLoaded
  <2>2. req'[r] = q(req[r].library)
    BY <1>4, ReqIs
  <2>3. Stage(r)'
    BY <1>2, <1>3, <2>1, <2>2 DEF Stage
  <2> QED
    BY <1>1, <1>4, <2>1, <2>3, RequestMoves
<1>5. CASE projection = NotLoaded /\ Goes(r, Idle) /\ UNCHANGED projection
  BY <1>1, <1>5, IdleIsFine, RequestMoves DEF StaysLoaded
<1>6. CASE projection # NotLoaded /\ Goes(r, q(projection)) /\ UNCHANGED projection
  <2>1. req'[r] = q(projection) /\ projection \subseteq Video
    BY <1>6, ReqIs DEF FeedInv, FeedShape
  <2>2. Stage(r)'
    BY <1>3, <1>6, <2>1 DEF Stage
  <2> QED
    BY <1>1, <1>6, <2>1, <2>2, RequestMoves DEF StaysLoaded
<1> QED
  BY <1>4, <1>5, <1>6 DEF Load, q

LEMMA AnswerIsIdle ==
  ASSUME NEW r \in Reader, NEW id, NEW ordering, Answer(r, id, ordering)
  PROVE  Goes(r, Idle)
BY DEF Answer

LEMMA ChooseKeeps ==
  ASSUME FeedInv, NEW r \in Reader, Choose(r) PROVE FeedInv'
<1>1. /\ library' = library /\ projection' = projection /\ store' = store
      /\ req[r].pc = "choose"
  BY DEF Choose, RankFails, At
<1>2. StaysLoaded
  BY <1>1 DEF StaysLoaded, FeedInv, FeedShape
<1>3. CASE Goes(r, Idle)
  BY <1>1, <1>2, <1>3, IdleIsFine, RequestMoves
<1> DEFINE Ranks(known, ordering) ==
             Goes(r, [pc |-> "keep", id |-> known, offset |-> req[r].offset,
                      library |-> req[r].library, found |-> Rankable, ordering |-> ordering])
<1>4. ASSUME NEW known, NEW ordering, Ranks(known, ordering)
      PROVE  FeedInv'
  <2>1. /\ req'[r].pc = "keep" /\ req'[r].library = req[r].library
        /\ req'[r].found = Rankable
    BY <1>4, ReqIs
  <2>2. Rankable \subseteq Video /\ req[r].library \subseteq Video
    BY <1>1 DEF FeedInv, FeedShape, Stage, Rankable
  <2>3. Stage(r)'
    BY <2>1, <2>2 DEF Stage
  <2> QED
    BY <1>1, <1>2, <1>4, <2>3, RequestMoves
<1>5. \/ Goes(r, Idle)
      \/ \E known, ordering : Ranks(known, ordering)
  BY AnswerIsIdle DEF Choose, RankFails
<1> QED
  BY <1>3, <1>4, <1>5

-----------------------------------------------------------------------------
(* Steps that change the orderings.                                         *)
LEMMA JoinedRange ==
  ASSUME NEW p \in Seq(Video), NEW q \in Seq(Video)
  PROVE  p \o q \in Seq(Video) /\ Range(p \o q) = Range(p) \cup Range(q)
<1>1. /\ p \o q \in Seq(Video) /\ DOMAIN p = 1..Len(p) /\ DOMAIN q = 1..Len(q)
      /\ Len(p) \in Nat /\ Len(q) \in Nat /\ DOMAIN (p \o q) = 1..(Len(p) + Len(q))
  OBVIOUS
<1>2. \A i \in 1..Len(p) : i \in DOMAIN (p \o q) /\ (p \o q)[i] = p[i]
  BY <1>1
<1>3. \A i \in 1..Len(q) : Len(p) + i \in DOMAIN (p \o q) /\ (p \o q)[Len(p) + i] = q[i]
  BY <1>1
<1>4. \A i \in DOMAIN (p \o q) : (p \o q)[i] \in Range(p) \cup Range(q)
  <2> TAKE i \in DOMAIN (p \o q)
  <2>1. CASE i <= Len(p)
    BY <1>1, <2>1 DEF Range
  <2>2. CASE ~(i <= Len(p))
    <3>1. i - Len(p) \in 1..Len(q) /\ (p \o q)[i] = q[i - Len(p)]
      BY <1>1, <2>2
    <3> QED
      BY <1>1, <3>1 DEF Range
  <2> QED
    BY <2>1, <2>2
<1>5. Range(p \o q) \subseteq Range(p) \cup Range(q)
  BY <1>4 DEF Range
<1>6. Range(p) \subseteq Range(p \o q)
  BY <1>1, <1>2 DEF Range
<1>7. Range(q) \subseteq Range(p \o q)
  BY <1>1, <1>3 DEF Range
<1> QED
  BY <1>1, <1>5, <1>6, <1>7

\* One ordering is written again, no shorter than it was.
LEMMA Updated ==
  ASSUME FeedShape, NEW e \in Ordering, e.id \in Stored, Update(e),
         Range(Entry(e.id).ranked) \subseteq Range(e.ranked)
  PROVE  /\ store' \in Seq(Ordering) /\ DOMAIN store' = DOMAIN store
         /\ \A i \in DOMAIN store :
              /\ store'[i].id = store[i].id
              /\ store'[i] = IF store[i].id = e.id THEN e ELSE store[i]
         /\ OldOrNew
<1>1. /\ store \in Seq(Ordering) /\ DOMAIN store = 1..Len(store) /\ Len(store) \in Nat
      /\ \A i \in DOMAIN store : store[i] \in Ordering
  BY DEF FeedShape
<1>2. DOMAIN store' = DOMAIN store
      /\ \A i \in DOMAIN store : store'[i] = IF store[i].id = e.id THEN e ELSE store[i]
  BY DEF Update
<1>3. store' \in [1..Len(store) -> Ordering]
  <2>1. store' = [i \in 1..Len(store) |-> IF store[i].id = e.id THEN e ELSE store[i]]
    BY <1>1 DEF Update
  <2> QED
    BY <1>1, <2>1
<1>4. store' \in Seq(Ordering)
  BY <1>1, <1>3
<1>5. \A i \in DOMAIN store : store'[i].id = store[i].id
  BY <1>2
<1>6. \A i \in DOMAIN store : Range(store[i].ranked) \subseteq Range(store'[i].ranked)
  BY <1>2, EntryIsIt
<1> QED
  BY <1>2, <1>4, <1>5, <1>6 DEF OldOrNew

\* What a request that has a place for its own knowledge must show.
LEMMA StoreChanges ==
  ASSUME FeedInv, NEW r \in Reader, NEW q, Goes(r, q), OldOrNew, AllSettled',
         store' \in Seq(Ordering),
         \A i, j \in DOMAIN store' : store'[i].id = store'[j].id => i = j,
         UNCHANGED <<library, projection>>, Stage(r)'
  PROVE  FeedInv'
<1>1. DOMAIN req' = Reader /\ \A s \in Reader : s # r => req'[s] = req[s]
  BY DEF Goes, FeedInv, FeedShape
<1>2. FeedShape'
  BY <1>1 DEF FeedInv, FeedShape
<1>3. StaysLoaded
  BY DEF StaysLoaded, FeedInv, FeedShape
<1>4. \A s \in Reader : Stage(s)'
  BY <1>1, <1>3, StageSurvives
<1> QED
  BY <1>2, <1>4 DEF FeedInv

LEMMA KeepKeeps ==
  ASSUME FeedInv, NEW r \in Reader, Keep(r) PROVE FeedInv'
<1> DEFINE q == req[r]
           Stamping(id, again) ==
             [pc |-> "stamp", id |-> id, offset |-> q.offset, library |-> q.library,
              found |-> q.found, again |-> again,
              ordering |-> IF again THEN <<>> ELSE q.ordering]
<1>1. q.pc = "keep" /\ q.library \subseteq Video /\ q.found \subseteq Video
  BY DEF Keep, At, FeedInv, Stage
<1>2. UNCHANGED <<library, projection>>
  BY DEF Keep
<1>3. \A id, again : /\ Stamping(id, again).pc = "stamp"
                     /\ Stamping(id, again).id = id
                     /\ Stamping(id, again).library = q.library
                     /\ Stamping(id, again).found = q.found
  OBVIOUS
<1>4. /\ FeedShape /\ AllSettled /\ store \in Seq(Ordering) /\ DOMAIN store = 1..Len(store)
      /\ Len(store) \in Nat
  BY DEF FeedInv, FeedShape
<1>5. ASSUME NEW id, NEW again, Goes(r, Stamping(id, again)),
             \A i \in DOMAIN store' : store'[i].id = id =>
               q.found \subseteq Range(store'[i].ranked)
      PROVE  Stage(r)'
  <2> HIDE DEF Stamping
  <2>1. req'[r] = Stamping(id, again)
    BY <1>5, ReqIs
  <2> QED
    BY <1>1, <1>3, <1>5, <2>1 DEF Stage
<1> HIDE DEF Stamping
<1>6. CASE /\ q.id = NoId /\ Id \ Named # {}
           /\ \E ranked \in Orderings(q.found) :
                store' = Append(store, [id |-> Fresh, ranked |-> ranked,
                                        library |-> Unstamped, leftOut |-> {}])
           /\ Goes(r, Stamping(Fresh, TRUE))
  <2>1. Fresh \in Id /\ Fresh \notin Named
    BY <1>6 DEF Fresh
  <2>2. PICK ranked \in Orderings(q.found) :
          store' = Append(store, [id |-> Fresh, ranked |-> ranked,
                                  library |-> Unstamped, leftOut |-> {}])
    BY <1>6
  <2>3. ranked \in Seq(Video) /\ Range(ranked) = q.found
    BY <1>1, <2>2, OrderingsAreOf
  <2> DEFINE e == [id |-> Fresh, ranked |-> ranked, library |-> Unstamped, leftOut |-> {}]
  <2>4. e \in Ordering /\ e.id = Fresh /\ e.ranked = ranked /\ e.library = Unstamped
    BY <2>1, <2>3 DEF Ordering
  <2>5. store' = Append(store, e)
    BY <2>2
  <2> HIDE DEF e
  <2>6. /\ store' \in Seq(Ordering) /\ DOMAIN store' = 1..(Len(store) + 1)
        /\ \A i \in DOMAIN store : store'[i] = store[i]
        /\ store'[Len(store) + 1] = e
    BY <1>4, <2>4, <2>5
  <2>7. \A i \in DOMAIN store : store[i].id # Fresh
    BY <2>1 DEF Named, Stored
  <2>8. \A i \in DOMAIN store' : i \in DOMAIN store \/ i = Len(store) + 1
    BY <1>4, <2>6
  <2>9. \A i, j \in DOMAIN store' : store'[i].id = store'[j].id => i = j
    BY <1>4, <2>4, <2>6, <2>7, <2>8 DEF FeedShape
  <2>10. OldOrNew
    BY <2>1, <2>4, <2>6, <2>8 DEF OldOrNew
  <2>11. AllSettled'
    BY <1>4, <2>4, <2>6, <2>8 DEF AllSettled, Settled, Unstamped
  <2>12. \A i \in DOMAIN store' : store'[i].id = Fresh => store'[i].ranked = ranked
    BY <2>4, <2>6, <2>7, <2>8
  <2>13. Stage(r)'
    <3>1. \A i \in DOMAIN store' : store'[i].id = Fresh => q.found \subseteq Range(store'[i].ranked)
      BY <2>3, <2>12
    <3>2. Goes(r, Stamping(Fresh, TRUE))
      BY <1>6
    <3> QED
      BY <1>5, <3>1, <3>2
  <2> QED
    BY <1>2, <1>6, <2>6, <2>9, <2>10, <2>11, <2>13, StoreChanges
<1>7. CASE \E more \in Orderings(New(Entry(q.id).ranked, q.ordering, q.found)) :
             /\ q.id \in Stored
             /\ Update([Entry(q.id) EXCEPT !.ranked = @ \o more])
             /\ Goes(r, Stamping(q.id, more # <<>>))
  <2>1. PICK more \in Orderings(New(Entry(q.id).ranked, q.ordering, q.found)) :
             /\ q.id \in Stored
             /\ Update([Entry(q.id) EXCEPT !.ranked = @ \o more])
             /\ Goes(r, Stamping(q.id, more # <<>>))
    BY <1>7
  <2> DEFINE e == Entry(q.id)
             f == [e EXCEPT !.ranked = @ \o more]
  <2>2. PICK k \in DOMAIN store : store[k].id = q.id /\ e = store[k]
    BY <1>4, <2>1, StoredIsSomewhere
  <2>3. e \in Ordering /\ e.id = q.id /\ e.ranked \in Seq(Video)
    <3> HIDE DEF e
    <3>1. e \in Ordering /\ e.id = q.id
      BY <1>4, <2>2
    <3> QED
      BY <3>1 DEF Ordering
  <2>4. more \in Seq(Video) /\ Range(more) = q.found \ Range(e.ranked)
    BY <1>1, <2>1, OrderingsAreOf DEF New
  <2> HIDE DEF e
  <2>5. /\ e.ranked \o more \in Seq(Video)
        /\ Range(e.ranked \o more) = Range(e.ranked) \cup Range(more)
    BY <2>3, <2>4, JoinedRange
  <2>6. /\ f \in Ordering /\ f.id = q.id /\ f.library = e.library /\ f.leftOut = e.leftOut
        /\ Range(f.ranked) = Range(e.ranked) \cup Range(more)
    BY <2>3, <2>5 DEF Ordering
  <2>7. Update(f)
    BY <2>1 DEF e
  <2> HIDE DEF f
  <2>8. Range(Entry(f.id).ranked) \subseteq Range(f.ranked)
    BY <2>6 DEF e
  <2>9. /\ store' \in Seq(Ordering) /\ DOMAIN store' = DOMAIN store
        /\ \A i \in DOMAIN store :
             /\ store'[i].id = store[i].id
             /\ store'[i] = IF store[i].id = f.id THEN f ELSE store[i]
        /\ OldOrNew
    BY <1>4, <2>1, <2>6, <2>7, <2>8, Updated
  <2>10. \A i, j \in DOMAIN store' : store'[i].id = store'[j].id => i = j
    BY <1>4, <2>9 DEF FeedShape
  <2>11. AllSettled'
    <3>1. Settled(e)
      BY <1>4, <2>2 DEF AllSettled
    <3>2. \A i \in DOMAIN store : store'[i] = f \/ store'[i] = store[i]
      BY <2>9
    <3>3. Settled(f)
      BY <2>6, <3>1 DEF Settled
    <3>4. \A i \in DOMAIN store' : Settled(store'[i])
      BY <1>4, <2>9, <3>2, <3>3 DEF AllSettled
    <3> QED
      BY <3>4 DEF AllSettled, Settled, Unstamped
  <2>12. q.found \subseteq Range(f.ranked)
    BY <2>4, <2>6
  <2>13. \A i \in DOMAIN store' : store'[i].id = q.id => store'[i] = f
    BY <2>6, <2>9
  <2>14. Stage(r)'
    BY <1>5, <2>1, <2>12, <2>13
  <2> QED
    BY <1>2, <2>1, <2>9, <2>10, <2>11, <2>14, StoreChanges
<1>8. CASE q.id \notin Stored /\ store' = store /\ Goes(r, Stamping(q.id, FALSE))
  <2>1. Stage(r)'
    BY <1>5, <1>8 DEF Stored
  <2> QED
    BY <1>2, <1>4, <1>8, <2>1, RequestMoves DEF StaysLoaded, FeedShape
<1> QED
  BY <1>6, <1>7, <1>8 DEF Keep, Stamping

LEMMA StampKeeps ==
  ASSUME FeedInv, NEW r \in Reader, Stamp(r) PROVE FeedInv'
<1> DEFINE q == req[r]
<1>1. /\ q.pc = "stamp" /\ q.library \subseteq Video
      /\ UNCHANGED <<library, projection>>
  BY DEF Stamp, At, FeedInv, Stage
<1>2. Goes(r, Idle)
  BY AnswerIsIdle DEF Stamp
<1>3. Stage(r)'
  BY <1>2, IdleIsFine
<1>4. FeedShape /\ AllSettled
  BY DEF FeedInv
<1>5. CASE /\ q.id \in Stored
           /\ Update([Entry(q.id) EXCEPT !.library = q.library, !.leftOut = q.library \ q.found])
  <2> DEFINE e == Entry(q.id)
             f == [e EXCEPT !.library = q.library, !.leftOut = q.library \ q.found]
  <2>1. PICK k \in DOMAIN store : store[k].id = q.id /\ e = store[k]
    BY <1>4, <1>5, StoredIsSomewhere
  <2>2. e \in Ordering
    BY <1>4, <2>1 DEF FeedShape
  <2>3. q.found \subseteq Range(e.ranked)
    BY <1>1, <2>1 DEF FeedInv, Stage
  <2> HIDE DEF e
  <2>4. /\ f \in Ordering /\ f.id = q.id /\ f.library = q.library /\ f.ranked = e.ranked
        /\ f.leftOut = q.library \ q.found
    BY <1>1, <2>1, <2>2 DEF Ordering
  <2>5. Update(f)
    BY <1>5 DEF e
  <2> HIDE DEF f
  <2>6. Range(Entry(f.id).ranked) \subseteq Range(f.ranked)
    BY <2>4 DEF e
  <2>7. /\ store' \in Seq(Ordering) /\ DOMAIN store' = DOMAIN store
        /\ \A i \in DOMAIN store :
             /\ store'[i].id = store[i].id
             /\ store'[i] = IF store[i].id = f.id THEN f ELSE store[i]
        /\ OldOrNew
    BY <1>4, <1>5, <2>4, <2>5, <2>6, Updated
  <2>8. \A i, j \in DOMAIN store' : store'[i].id = store'[j].id => i = j
    BY <1>4, <2>7 DEF FeedShape
  <2>9. AllSettled'
    <3>1. Settled(f)
      BY <2>3, <2>4 DEF Settled
    <3>2. \A i \in DOMAIN store' : Settled(store'[i])
      BY <1>4, <2>7, <3>1 DEF AllSettled
    <3> QED
      BY <3>2 DEF AllSettled, Settled, Unstamped
  <2> QED
    BY <1>1, <1>2, <1>3, <2>7, <2>8, <2>9, StoreChanges
<1>6. CASE store' = store
  BY <1>1, <1>2, <1>3, <1>4, <1>6, RequestMoves DEF StaysLoaded, FeedShape
<1> QED
  BY <1>5, <1>6 DEF Stamp

-----------------------------------------------------------------------------
(* The steps of nobody's request.                                           *)

\* Orderings go, the rest are what they were.
Shrinks ==
  /\ store' \in Seq(Ordering)
  /\ \A i \in DOMAIN store' : \E j \in DOMAIN store : store'[i] = store[j]
  /\ \A i, j \in DOMAIN store' : store'[i].id = store'[j].id => i = j

LEMMA ShrinkingKeeps ==
  ASSUME FeedInv, Shrinks, req' = req, library' \subseteq Video, StaysLoaded
  PROVE  FeedInv'
<1>1. FeedShape'
  BY DEF FeedInv, FeedShape, Shrinks, StaysLoaded
<1>2. OldOrNew
  BY DEF OldOrNew, Shrinks
<1>3. \A r \in Reader : Stage(r)'
  BY <1>2, StageSurvives
<1>4. AllSettled'
  <2>1. \A i \in DOMAIN store' : Settled(store'[i])
    BY DEF FeedInv, AllSettled, Shrinks
  <2> QED
    BY <2>1 DEF AllSettled, Settled, Unstamped
<1> QED
  BY <1>1, <1>3, <1>4 DEF FeedInv

LEMMA NothingShrinks ==
  ASSUME FeedShape PROVE /\ store' = store => Shrinks
                         /\ store' = <<>> => Shrinks
<1>1. store' = store => Shrinks
  BY DEF FeedShape, Shrinks
<1>2. ASSUME store' = <<>> PROVE Shrinks
  <2>1. store' \in Seq(Ordering) /\ DOMAIN store' = {}
    BY <1>2
  <2> QED
    BY <2>1 DEF Shrinks
<1> QED
  BY <1>1, <1>2

LEMMA TailShrinks ==
  ASSUME FeedShape, store # <<>>, store' = Tail(store) PROVE Shrinks
<1>1. store \in Seq(Ordering) /\ Len(store) \in Nat \ {0} /\ DOMAIN store = 1..Len(store)
  BY DEF FeedShape
<1>2. /\ store' \in Seq(Ordering) /\ DOMAIN store' = 1..(Len(store) - 1)
      /\ \A i \in DOMAIN store' : i + 1 \in DOMAIN store /\ store'[i] = store[i + 1]
  BY <1>1
<1>3. \A i, j \in DOMAIN store' : store'[i].id = store'[j].id => i = j
  <2> TAKE i, j \in DOMAIN store'
  <2>1. store'[i].id = store'[j].id => i + 1 = j + 1
    BY <1>2 DEF FeedShape
  <2> QED
    BY <1>1, <1>2, <2>1
<1> QED
  BY <1>2, <1>3 DEF Shrinks

Elsewhere == InvalidateUser \/ LibraryChanges \/ ExcludedChanges \/ Refresh \/ Expire

LEMMA ElsewhereKeeps ==
  ASSUME FeedInv, Elsewhere
  PROVE  FeedInv'
<1>1. FeedShape /\ library \subseteq Video /\ (projection = NotLoaded \/ projection \subseteq Video)
  BY DEF FeedInv, FeedShape
<1>2. CASE InvalidateUser
  BY <1>1, <1>2, NothingShrinks, ShrinkingKeeps DEF InvalidateUser, StaysLoaded
<1>3. CASE LibraryChanges
  <2>1. library' \subseteq Video
    BY <1>1, <1>3 DEF LibraryChanges, SymDiff
  <2> QED
    BY <1>1, <1>3, <2>1, NothingShrinks, ShrinkingKeeps DEF LibraryChanges, StaysLoaded
<1>4. CASE ExcludedChanges
  BY <1>1, <1>4, NothingShrinks, ShrinkingKeeps DEF ExcludedChanges, StaysLoaded
<1>5. CASE Refresh
  <2>1. projection' = library /\ store' = store /\ req' = req /\ library' = library
    BY <1>5 DEF Refresh
  <2>2. StaysLoaded
    BY <1>1, <2>1, FeedAssumption DEF StaysLoaded
  <2> QED
    BY <1>1, <2>1, <2>2, NothingShrinks, ShrinkingKeeps
<1>6. CASE Expire
  BY <1>1, <1>6, TailShrinks, ShrinkingKeeps DEF Expire, StaysLoaded
<1> QED
  BY <1>2, <1>3, <1>4, <1>5, <1>6 DEF Elsewhere

LEMMA RestartKeeps ==
  ASSUME FeedInv, Restart PROVE FeedInv'
<1>1. FeedShape'
  BY DEF FeedInv, FeedShape, Restart
<1>2. \A r \in Reader : Stage(r)'
  BY DEF Restart, Idle, Stage
<1>3. AllSettled'
  BY DEF Restart, AllSettled
<1> QED
  BY <1>1, <1>2, <1>3 DEF FeedInv

LEMMA StepKeeps == FeedInv /\ [Next]_vars => FeedInv'
<1> SUFFICES ASSUME FeedInv, [Next]_vars PROVE FeedInv'
  OBVIOUS
<1>1. ASSUME NEW r \in Reader, Ask(r) \/ PageGoesOn(r) PROVE FeedInv'
  BY <1>1, AskKeeps, LoadKeeps, ChooseKeeps, KeepKeeps, StampKeeps DEF PageGoesOn
<1>2. CASE UNCHANGED vars
  <2>1. UNCHANGED <<library, projection, store, req>>
    BY <1>2 DEF vars
  <2> QED
    BY <2>1, NothingShrinks, ShrinkingKeeps DEF StaysLoaded, FeedInv, FeedShape
<1> QED
  BY <1>1, <1>2, ElsewhereKeeps, RestartKeeps DEF Next, Elsewhere

LEMMA SettledIsCaughtUp == FeedInv => StampedHasCaughtUp
<1> SUFFICES ASSUME FeedInv PROVE StampedHasCaughtUp
  OBVIOUS
<1>1. \A e \in Range(store) : Settled(e)
  BY DEF FeedInv, AllSettled, Range
<1> QED
  BY <1>1 DEF StampedHasCaughtUp, Settled

\* An ordering that says which library it is of lacks no video of it but those
\* the ranking it was stamped after was not given, or excluded (SetLibrary after
\* Put or Append): whoever ranks at once, appends to the same ordering, fails,
\* or stamps it with another library.  That the ranking is given the library of
\* the stamp is not claimed: an older projection may have come back in between.
THEOREM OrderingsCatchUp == Spec => []StampedHasCaughtUp
<1>1. Init => FeedInv
  BY InitIsSettled
<1> QED
  BY <1>1, StepKeeps, SettledIsCaughtUp, PTL DEF Spec
-----------------------------------------------------------------------------
(* The scroll.  An ordering that is stored repeats nothing and only grows   *)
(* behind what it has; the screen shows a stretch of it that ends at the    *)
(* offset of the token.  What the scrolled request holds of an ordering is  *)
(* where that began, whatever others put behind it meanwhile, so the page   *)
(* that comes of it joins the stretch even when the ordering is gone by     *)
(* then.                                                                    *)
Shows(s, ranked) ==
  /\ Len(s.shown) <= s.offset
  /\ \A i \in DOMAIN s.shown :
       LET place == s.offset - Len(s.shown) + i
       IN  place \in DOMAIN ranked /\ s.shown[i] = ranked[place]

Extends(p, q) == Len(p) <= Len(q) /\ \A i \in DOMAIN p : q[i] = p[i]

\* The request has read an ordering that it may answer from.
InHand(q) == (q.pc = "keep" /\ q.id # NoId) \/ (q.pc = "stamp" /\ ~q.again)

HoldsAPart(q) ==
  /\ q.ordering \in Seq(Video) /\ IsInjective(q.ordering)
  /\ q.id = scroll.id => Shows(scroll, q.ordering)
  /\ \A i \in DOMAIN store : store[i].id = q.id => Extends(q.ordering, store[i].ranked)

Screen(s) == s.shown \in Seq(Video) /\ s.offset \in Nat /\ IsInjective(s.shown)

ScrollInv ==
  /\ Screen(scroll)
  /\ \A r \in Reader : req[r].pc # "idle" => req[r].offset \in Nat
  /\ \A i \in DOMAIN store : /\ IsInjective(store[i].ranked)
                             /\ store[i].id = scroll.id => Shows(scroll, store[i].ranked)
  /\ InHand(req[Scroller]) => HoldsAPart(req[Scroller])

-----------------------------------------------------------------------------
LEMMA OrderingsAreInjective ==
  ASSUME NEW videos \in SUBSET Video, NEW q \in Orderings(videos)
  PROVE  IsInjective(q)
<1> DEFINE n == Cardinality(videos)
<1>1. q \in [1..n -> videos] /\ Range(q) = videos
  BY DEF Orderings
<1>2. IsFiniteSet(videos) /\ n \in Nat
  BY FS_CardinalityType, FS_Subset, FeedAssumption
<1>3. IsFiniteSet(1..n) /\ Cardinality(1..n) = n
  <2>1. IsFiniteSet(1..n) /\ Cardinality(1..n) = IF 1 > n THEN 0 ELSE n - 1 + 1
    BY <1>2, FS_Interval
  <2> QED
    BY <1>2, <2>1
<1>4. q \in Surjection(1..n, videos)
  BY <1>1 DEF Surjection, Range
<1>5. q \in Injection(1..n, videos)
  BY <1>2, <1>3, <1>4, FS_SurjSameCardinalityImpliesInj
<1> QED
  BY <1>5 DEF Injection

LEMMA JoinedIsInjective ==
  ASSUME NEW p \in Seq(Video), NEW q \in Seq(Video), IsInjective(p), IsInjective(q),
         Range(p) \cap Range(q) = {}
  PROVE  IsInjective(p \o q) /\ Extends(p, p \o q)
<1>1. /\ DOMAIN p = 1..Len(p) /\ DOMAIN q = 1..Len(q)
      /\ Len(p) \in Nat /\ Len(q) \in Nat
      /\ DOMAIN (p \o q) = 1..(Len(p) + Len(q)) /\ Len(p \o q) = Len(p) + Len(q)
  OBVIOUS
<1>2. \A i \in 1..(Len(p) + Len(q)) :
        /\ i <= Len(p) => i \in DOMAIN p /\ (p \o q)[i] = p[i]
        /\ i > Len(p)  => i - Len(p) \in DOMAIN q /\ (p \o q)[i] = q[i - Len(p)]
  BY <1>1
<1>3. \A i \in DOMAIN p, j \in DOMAIN q : p[i] # q[j]
  BY DEF Range
<1> DEFINE pq == p \o q
<1>4. /\ DOMAIN pq = 1..(Len(p) + Len(q)) /\ Len(pq) = Len(p) + Len(q)
      /\ \A i \in DOMAIN pq :
           /\ i <= Len(p) => i \in DOMAIN p /\ pq[i] = p[i]
           /\ i > Len(p)  => i - Len(p) \in DOMAIN q /\ pq[i] = q[i - Len(p)]
  BY <1>1, <1>2
<1> HIDE DEF pq
<1>5. ASSUME NEW i \in DOMAIN pq, NEW j \in DOMAIN pq, pq[i] = pq[j] PROVE i = j
  <2>1. i \in Nat /\ j \in Nat
    BY <1>4
  <2>2. CASE i <= Len(p) /\ j <= Len(p)
    BY <1>4, <1>5, <2>2 DEF IsInjective
  <2>3. CASE i > Len(p) /\ j > Len(p)
    <3>1. i - Len(p) = j - Len(p)
      BY <1>4, <1>5, <2>3 DEF IsInjective
    <3> QED
      BY <1>1, <2>1, <3>1
  <2> QED
    BY <1>1, <1>3, <1>4, <1>5, <2>1, <2>2, <2>3
<1>6. Extends(p, pq)
  BY <1>1, <1>4 DEF Extends
<1> QED
  BY <1>5, <1>6 DEF IsInjective, pq

LEMMA MinOfTwo ==
  ASSUME NEW m \in Nat, NEW n \in Nat
  PROVE  Min({m, n}) = IF m <= n THEN m ELSE n
<1> DEFINE k == IF m <= n THEN m ELSE n
<1>1. k \in {m, n} /\ \A y \in {m, n} : k <= y
  OBVIOUS
<1>2. \A x \in {m, n} : (\A y \in {m, n} : x <= y) => x = k
  OBVIOUS
<1> QED
  BY <1>1, <1>2 DEF Min

\* What a page has is in its ordering, behind the offset.
LEMMA PageIsAStretch ==
  ASSUME NEW ordering \in Seq(Video), NEW offset \in Nat
  PROVE  LET page == SubSeq(ordering, offset + 1, Min({offset + PageSize, Len(ordering)}))
         IN  /\ page \in Seq(Video)
             /\ \A i \in DOMAIN page : /\ offset + i \in DOMAIN ordering
                                       /\ page[i] = ordering[offset + i]
<1> DEFINE last == Min({offset + PageSize, Len(ordering)})
           page == SubSeq(ordering, offset + 1, last)
<1>1. PageSize \in Nat /\ Len(ordering) \in Nat /\ DOMAIN ordering = 1..Len(ordering)
  BY FeedAssumption
<1>2. last \in Nat /\ last <= Len(ordering)
  BY <1>1, MinOfTwo
<1> HIDE DEF last
<1>3. page \in Seq(Video)
  BY <1>1, <1>2
<1>4. Len(page) = IF offset + 1 <= last THEN last - offset ELSE 0
  BY <1>1, <1>2
<1>5. \A i \in 1..Len(page) : offset + i \in 1..Len(ordering) /\ page[i] = ordering[offset + i]
  BY <1>1, <1>2, <1>4
<1>6. DOMAIN page = 1..Len(page)
  BY <1>3
<1> QED
  BY <1>1, <1>3, <1>5, <1>6 DEF last

\* What the screen shows of an ordering that repeats nothing repeats nothing.
LEMMA ShownOnce ==
  ASSUME NEW s, NEW ranked, s.shown \in Seq(Video), s.offset \in Nat,
         IsInjective(ranked), Shows(s, ranked)
  PROVE  IsInjective(s.shown)
<1>1. Len(s.shown) \in Nat /\ DOMAIN s.shown = 1..Len(s.shown)
  OBVIOUS
<1>2. ASSUME NEW i \in DOMAIN s.shown, NEW j \in DOMAIN s.shown, s.shown[i] = s.shown[j]
      PROVE  i = j
  <2>1. s.offset - Len(s.shown) + i = s.offset - Len(s.shown) + j
    BY <1>2 DEF Shows, IsInjective
  <2> QED
    BY <1>1, <2>1
<1> QED
  BY <1>2 DEF IsInjective

LEMMA ExtensionShows ==
  ASSUME NEW s, NEW p \in Seq(Video), NEW q \in Seq(Video), Shows(s, p), Extends(p, q)
  PROVE  Shows(s, q)
<1>1. DOMAIN p \subseteq DOMAIN q
  BY DEF Extends
<1> QED
  BY <1>1 DEF Shows, Extends

LEMMA ExtendsGoesOn ==
  ASSUME NEW p \in Seq(Video), NEW q \in Seq(Video), NEW t \in Seq(Video),
         Extends(p, q), Extends(q, t)
  PROVE  Extends(p, t)
BY DEF Extends

LEMMA ExtendsItself ==
  ASSUME NEW p \in Seq(Video) PROVE Extends(p, p)
BY DEF Extends

-----------------------------------------------------------------------------
\* The answer, from an ordering whose stretch the screen shows if it is the one.
LEMMA AnswerShows ==
  ASSUME NEW ordering \in Seq(Video), NEW id, Screen(scroll), req[Scroller].offset \in Nat,
         IsInjective(ordering), id = scroll.id => Shows(scroll, ordering),
         Answer(Scroller, id, ordering)
  PROVE  scroll'.id = id /\ Screen(scroll') /\ Shows(scroll', ordering)
<1> DEFINE offset == req[Scroller].offset
           page   == SubSeq(ordering, offset + 1, Min({offset + PageSize, Len(ordering)}))
           goesOn == offset > 0 /\ <<scroll.id, scroll.offset>> = <<id, offset>>
           shown  == IF goesOn THEN scroll.shown \o page ELSE page
<1>1. /\ scroll'.id = id /\ scroll'.offset = offset + Len(page) /\ scroll'.shown = shown
  BY DEF Answer
<1>2. /\ page \in Seq(Video)
      /\ \A i \in DOMAIN page : /\ offset + i \in DOMAIN ordering
                                /\ page[i] = ordering[offset + i]
  BY PageIsAStretch
<1> HIDE DEF page
<1>3. Len(page) \in Nat /\ DOMAIN page = 1..Len(page) /\ offset \in Nat
  BY <1>2
<1> HIDE DEF offset
<1>4. CASE ~goesOn
  <2>1. scroll'.shown = page
    BY <1>1, <1>4
  <2>2. Shows(scroll', ordering)
    <3>1. Len(page) <= offset + Len(page)
      BY <1>3
    <3>2. \A i \in DOMAIN page : scroll'.offset - Len(page) + i = offset + i
      BY <1>1, <1>3
    <3> QED
      BY <1>1, <1>2, <2>1, <3>1, <3>2 DEF Shows
  <2> QED
    BY <1>1, <1>2, <1>3, <2>1, <2>2, ShownOnce DEF Screen
<1>5. CASE goesOn
  <2>1. /\ scroll.offset = offset /\ Shows(scroll, ordering)
        /\ scroll'.shown = scroll.shown \o page /\ scroll.shown \in Seq(Video)
    BY <1>1, <1>5 DEF Screen
  <2> DEFINE old == scroll.shown
             all == scroll.shown \o page
  <2>2. /\ all \in Seq(Video) /\ Len(all) = Len(old) + Len(page)
        /\ DOMAIN all = 1..(Len(old) + Len(page)) /\ Len(old) \in Nat /\ DOMAIN old = 1..Len(old)
        /\ \A i \in 1..(Len(old) + Len(page)) :
             all[i] = IF i <= Len(old) THEN old[i] ELSE page[i - Len(old)]
    BY <1>2, <2>1
  <2>3. Len(old) <= offset /\ \A i \in DOMAIN old :
          offset - Len(old) + i \in DOMAIN ordering /\ old[i] = ordering[offset - Len(old) + i]
    BY <2>1 DEF Shows
  <2> HIDE DEF old, all
  <2>4. \A i \in DOMAIN all :
          /\ offset - Len(old) + i \in DOMAIN ordering
          /\ all[i] = ordering[offset - Len(old) + i]
    <3> TAKE i \in DOMAIN all
    <3>1. CASE i <= Len(old)
      BY <2>2, <2>3, <3>1
    <3>2. CASE ~(i <= Len(old))
      <4>1. i - Len(old) \in DOMAIN page /\ offset + (i - Len(old)) = offset - Len(old) + i
        BY <1>3, <2>2, <3>2
      <4>2. all[i] = page[i - Len(old)]
        BY <2>2, <3>2
      <4> QED
        BY <1>2, <4>1, <4>2
    <3> QED
      BY <3>1, <3>2
  <2>5. scroll'.shown = all
    BY <2>1 DEF all
  <2>6. scroll'.offset - Len(all) = offset - Len(old) /\ Len(all) <= scroll'.offset
    BY <1>1, <1>3, <2>2, <2>3
  <2>7. Shows(scroll', ordering)
    BY <2>4, <2>5, <2>6 DEF Shows
  <2>8. scroll'.offset \in Nat
    BY <1>1, <1>3
  <2> QED
    BY <1>1, <2>2, <2>5, <2>7, <2>8, ShownOnce DEF Screen
<1> QED
  BY <1>4, <1>5

\* The answer of an ordering that is gone and that nothing is known of.
LEMMA NothingIsAnswered ==
  ASSUME NEW id, Screen(scroll), req[Scroller].offset \in Nat, Answer(Scroller, id, <<>>)
  PROVE  scroll'.id = id /\ Screen(scroll')
<1> DEFINE offset == req[Scroller].offset
           none   == <<>>
           page   == SubSeq(none, offset + 1, Min({offset + PageSize, Len(none)}))
<1>1. none \in Seq(Video) /\ DOMAIN none = {}
  OBVIOUS
<1> HIDE DEF none
<1>2. page \in Seq(Video) /\ \A i \in DOMAIN page : offset + i \in DOMAIN none
  BY <1>1, PageIsAStretch
<1>3. page \in Seq(Video) /\ DOMAIN page = {}
  BY <1>1, <1>2
<1> HIDE DEF page
<1>4. Len(page) = 0 /\ page = <<>>
  BY <1>3
<1>5. /\ scroll'.id = id /\ scroll'.offset = offset + Len(page)
      /\ scroll'.shown = scroll.shown \o page \/ scroll'.shown = page
  BY DEF Answer, page, none
<1>6. scroll.shown \in Seq(Video) /\ IsInjective(scroll.shown)
  BY DEF Screen
<1>7. scroll.shown \o page = scroll.shown
  BY <1>4, <1>6
<1>8. IsInjective(page)
  BY <1>3 DEF IsInjective
<1>9. scroll'.offset \in Nat
  BY <1>4, <1>5
<1>10. scroll'.shown \in Seq(Video) /\ IsInjective(scroll'.shown)
  BY <1>3, <1>5, <1>6, <1>7, <1>8
<1> QED
  BY <1>5, <1>9, <1>10 DEF Screen

-----------------------------------------------------------------------------
\* What a step may do to the orderings, place by place.
OnlyGrow ==
  \A i \in DOMAIN store' :
    /\ IsInjective(store'[i].ranked)
    /\ \/ store'[i].id \notin Named
       \/ \E j \in DOMAIN store : /\ store[j].id = store'[i].id
                                  /\ Extends(store[j].ranked, store'[i].ranked)

Typed(orderings) ==
  /\ orderings \in Seq(Ordering)
  /\ \A i \in DOMAIN orderings : orderings[i].ranked \in Seq(Video) /\ orderings[i].id \in Id

LEMMA StoreIsTyped ==
  ASSUME FeedShape PROVE Typed(store)
<1>1. store \in Seq(Ordering) /\ \A i \in DOMAIN store : store[i] \in Ordering
  BY DEF FeedShape
<1> QED
  BY <1>1 DEF Typed, Ordering

LEMMA ShowsOfStored ==
  ASSUME Typed(store), Typed(store'), ScrollInv, OnlyGrow,
         NEW i \in DOMAIN store', store'[i].id = scroll.id
  PROVE  Shows(scroll, store'[i].ranked)
<1>1. scroll.id \in Named
  BY DEF Named
<1>2. PICK j \in DOMAIN store : /\ store[j].id = store'[i].id
                               /\ Extends(store[j].ranked, store'[i].ranked)
  BY <1>1 DEF OnlyGrow
<1>3. Shows(scroll, store[j].ranked) /\ store[j].ranked \in Seq(Video) /\ store'[i].ranked \in Seq(Video)
  BY <1>2 DEF ScrollInv, Typed
<1> QED
  BY <1>2, <1>3, ExtensionShows

\* What is held of an ordering stays where it began.
LEMMA PartStays ==
  ASSUME Typed(store), Typed(store'), OnlyGrow, NEW q, q.id \in Named, HoldsAPart(q),
         NEW i \in DOMAIN store', store'[i].id = q.id
  PROVE  Extends(q.ordering, store'[i].ranked)
<1>1. PICK j \in DOMAIN store : /\ store[j].id = store'[i].id
                               /\ Extends(store[j].ranked, store'[i].ranked)
  BY DEF OnlyGrow
<1>2. /\ Extends(q.ordering, store[j].ranked) /\ q.ordering \in Seq(Video)
      /\ store[j].ranked \in Seq(Video) /\ store'[i].ranked \in Seq(Video)
  BY <1>1 DEF HoldsAPart, Typed
<1> QED
  BY <1>1, <1>2, ExtendsGoesOn

LEMMA SameOnlyGrows ==
  ASSUME Typed(store), ScrollInv, \A i \in DOMAIN store' : \E j \in DOMAIN store : store'[i] = store[j]
  PROVE  OnlyGrow
<1>1. \A j \in DOMAIN store : IsInjective(store[j].ranked) /\ Extends(store[j].ranked, store[j].ranked)
  BY ExtendsItself DEF ScrollInv, Typed
<1> QED
  BY <1>1 DEF OnlyGrow

OnlyMoves(r, q) == req'[r] = q /\ \A s \in Reader : s # r => req'[s] = req[s]

LEMMA GoingMoves ==
  ASSUME FeedInv, NEW r \in Reader, NEW q, Goes(r, q) PROVE OnlyMoves(r, q)
BY ReqIs DEF Goes, FeedInv, FeedShape, OnlyMoves

\* A request goes on and the screen stays.
LEMMA RequestGoesOn ==
  ASSUME FeedInv, FeedInv', ScrollInv, OnlyGrow, scroll' = scroll,
         NEW r \in Reader, NEW q, OnlyMoves(r, q), q.pc # "idle" => q.offset \in Nat,
         r = Scroller /\ InHand(q) =>
           /\ q.ordering \in Seq(Video) /\ IsInjective(q.ordering)
           /\ q.id = scroll.id => Shows(scroll, q.ordering)
           /\ \A i \in DOMAIN store' : store'[i].id = q.id => Extends(q.ordering, store'[i].ranked)
  PROVE  ScrollInv'
<1>1. Typed(store) /\ Typed(store')
  <2>1. FeedShape' => Typed(store)'
    BY StoreIsTyped, PTL
  <2> QED
    BY <2>1, StoreIsTyped DEF FeedInv, Typed
<1>2. req'[r] = q /\ \A s \in Reader : s # r => req'[s] = req[s]
  BY DEF OnlyMoves
<1>3. \A s \in Reader : req'[s].pc # "idle" => req'[s].offset \in Nat
  BY <1>2 DEF ScrollInv
<1>4. \A i \in DOMAIN store' : store'[i].id = scroll.id => Shows(scroll, store'[i].ranked)
  BY <1>1, ShowsOfStored
<1>5. Scroller \in Reader
  BY FeedAssumption
<1>6. ASSUME InHand(req'[Scroller]) PROVE HoldsAPart(req[Scroller])'
  <2>1. CASE r = Scroller
    BY <1>2, <1>6, <2>1 DEF HoldsAPart
  <2>2. CASE r # Scroller
    <3>1. req'[Scroller] = req[Scroller] /\ InHand(req[Scroller])
      BY <1>2, <1>5, <1>6, <2>2
    <3>2. HoldsAPart(req[Scroller]) /\ req[Scroller].id \in Named
      BY <1>5, <3>1 DEF ScrollInv, InHand, Named
    <3>3. \A i \in DOMAIN store' : store'[i].id = req[Scroller].id =>
            Extends(req[Scroller].ordering, store'[i].ranked)
      BY <1>1, <3>2, PartStays
    <3> QED
      BY <3>1, <3>2, <3>3 DEF HoldsAPart
  <2> QED
    BY <2>1, <2>2
<1> QED
  BY <1>3, <1>4, <1>6 DEF ScrollInv, OnlyGrow, InHand

\* Nobody's request, or all are gone.
LEMMA ScreenStays ==
  ASSUME FeedInv, FeedInv', ScrollInv, OnlyGrow, scroll' = scroll,
         req' = req \/ req' = [r \in Reader |-> Idle]
  PROVE  ScrollInv'
<1>1. Scroller \in Reader
  BY FeedAssumption
<1>2. CASE req' = [r \in Reader |-> Idle]
  <2>1. Typed(store) /\ Typed(store')
    <3>1. FeedShape' => Typed(store)'
      BY StoreIsTyped, PTL
    <3> QED
      BY <3>1, StoreIsTyped DEF FeedInv, Typed
  <2>2. \A i \in DOMAIN store' : store'[i].id = scroll.id => Shows(scroll, store'[i].ranked)
    BY <2>1, ShowsOfStored
  <2>3. \A r \in Reader : req'[r].pc = "idle"
    BY <1>2 DEF Idle
  <2>4. ~InHand(req'[Scroller])
    BY <1>1, <2>3 DEF InHand
  <2>5. \A r \in Reader : req'[r].pc # "idle" => req'[r].offset \in Nat
    BY <2>3
  <2>6. Screen(scroll') /\ \A i \in DOMAIN store' : IsInjective(store'[i].ranked)
    BY DEF ScrollInv, OnlyGrow
  <2>7. \A i \in DOMAIN store' : store'[i].id = scroll'.id => Shows(scroll', store'[i].ranked)
    BY <2>2
  <2> QED
    BY <2>4, <2>5, <2>6, <2>7, Zenon DEF ScrollInv
<1>3. CASE req' = req
  <2>2. Typed(store) /\ Typed(store')
    <3>1. FeedShape' => Typed(store)'
      BY StoreIsTyped, PTL
    <3> QED
      BY <3>1, StoreIsTyped DEF FeedInv, Typed
  <2> DEFINE q == req[Scroller]
  <2>3. ASSUME InHand(q)
        PROVE  /\ q.ordering \in Seq(Video) /\ IsInjective(q.ordering)
               /\ q.id = scroll.id => Shows(scroll, q.ordering)
               /\ \A i \in DOMAIN store' : store'[i].id = q.id => Extends(q.ordering, store'[i].ranked)
    <3>1. HoldsAPart(q) /\ q.id \in Named
      BY <1>1, <2>3 DEF ScrollInv, InHand, Named
    <3> QED
      BY <2>2, <3>1, PartStays DEF HoldsAPart
  <2>4. q.pc # "idle" => q.offset \in Nat
    BY <1>1 DEF ScrollInv
  <2> HIDE DEF q
  <2>5. OnlyMoves(Scroller, q)
    BY <1>3 DEF OnlyMoves, q
  <2> QED
    BY <1>1, <2>3, <2>4, <2>5, RequestGoesOn
<1> QED
  BY <1>2, <1>3

\* A request answers from an ordering, of which it shows the stretch if it is the
\* one on screen; or from none, and then it is not stored.
LEMMA AnswerJoins ==
  ASSUME FeedInv, FeedInv', ScrollInv, OnlyGrow, NEW r \in Reader, req[r].pc # "idle",
         NEW id, NEW ordering, Answer(r, id, ordering),
         r = Scroller =>
           \/ /\ ordering \in Seq(Video) /\ IsInjective(ordering)
              /\ id = scroll.id => Shows(scroll, ordering)
              /\ \A i \in DOMAIN store' : store'[i].id = id => Extends(ordering, store'[i].ranked)
           \/ ordering = <<>> /\ \A i \in DOMAIN store' : store'[i].id # id
  PROVE  ScrollInv'
<1>1. Goes(r, Idle) /\ OnlyMoves(r, Idle)
  BY AnswerIsIdle, GoingMoves
<1>2. CASE r # Scroller
  <2>1. scroll' = scroll
    BY <1>2 DEF Answer
  <2> QED
    BY <1>1, <1>2, <2>1, RequestGoesOn DEF Idle
<1>3. CASE r = Scroller
  <2>1. Typed(store')
    <3>1. FeedShape' => Typed(store)'
      BY StoreIsTyped, PTL
    <3> QED
      BY <3>1 DEF FeedInv, Typed
  <2>2. req'[Scroller] = Idle /\ \A s \in Reader : s # r => req'[s] = req[s]
    BY <1>1, <1>3 DEF OnlyMoves
  <2>3. /\ \A s \in Reader : req'[s].pc # "idle" => req'[s].offset \in Nat
        /\ ~InHand(req'[Scroller])
    BY <1>3, <2>2 DEF ScrollInv, Idle, InHand
  <2>4. req[Scroller].offset \in Nat /\ Screen(scroll)
    BY <1>3 DEF ScrollInv
  <2>5. /\ Screen(scroll')
        /\ \A i \in DOMAIN store' : store'[i].id = scroll'.id => Shows(scroll', store'[i].ranked)
    <3>1. CASE /\ ordering \in Seq(Video) /\ IsInjective(ordering)
               /\ id = scroll.id => Shows(scroll, ordering)
               /\ \A i \in DOMAIN store' : store'[i].id = id => Extends(ordering, store'[i].ranked)
      <4>1. scroll'.id = id /\ Screen(scroll') /\ Shows(scroll', ordering)
        BY <1>3, <2>4, <3>1, AnswerShows
      <4> QED
        BY <2>1, <3>1, <4>1, ExtensionShows DEF Typed
    <3>2. CASE ordering = <<>> /\ \A i \in DOMAIN store' : store'[i].id # id
      BY <1>3, <2>4, <3>2, NothingIsAnswered
    <3> QED
      BY <1>3, <3>1, <3>2
  <2> QED
    BY <2>3, <2>5 DEF ScrollInv, OnlyGrow, InHand
<1> QED
  BY <1>2, <1>3

-----------------------------------------------------------------------------
LEMMA InitShows == Init => ScrollInv
<1> SUFFICES ASSUME Init PROVE ScrollInv
  OBVIOUS
<1>1. Scroller \in Reader
  BY FeedAssumption
<1>2. scroll.shown = <<>> /\ scroll.offset = 0 /\ store = <<>>
  BY DEF Init, Blank
<1>3. \A r \in Reader : req[r].pc = "idle"
  BY DEF Init, Idle
<1>4. DOMAIN scroll.shown = {} /\ scroll.shown \in Seq(Video) /\ DOMAIN store = {}
  BY <1>2
<1>5. Screen(scroll)
  BY <1>2, <1>4 DEF Screen, IsInjective
<1> QED
  BY <1>1, <1>3, <1>4, <1>5 DEF ScrollInv, InHand

LEMMA AskShows ==
  ASSUME FeedInv, FeedInv', ScrollInv, NEW r \in Reader, Ask(r) PROVE ScrollInv'
<1>1. PICK from \in {Blank} \cup {s \in {scroll} : r = Scroller /\ s.more} :
        Goes(r, IF projection = NotLoaded THEN Asking("loading", from, library)
                ELSE Asking("choose", from, projection))
  BY DEF Ask
<1> DEFINE q == IF projection = NotLoaded THEN Asking("loading", from, library)
                ELSE Asking("choose", from, projection)
<1>2. from.offset \in Nat
  BY DEF Blank, ScrollInv, Screen
<1>3. q.offset \in Nat /\ ~InHand(q)
  BY <1>2 DEF Asking, InHand
<1>4. OnlyMoves(r, q)
  BY <1>1, GoingMoves
<1>5. store' = store /\ scroll' = scroll
  BY DEF Ask
<1> HIDE DEF q
<1>6. OnlyGrow
  BY <1>5, StoreIsTyped, SameOnlyGrows DEF FeedInv
<1> QED
  BY <1>3, <1>4, <1>5, <1>6, RequestGoesOn

LEMMA LoadShows ==
  ASSUME FeedInv, FeedInv', ScrollInv, NEW r \in Reader, Load(r) PROVE ScrollInv'
<1>1. store' = store /\ scroll' = scroll /\ req[r].pc = "loading"
  BY DEF Load, At
<1>2. OnlyGrow
  BY <1>1, StoreIsTyped, SameOnlyGrows DEF FeedInv
<1>3. req[r].offset \in Nat
  BY <1>1 DEF ScrollInv
<1>4. \E q : Goes(r, q) /\ (q = Idle \/ \E seen : q = Asking("choose", req[r], seen))
  <2>1. CASE Goes(r, Asking("choose", req[r], req[r].library))
    BY <2>1
  <2>2. CASE Goes(r, Idle)
    BY <2>2
  <2>3. CASE Goes(r, Asking("choose", req[r], projection))
    BY <2>3
  <2> QED
    BY <2>1, <2>2, <2>3 DEF Load
<1>5. PICK q : Goes(r, q) /\ (q = Idle \/ \E seen : q = Asking("choose", req[r], seen))
  BY <1>4
<1>6. /\ q.pc # "idle" => q.offset \in Nat
      /\ ~InHand(q)
  BY <1>3, <1>5 DEF Asking, InHand, Idle
<1>7. OnlyMoves(r, q)
  BY <1>5, GoingMoves
<1> QED
  BY <1>1, <1>2, <1>6, <1>7, RequestGoesOn

LEMMA ChooseShows ==
  ASSUME FeedInv, FeedInv', ScrollInv, NEW r \in Reader, Choose(r) PROVE ScrollInv'
<1> DEFINE id == Chosen(req[r].id)
           Ranks(known, ordering) ==
             Goes(r, [pc |-> "keep", id |-> known, offset |-> req[r].offset,
                      library |-> req[r].library, found |-> Rankable,
                      ordering |-> IF r = Scroller THEN ordering ELSE <<>>])
<1>1. store' = store /\ req[r].pc = "choose" /\ req[r].offset \in Nat
  BY DEF Choose, RankFails, At, ScrollInv
<1>2. OnlyGrow /\ Typed(store)
  BY <1>1, StoreIsTyped, SameOnlyGrows DEF FeedInv
<1>3. \/ scroll' = scroll /\ Goes(r, Idle)
      \/ scroll' = scroll /\ Ranks(NoId, <<>>)
      \/ scroll' = scroll /\ id \in Stored /\ Ranks(id, Entry(id).ranked)
      \/ id \in Stored /\ Answer(r, id, Entry(id).ranked)
  BY DEF Choose, RankFails
<1> HIDE DEF id
<1>4. CASE scroll' = scroll /\ Goes(r, Idle)
  <2>1. Idle.pc = "idle" /\ ~InHand(Idle)
    BY DEF Idle, InHand
  <2> QED
    BY <1>2, <1>4, <2>1, GoingMoves, RequestGoesOn
<1>5. CASE scroll' = scroll /\ Ranks(NoId, <<>>)
  <2> DEFINE q == [pc |-> "keep", id |-> NoId, offset |-> req[r].offset,
                   library |-> req[r].library, found |-> Rankable,
                   ordering |-> IF r = Scroller THEN <<>> ELSE <<>>]
  <2>1. q.offset \in Nat /\ ~InHand(q)
    BY <1>1 DEF InHand
  <2>2. Goes(r, q)
    BY <1>5
  <2> HIDE DEF q
  <2> QED
    BY <1>2, <1>5, <2>1, <2>2, GoingMoves, RequestGoesOn
<1>6. ASSUME id \in Stored
      PROVE  \E i \in DOMAIN store :
               /\ store[i].id = id /\ Entry(id) = store[i] /\ store[i].ranked \in Seq(Video)
               /\ IsInjective(store[i].ranked)
               /\ id = scroll.id => Shows(scroll, store[i].ranked)
               /\ \A j \in DOMAIN store : store[j].id = id => Extends(store[i].ranked, store[j].ranked)
  <2>1. PICK i \in DOMAIN store : store[i].id = id /\ Entry(id) = store[i]
    BY <1>6, StoredIsSomewhere DEF FeedInv
  <2>2. \A j \in DOMAIN store : store[j].id = id => j = i
    BY <2>1 DEF FeedInv, FeedShape
  <2>3. Extends(store[i].ranked, store[i].ranked) /\ store[i].ranked \in Seq(Video)
    BY <1>2, ExtendsItself DEF Typed
  <2> QED
    BY <2>1, <2>2, <2>3 DEF ScrollInv
<1>7. CASE scroll' = scroll /\ id \in Stored /\ Ranks(id, Entry(id).ranked)
  <2>1. PICK i \in DOMAIN store :
               /\ store[i].id = id /\ Entry(id) = store[i] /\ store[i].ranked \in Seq(Video)
               /\ IsInjective(store[i].ranked)
               /\ id = scroll.id => Shows(scroll, store[i].ranked)
               /\ \A j \in DOMAIN store : store[j].id = id => Extends(store[i].ranked, store[j].ranked)
    BY <1>6, <1>7
  <2> DEFINE q == [pc |-> "keep", id |-> id, offset |-> req[r].offset,
                   library |-> req[r].library, found |-> Rankable,
                   ordering |-> IF r = Scroller THEN Entry(id).ranked ELSE <<>>]
  <2>2. q.offset \in Nat /\ q.id = id /\ (r = Scroller => q.ordering = store[i].ranked)
    BY <1>1, <2>1
  <2>3. Goes(r, q)
    BY <1>7
  <2> HIDE DEF q
  <2>4. r = Scroller =>
          /\ q.ordering \in Seq(Video) /\ IsInjective(q.ordering)
          /\ q.id = scroll.id => Shows(scroll, q.ordering)
          /\ \A j \in DOMAIN store' : store'[j].id = q.id => Extends(q.ordering, store'[j].ranked)
    BY <1>1, <2>1, <2>2
  <2> QED
    BY <1>2, <1>7, <2>2, <2>3, <2>4, GoingMoves, RequestGoesOn
<1>8. CASE id \in Stored /\ Answer(r, id, Entry(id).ranked)
  <2>1. PICK i \in DOMAIN store :
               /\ store[i].id = id /\ Entry(id) = store[i] /\ store[i].ranked \in Seq(Video)
               /\ IsInjective(store[i].ranked)
               /\ id = scroll.id => Shows(scroll, store[i].ranked)
               /\ \A j \in DOMAIN store : store[j].id = id => Extends(store[i].ranked, store[j].ranked)
    BY <1>6, <1>8
  <2> DEFINE ordering == store[i].ranked
  <2>2. Answer(r, id, ordering)
    BY <1>8, <2>1
  <2>3. /\ ordering \in Seq(Video) /\ IsInjective(ordering)
        /\ id = scroll.id => Shows(scroll, ordering)
        /\ \A j \in DOMAIN store' : store'[j].id = id => Extends(ordering, store'[j].ranked)
    BY <1>1, <2>1
  <2> HIDE DEF ordering
  <2> QED
    BY <1>1, <1>2, <2>2, <2>3, AnswerJoins
<1> QED
  BY <1>3, <1>4, <1>5, <1>7, <1>8

LEMMA KeepShows ==
  ASSUME FeedInv, FeedInv', ScrollInv, NEW r \in Reader, Keep(r) PROVE ScrollInv'
<1> DEFINE q == req[r]
           Stamping(id, again) ==
             [pc |-> "stamp", id |-> id, offset |-> q.offset, library |-> q.library,
              found |-> q.found, again |-> again,
              ordering |-> IF again THEN <<>> ELSE q.ordering]
<1>1. /\ q.pc = "keep" /\ q.offset \in Nat /\ q.found \subseteq Video /\ scroll' = scroll
  BY DEF Keep, At, FeedInv, Stage, ScrollInv
<1>2. /\ FeedShape /\ Typed(store) /\ store \in Seq(Ordering) /\ DOMAIN store = 1..Len(store)
      /\ Len(store) \in Nat
  BY StoreIsTyped DEF FeedInv, FeedShape
<1>3. \A id, again : /\ Stamping(id, again).pc = "stamp" /\ Stamping(id, again).id = id
                     /\ Stamping(id, again).offset = q.offset
                     /\ Stamping(id, again).again = again
                     /\ ~again => Stamping(id, again).ordering = q.ordering
  OBVIOUS
<1> HIDE DEF Stamping
<1>4. \A id, again : InHand(Stamping(id, again)) => ~again
  BY <1>3 DEF InHand
<1>5. r = Scroller /\ q.id # NoId => HoldsAPart(q)
  BY <1>1 DEF ScrollInv, InHand
<1>6. CASE /\ q.id = NoId /\ Id \ Named # {}
           /\ \E ranked \in Orderings(q.found) :
                store' = Append(store, [id |-> Fresh, ranked |-> ranked,
                                        library |-> Unstamped, leftOut |-> {}])
           /\ Goes(r, Stamping(Fresh, TRUE))
  <2>1. Fresh \in Id /\ Fresh \notin Named
    BY <1>6 DEF Fresh
  <2>2. PICK ranked \in Orderings(q.found) :
          store' = Append(store, [id |-> Fresh, ranked |-> ranked,
                                  library |-> Unstamped, leftOut |-> {}])
    BY <1>6
  <2>3. ranked \in Seq(Video) /\ IsInjective(ranked)
    BY <1>1, <2>2, OrderingsAreOf, OrderingsAreInjective
  <2> DEFINE e == [id |-> Fresh, ranked |-> ranked, library |-> Unstamped, leftOut |-> {}]
  <2>4. e \in Ordering /\ e.id = Fresh /\ e.ranked = ranked
    BY <2>1, <2>3 DEF Ordering
  <2>5. store' = Append(store, e)
    BY <2>2
  <2> HIDE DEF e
  <2>6. /\ \A i \in DOMAIN store : store'[i] = store[i]
        /\ store'[Len(store) + 1] = e
        /\ \A i \in DOMAIN store' : i \in DOMAIN store \/ i = Len(store) + 1
    BY <1>2, <2>4, <2>5
  <2>7. \A j \in DOMAIN store : IsInjective(store[j].ranked) /\ Extends(store[j].ranked, store[j].ranked)
    BY <1>2, ExtendsItself DEF ScrollInv, Typed
  <2>8. OnlyGrow
    BY <2>1, <2>3, <2>4, <2>6, <2>7 DEF OnlyGrow
  <2>9. Stamping(Fresh, TRUE).offset \in Nat /\ ~InHand(Stamping(Fresh, TRUE))
    BY <1>1, <1>3, <1>4
  <2> QED
    BY <1>1, <1>6, <2>8, <2>9, GoingMoves, RequestGoesOn
<1>7. CASE \E more \in Orderings(New(Entry(q.id).ranked, q.ordering, q.found)) :
             /\ q.id \in Stored
             /\ Update([Entry(q.id) EXCEPT !.ranked = @ \o more])
             /\ Goes(r, Stamping(q.id, more # <<>>))
  <2>1. PICK more \in Orderings(New(Entry(q.id).ranked, q.ordering, q.found)) :
             /\ q.id \in Stored
             /\ Update([Entry(q.id) EXCEPT !.ranked = @ \o more])
             /\ Goes(r, Stamping(q.id, more # <<>>))
    BY <1>7
  <2> DEFINE e == Entry(q.id)
             f == [e EXCEPT !.ranked = @ \o more]
  <2>2. PICK k \in DOMAIN store : store[k].id = q.id /\ e = store[k]
    BY <1>2, <2>1, StoredIsSomewhere
  <2>3. e \in Ordering /\ e.id = q.id /\ e.ranked \in Seq(Video) /\ e.id \in Id /\ IsInjective(e.ranked)
    <3> HIDE DEF e
    <3>1. e \in Ordering /\ e.id = q.id /\ IsInjective(e.ranked)
      BY <1>2, <2>2 DEF ScrollInv
    <3> QED
      BY <3>1 DEF Ordering
  <2>4. /\ more \in Seq(Video) /\ IsInjective(more)
        /\ Range(e.ranked) \cap Range(more) = {}
    BY <1>1, <2>1, OrderingsAreOf, OrderingsAreInjective DEF New
  <2> HIDE DEF e
  <2>5. /\ e.ranked \o more \in Seq(Video) /\ IsInjective(e.ranked \o more)
        /\ Extends(e.ranked, e.ranked \o more)
        /\ Range(e.ranked \o more) = Range(e.ranked) \cup Range(more)
    BY <2>3, <2>4, JoinedRange, JoinedIsInjective
  <2>6. /\ f \in Ordering /\ f.id = q.id /\ f.ranked = e.ranked \o more
    BY <2>3, <2>5 DEF Ordering
  <2>7. Update(f)
    BY <2>1 DEF e
  <2> HIDE DEF f
  <2>8. Range(Entry(f.id).ranked) \subseteq Range(f.ranked)
    BY <2>5, <2>6 DEF e
  <2>9. /\ DOMAIN store' = DOMAIN store
        /\ \A i \in DOMAIN store :
             /\ store'[i].id = store[i].id
             /\ store'[i] = IF store[i].id = f.id THEN f ELSE store[i]
    BY <1>2, <2>1, <2>6, <2>7, <2>8, Updated
  <2>10. OnlyGrow
    <3> SUFFICES ASSUME NEW i \in DOMAIN store
                 PROVE  IsInjective(store'[i].ranked) /\ Extends(store[i].ranked, store'[i].ranked)
      BY <2>9 DEF OnlyGrow
    <3>1. CASE store[i].id = q.id
      <4>1. store[i] = e /\ store'[i] = f
        BY <1>2, <2>2, <2>6, <2>9, <3>1 DEF FeedShape
      <4> QED
        BY <2>5, <2>6, <4>1
    <3>2. CASE store[i].id # q.id
      <4>1. store'[i] = store[i]
        BY <2>6, <2>9, <3>2
      <4> QED
        BY <1>2, <4>1, ExtendsItself DEF ScrollInv, Typed
    <3> QED
      BY <3>1, <3>2
  <2> DEFINE again == more # <<>>
             p     == Stamping(q.id, again)
  <2>11. Goes(r, p) /\ p.offset \in Nat /\ p.id = q.id
    BY <1>1, <1>3, <2>1
  <2>12. ASSUME r = Scroller, InHand(p)
         PROVE  /\ p.ordering \in Seq(Video) /\ IsInjective(p.ordering)
                /\ p.id = scroll.id => Shows(scroll, p.ordering)
                /\ \A i \in DOMAIN store' : store'[i].id = p.id => Extends(p.ordering, store'[i].ranked)
    <3>1. p.ordering = q.ordering
      BY <1>3, <1>4, <2>12
    <3>2. q.id # NoId /\ q.id \in Named
      BY <2>3, <2>1, FeedAssumption DEF Named
    <3>3. HoldsAPart(q)
      BY <1>5, <2>12, <3>2
    <3>4. Typed(store')
      <4>1. FeedShape' => Typed(store)'
        BY StoreIsTyped, PTL
      <4> QED
        BY <4>1 DEF FeedInv, Typed
    <3>5. \A i \in DOMAIN store' : store'[i].id = q.id => Extends(q.ordering, store'[i].ranked)
      BY <1>2, <2>10, <3>2, <3>3, <3>4, PartStays
    <3> QED
      BY <2>11, <3>1, <3>3, <3>5 DEF HoldsAPart
  <2> HIDE DEF p
  <2> QED
    BY <1>1, <2>10, <2>11, <2>12, GoingMoves, RequestGoesOn
<1>8. CASE /\ q.id # NoId /\ q.id \notin Stored /\ store' = store
           /\ Goes(r, Stamping(q.id, FALSE))
  <2>1. OnlyGrow
    BY <1>2, <1>8, SameOnlyGrows
  <2> DEFINE p == Stamping(q.id, FALSE)
  <2>2. Goes(r, p) /\ p.offset \in Nat /\ p.id = q.id /\ p.ordering = q.ordering
    BY <1>1, <1>3, <1>8
  <2> HIDE DEF p
  <2>3. r = Scroller =>
          /\ p.ordering \in Seq(Video) /\ IsInjective(p.ordering)
          /\ p.id = scroll.id => Shows(scroll, p.ordering)
          /\ \A i \in DOMAIN store' : store'[i].id = p.id => Extends(p.ordering, store'[i].ranked)
    BY <1>5, <1>8, <2>2 DEF HoldsAPart
  <2> QED
    BY <1>1, <2>1, <2>2, <2>3, GoingMoves, RequestGoesOn
<1> QED
  BY <1>6, <1>7, <1>8 DEF Keep, Stamping

LEMMA StampShows ==
  ASSUME FeedInv, FeedInv', ScrollInv, NEW r \in Reader, Stamp(r) PROVE ScrollInv'
<1> DEFINE q == req[r]
           ordering == IF ~q.again THEN q.ordering
                       ELSE IF q.id \in Stored THEN Entry(q.id).ranked ELSE <<>>
<1>1. q.pc = "stamp" /\ q.library \subseteq Video /\ Answer(r, q.id, ordering)
  BY DEF Stamp, At, FeedInv, Stage
<1>2. FeedShape /\ Typed(store)
  BY StoreIsTyped DEF FeedInv
\* Whatever is stamped, the orderings stay.
<1>3. /\ DOMAIN store' = DOMAIN store
      /\ \A i \in DOMAIN store : store'[i].id = store[i].id /\ store'[i].ranked = store[i].ranked
  <2>1. CASE /\ q.id \in Stored
             /\ Update([Entry(q.id) EXCEPT !.library = q.library, !.leftOut = q.library \ q.found])
    <3> DEFINE e == Entry(q.id)
               f == [e EXCEPT !.library = q.library, !.leftOut = q.library \ q.found]
    <3>1. PICK k \in DOMAIN store : store[k].id = q.id /\ e = store[k]
      BY <1>2, <2>1, StoredIsSomewhere
    <3>2. e \in Ordering
      BY <1>2, <3>1 DEF FeedShape
    <3> HIDE DEF e
    <3>3. f \in Ordering /\ f.id = q.id /\ f.ranked = e.ranked
      BY <1>1, <3>1, <3>2 DEF Ordering
    <3>4. Update(f)
      BY <2>1 DEF e
    <3> HIDE DEF f
    <3>5. Range(Entry(f.id).ranked) \subseteq Range(f.ranked)
      BY <3>3 DEF e
    <3>6. /\ DOMAIN store' = DOMAIN store
          /\ \A i \in DOMAIN store :
               /\ store'[i].id = store[i].id
               /\ store'[i] = IF store[i].id = f.id THEN f ELSE store[i]
      BY <1>2, <2>1, <3>3, <3>4, <3>5, Updated
    <3>7. \A i \in DOMAIN store : store[i].id = q.id => store[i] = e
      BY <1>2, <3>1 DEF FeedShape
    <3> QED
      BY <3>3, <3>6, <3>7
  <2>2. CASE store' = store
    BY <2>2
  <2> QED
    BY <2>1, <2>2 DEF Stamp
<1>4. OnlyGrow
  <2>1. \A j \in DOMAIN store : IsInjective(store[j].ranked) /\ Extends(store[j].ranked, store[j].ranked)
    BY <1>2, ExtendsItself DEF ScrollInv, Typed
  <2> QED
    BY <1>3, <2>1 DEF OnlyGrow
<1>5. ASSUME r = Scroller
      PROVE  \/ /\ ordering \in Seq(Video) /\ IsInjective(ordering)
                /\ q.id = scroll.id => Shows(scroll, ordering)
                /\ \A i \in DOMAIN store' : store'[i].id = q.id => Extends(ordering, store'[i].ranked)
             \/ ordering = <<>> /\ \A i \in DOMAIN store' : store'[i].id # q.id
  <2>1. CASE ~q.again
    <3>1. HoldsAPart(q)
      BY <1>1, <1>5, <2>1 DEF ScrollInv, InHand
    <3> QED
      BY <1>3, <2>1, <3>1 DEF HoldsAPart
  <2>2. CASE q.again /\ q.id \in Stored
    <3>1. PICK k \in DOMAIN store : store[k].id = q.id /\ Entry(q.id) = store[k]
      BY <1>2, <2>2, StoredIsSomewhere
    <3>2. ordering = store[k].ranked /\ \A i \in DOMAIN store : store[i].id = q.id => i = k
      BY <1>2, <2>2, <3>1 DEF FeedShape
    <3>3. /\ store[k].ranked \in Seq(Video) /\ IsInjective(store[k].ranked)
          /\ q.id = scroll.id => Shows(scroll, store[k].ranked)
          /\ Extends(store[k].ranked, store[k].ranked)
      BY <1>2, <3>1, ExtendsItself DEF ScrollInv, Typed
    <3> QED
      BY <1>3, <3>2, <3>3
  <2>3. CASE q.again /\ q.id \notin Stored
    BY <1>3, <2>3 DEF Stored
  <2> QED
    BY <2>1, <2>2, <2>3
<1> HIDE DEF ordering
<1> QED
  BY <1>1, <1>4, <1>5, AnswerJoins

LEMMA ElsewhereShows ==
  ASSUME FeedInv, FeedInv', ScrollInv,
         Elsewhere \/ Restart \/ UNCHANGED vars
  PROVE  ScrollInv'
<1>1. /\ scroll' = scroll
      /\ req' = req \/ req' = [r \in Reader |-> Idle]
      /\ store' = store \/ store' = <<>> \/ (store # <<>> /\ store' = Tail(store))
  BY DEF Elsewhere, InvalidateUser, LibraryChanges, ExcludedChanges, Refresh, Expire, Restart, vars
<1>2. FeedShape /\ Typed(store)
  BY StoreIsTyped DEF FeedInv
<1>3. \A i \in DOMAIN store' : \E j \in DOMAIN store : store'[i] = store[j]
  BY <1>1, <1>2, NothingShrinks, TailShrinks DEF Shrinks
<1> QED
  BY <1>1, <1>2, <1>3, SameOnlyGrows, ScreenStays

LEMMA ScrollStep == FeedInv /\ FeedInv' /\ ScrollInv /\ [Next]_vars => ScrollInv'
<1> SUFFICES ASSUME FeedInv, FeedInv', ScrollInv, [Next]_vars PROVE ScrollInv'
  OBVIOUS
<1>1. ASSUME NEW r \in Reader, Ask(r) \/ PageGoesOn(r) PROVE ScrollInv'
  BY <1>1, AskShows, LoadShows, ChooseShows, KeepShows, StampShows DEF PageGoesOn
<1> QED
  BY <1>1, ElsewhereShows DEF Next, Elsewhere

LEMMA StretchIsSubSeq ==
  ASSUME NEW shown \in Seq(Video), NEW ranked \in Seq(Video), NEW from \in Nat,
         \A i \in DOMAIN shown : from + i \in DOMAIN ranked /\ shown[i] = ranked[from + i]
  PROVE  shown = SubSeq(ranked, from + 1, from + Len(shown))
<1> DEFINE n    == Len(shown)
           part == SubSeq(ranked, from + 1, from + n)
<1>1. n \in Nat /\ DOMAIN shown = 1..n
  OBVIOUS
<1> HIDE DEF n
<1>2. part \in Seq(Video) /\ Len(part) = n
  <2>1. CASE n = 0
    BY <2>1
  <2>2. CASE n > 0
    <3>1. from + 1 \in DOMAIN ranked /\ from + n \in DOMAIN ranked
      BY <1>1, <2>2
    <3> QED
      BY <1>1, <2>2, <3>1
  <2> QED
    BY <1>1, <2>1, <2>2
<1>3. \A i \in 1..n : part[i] = ranked[from + i]
  BY <1>1, <1>2
<1> HIDE DEF part
<1>4. shown \in Seq(Video) /\ Len(shown) = n
  BY DEF n
<1>5. \A i \in 1..n : shown[i] = part[i]
  BY <1>1, <1>3
<1>6. shown = part
  BY <1>2, <1>4, <1>5, SeqEqual
<1> QED
  BY <1>6 DEF part, n

LEMMA ShownIsWhole == FeedInv /\ ScrollInv => ScrollIsWhole
<1> SUFFICES ASSUME FeedInv, ScrollInv, NEW e \in Range(store), e.id = scroll.id
             PROVE  scroll.shown = SubSeq(e.ranked, scroll.offset - Len(scroll.shown) + 1, scroll.offset)
  BY DEF ScrollIsWhole, ScrollInv, Screen
<1>1. /\ e.ranked \in Seq(Video) /\ Shows(scroll, e.ranked)
      /\ scroll.shown \in Seq(Video) /\ scroll.offset \in Nat
  BY StoreIsTyped DEF Range, FeedInv, Typed, ScrollInv, Screen
<1> DEFINE from == scroll.offset - Len(scroll.shown)
<1>2. from \in Nat /\ scroll.offset = from + Len(scroll.shown)
  BY <1>1 DEF Shows
<1>3. \A i \in DOMAIN scroll.shown :
        from + i \in DOMAIN e.ranked /\ scroll.shown[i] = e.ranked[from + i]
  BY <1>1 DEF Shows
<1> HIDE DEF from
<1>4. scroll.shown = SubSeq(e.ranked, from + 1, from + Len(scroll.shown))
  BY <1>1, <1>2, <1>3, StretchIsSubSeq
<1>5. scroll.shown = SubSeq(e.ranked, from + 1, scroll.offset)
  BY <1>2, <1>4
<1> QED
  BY <1>5 DEF from

\* A screen that scrolls on in one ordering shows a stretch of it, each video
\* once, up to its offset (SnapshotStore: an ordering is frozen and only appended
\* to): whatever other screens append, stamp or begin, and whatever the library,
\* the clock, a failed call or a restart does between two pages.
THEOREM ScrollStaysWhole == Spec => []ScrollIsWhole
<1>1. Init => FeedInv /\ ScrollInv
  BY InitIsSettled, InitShows
<1>2. FeedInv /\ ScrollInv /\ [Next]_vars => (FeedInv /\ ScrollInv)'
  BY StepKeeps, ScrollStep
<1> QED
  BY <1>1, <1>2, ShownIsWhole, PTL DEF Spec

-----------------------------------------------------------------------------
(* The order of a page: quota and diversity of channels.  What is counted   *)
(* in steps is proved by climbing them.                                     *)

\* Induction up to n, with a set in the place of the predicate.
LEMMA Climb ==
  ASSUME NEW n \in Nat, NEW S, 0 \in S, \A k \in 1..n : k - 1 \in S => k \in S
  PROVE  n \in S
<1> DEFINE T == (0..n) \ S
           Less == OpToRel(<, Nat)
<1>1. \A j, k \in Nat : j < k => <<j, k>> \in Less
  BY Zenon DEF OpToRel
<1>2. IsWellFoundedOn(Less, Nat)
  BY NatLessThanWellFounded, Zenon
<1> HIDE DEF Less
<1>3. SUFFICES ASSUME T # {} PROVE FALSE
  OBVIOUS
<1>4. T \subseteq Nat
  OBVIOUS
<1>5. PICK x \in T : \A y \in T : ~(<<y, x>> \in Less)
  BY <1>2, <1>3, <1>4, WFMin, Zenon
<1>6. x \in 1..n /\ x - 1 \in 0..n /\ x - 1 < x
  OBVIOUS
<1>7. x - 1 \in T
  BY <1>6
<1> QED
  BY <1>1, <1>4, <1>5, <1>6, <1>7

\* What is built step by step: step[k][s] is what the k-th makes of s.
Built(f, n, S, base, step) ==
  /\ f \in [0..n -> S] /\ f[0] = base
  /\ \A k \in 1..n : f[k] = step[k][f[k - 1]]

LEMMA StepsExist ==
  ASSUME NEW n \in Nat, NEW S, NEW base \in S, NEW step \in [1..n -> [S -> S]]
  PROVE  \E f : Built(f, n, S, base, step)
<1> DEFINE Done == {m \in 0..n : \E f : Built(f, m, S, base, step)}
<1>1. 0 \in Done
  <2> DEFINE f == [k \in 0..0 |-> base]
  <2>1. f \in [0..0 -> S] /\ f[0] = base
    OBVIOUS
  <2> HIDE DEF f
  <2>2. Built(f, 0, S, base, step)
    BY <2>1 DEF Built
  <2> QED
    BY <2>2
<1>2. ASSUME NEW m \in 1..n, m - 1 \in Done PROVE m \in Done
  <2>1. PICK f : Built(f, m - 1, S, base, step)
    BY <1>2
  <2>2. f \in [0..(m - 1) -> S] /\ f[0] = base /\ \A k \in 1..(m - 1) : f[k] = step[k][f[k - 1]]
    BY <2>1 DEF Built
  <2> DEFINE g == [k \in 0..m |-> IF k < m THEN f[k] ELSE step[m][f[m - 1]]]
  <2>3. f[m - 1] \in S /\ step[m][f[m - 1]] \in S
    BY <2>2
  <2>4. g \in [0..m -> S]
    BY <2>2, <2>3
  <2>5. \A k \in 0..(m - 1) : g[k] = f[k]
    OBVIOUS
  <2>6. g[m] = step[m][f[m - 1]]
    OBVIOUS
  <2> HIDE DEF g
  <2>7. \A k \in 1..m : g[k] = step[k][g[k - 1]]
    <3> TAKE k \in 1..m
    <3>1. k - 1 \in 0..(m - 1) /\ g[k - 1] = f[k - 1]
      BY <2>5
    <3>2. CASE k = m
      BY <2>6, <3>1, <3>2
    <3>3. CASE k # m
      <4>1. k \in 1..(m - 1) /\ k \in 0..(m - 1)
        BY <3>3
      <4> QED
        BY <2>2, <2>5, <3>1, <4>1
    <3> QED
      BY <3>2, <3>3
  <2>8. g[0] = base
    BY <2>2, <2>5
  <2>9. Built(g, m, S, base, step)
    BY <2>4, <2>7, <2>8 DEF Built
  <2> QED
    BY <2>9
<1>3. n \in Done
  <2>1. \A m \in 1..n : m - 1 \in Done => m \in Done
    BY <1>2
  <2> HIDE DEF Done
  <2> QED
    BY <1>1, <2>1, Climb
<1> QED
  BY <1>3

Thing == DOMAIN Slot

\* A sequence that has each of these once.
Lists(q, videos) == q \in Seq(Thing) /\ IsInjective(q) /\ Range(q) = videos

LEMMA NothingListed == Lists(<<>>, {})
<1>1. <<>> \in Seq(Thing) /\ DOMAIN <<>> = {}
  OBVIOUS
<1> QED
  BY <1>1 DEF Lists, IsInjective, Range

LEMMA OneMore ==
  ASSUME NEW q, NEW videos, Lists(q, videos), NEW v \in Thing \ videos
  PROVE  Lists(Append(q, v), videos \cup {v})
<1> DEFINE r == Append(q, v)
<1>1. q \in Seq(Thing) /\ IsInjective(q) /\ Range(q) = videos
  BY DEF Lists
<1>2. /\ r \in Seq(Thing) /\ Len(q) \in Nat /\ DOMAIN q = 1..Len(q) /\ DOMAIN r = 1..(Len(q) + 1)
      /\ \A i \in 1..Len(q) : r[i] = q[i]
      /\ r[Len(q) + 1] = v
  BY <1>1
<1> HIDE DEF r
<1>3. \A i \in DOMAIN r : i \in DOMAIN q \/ i = Len(q) + 1
  BY <1>2
<1>4. \A i \in DOMAIN q : q[i] # v /\ i \in DOMAIN r
  BY <1>1, <1>2 DEF Range
<1>5. Len(q) + 1 \in DOMAIN r
  BY <1>2
<1>6. IsInjective(r)
  BY <1>1, <1>2, <1>3, <1>4 DEF IsInjective
<1>7. Range(r) = videos \cup {v}
  BY <1>1, <1>2, <1>3, <1>4, <1>5 DEF Range
<1> QED
  BY <1>2, <1>6, <1>7 DEF Lists, r

LEMMA Joined ==
  ASSUME NEW p, NEW ps, Lists(p, ps), NEW q, NEW qs, Lists(q, qs), ps \cap qs = {}
  PROVE  Lists(p \o q, ps \cup qs)
<1> DEFINE r == p \o q
<1>1. /\ p \in Seq(Thing) /\ IsInjective(p) /\ Range(p) = ps
      /\ q \in Seq(Thing) /\ IsInjective(q) /\ Range(q) = qs
  BY DEF Lists
<1> DEFINE m == Len(p)
           n == Len(q)
<1>2. /\ r \in Seq(Thing) /\ m \in Nat /\ n \in Nat
      /\ DOMAIN p = 1..m /\ DOMAIN q = 1..n /\ DOMAIN r = 1..(m + n)
      /\ \A i \in 1..m : r[i] = p[i]
      /\ \A i \in 1..n : r[m + i] = q[i]
  BY <1>1
<1>3. \A i \in DOMAIN r : i \in DOMAIN p \/ \E j \in DOMAIN q : i = m + j
  <2> TAKE i \in DOMAIN r
  <2>1. CASE i <= m
    BY <1>2, <2>1
  <2>2. CASE ~(i <= m)
    <3>1. i - m \in 1..n /\ i = m + (i - m)
      BY <1>2, <2>2
    <3> QED
      BY <1>2, <3>1
  <2> QED
    BY <2>1, <2>2
<1>4. (\A i \in DOMAIN p : i \in DOMAIN r) /\ (\A j \in DOMAIN q : m + j \in DOMAIN r)
  BY <1>2
<1> HIDE DEF r, m, n
<1>5. \A i \in DOMAIN p, j \in DOMAIN q : p[i] # q[j]
  BY <1>1 DEF Range
<1>6. IsInjective(r)
  <2> SUFFICES ASSUME NEW i \in DOMAIN r, NEW j \in DOMAIN r, r[i] = r[j] PROVE i = j
    BY DEF IsInjective
  <2>1. CASE i \in DOMAIN p /\ j \in DOMAIN p
    BY <1>1, <1>2, <2>1 DEF IsInjective
  <2>2. CASE i \notin DOMAIN p /\ j \notin DOMAIN p
    <3>1. PICK k \in DOMAIN q, l \in DOMAIN q : i = m + k /\ j = m + l
      BY <1>3, <2>2
    <3>2. q[k] = q[l]
      BY <1>2, <3>1
    <3>3. k = l
      BY <1>1, <3>2 DEF IsInjective
    <3> QED
      BY <3>1, <3>3
  <2>3. ASSUME NEW a \in DOMAIN p, NEW b \in DOMAIN r \ DOMAIN p PROVE r[a] # r[b]
    BY <1>2, <1>3, <1>5
  <2> QED
    BY <2>1, <2>2, <2>3
<1>7. Range(r) = ps \cup qs
  <2>1. \A i \in DOMAIN r : r[i] \in ps \cup qs
    BY <1>1, <1>2, <1>3 DEF Range
  <2>2. \A i \in DOMAIN p : p[i] \in Range(r)
    BY <1>2, <1>4 DEF Range
  <2>3. \A j \in DOMAIN q : q[j] \in Range(r)
    BY <1>2, <1>4 DEF Range
  <2> QED
    BY <1>1, <2>1, <2>2, <2>3 DEF Range
<1> QED
  BY <1>2, <1>6, <1>7 DEF Lists, r

\* FlattenSeq, as it goes.
Flattening(f, n, parts) ==
  \A i \in 1..n : f[i] = IF i = 1 THEN parts[i] ELSE f[i - 1] \o parts[i]

LEMMA FlattenFlattens ==
  ASSUME NEW n \in Nat \ {0}, NEW parts, parts \in [1..n -> Seq(Thing)]
  PROVE  \E f : Flattening(f, n, parts) /\ FlattenSeq(parts) = f[n]
<1>1. parts \in Seq(Seq(Thing)) /\ Len(parts) = n /\ \A i \in 1..n : parts[i] \in Seq(Thing)
  OBVIOUS
<1> DEFINE Fills(f) == f = [i \in 1..n |-> IF i = 1 THEN parts[i] ELSE f[i - 1] \o parts[i]]
           flatten == CHOOSE f : Fills(f)
<1>2. FlattenSeq(parts) = flatten[n]
  BY <1>1 DEF FlattenSeq
<1>3. Fills(flatten)
  <2> DEFINE step == [k \in 1..n |-> [s \in Seq(Thing) |-> s \o parts[k]]]
  <2>1. \A k \in 1..n, s \in Seq(Thing) : step[k][s] = s \o parts[k] /\ step[k][s] \in Seq(Thing)
    BY <1>1
  <2> HIDE DEF step
  <2>2. PICK g : Built(g, n, Seq(Thing), <<>>, step)
    <3>1. <<>> \in Seq(Thing) /\ n \in Nat
      OBVIOUS
    <3>2. step \in [1..n -> [Seq(Thing) -> Seq(Thing)]]
      BY <1>1 DEF step
    <3> QED
      BY <3>1, <3>2, StepsExist, Zenon
  <2>3. g \in [0..n -> Seq(Thing)] /\ g[0] = <<>> /\ \A k \in 1..n : g[k] = step[k][g[k - 1]]
    BY <2>2 DEF Built
  <2> DEFINE f == [i \in 1..n |-> g[i]]
  <2>4. ASSUME NEW i \in 1..n
        PROVE  f[i] = IF i = 1 THEN parts[i] ELSE f[i - 1] \o parts[i]
    <3>1. i - 1 \in 0..n /\ g[i - 1] \in Seq(Thing)
      BY <2>3
    <3>2. f[i] = g[i - 1] \o parts[i]
      BY <2>1, <2>3, <3>1
    <3>3. CASE i = 1
      <4>1. g[i - 1] = <<>> /\ <<>> \o parts[i] = parts[i]
        BY <1>1, <2>3, <3>3
      <4> QED
        BY <3>2, <3>3, <4>1
    <3>4. CASE i # 1
      <4>1. i - 1 \in 1..n
        BY <3>4
      <4> QED
        BY <3>2, <3>4, <4>1
    <3> QED
      BY <3>3, <3>4
  <2>5. Fills(f)
    BY <2>4
  <2> HIDE DEF Fills
  <2> QED
    BY <2>5
<1> HIDE DEF flatten
<1>4. Flattening(flatten, n, parts)
  BY <1>3 DEF Flattening
<1> QED
  BY <1>2, <1>4

\* Parts that have nothing in common, one behind the other.
Apart(n, parts, sets) ==
  /\ parts \in [1..n -> Seq(Thing)]
  /\ \A i \in 1..n : Lists(parts[i], sets[i])
  /\ \A i, j \in 1..n : i # j => sets[i] \cap sets[j] = {}

AllOf(n, sets) == UNION {sets[i] : i \in 1..n}

LEMMA UpToJoined ==
  ASSUME NEW n \in Nat \ {0}, NEW parts, NEW sets, Apart(n, parts, sets),
         NEW f, Flattening(f, n, parts)
  PROVE  \A k \in 1..n : Lists(f[k], AllOf(k, sets))
<1>0. /\ \A i \in 1..n : Lists(parts[i], sets[i])
      /\ \A i, j \in 1..n : i # j => sets[i] \cap sets[j] = {}
  BY DEF Apart
<1>1. \A i \in 1..n : f[i] = IF i = 1 THEN parts[i] ELSE f[i - 1] \o parts[i]
  BY DEF Flattening
<1> DEFINE Good(k) == k = 0 \/ Lists(f[k], AllOf(k, sets))
           Goods == {k \in 0..n : Good(k)}
<1>2. ASSUME NEW k \in 1..n, k - 1 \in Goods PROVE k \in Goods
  <2>1. CASE k = 1
    <3>1. AllOf(k, sets) = sets[k]
      BY <2>1 DEF AllOf
    <3> QED
      BY <1>0, <1>1, <2>1, <3>1
  <2>2. CASE k # 1
    <3>1. k - 1 # 0 /\ Lists(f[k - 1], AllOf(k - 1, sets))
      BY <1>2, <2>2
    <3>2. AllOf(k, sets) = AllOf(k - 1, sets) \cup sets[k]
      <4>1. \A i \in 1..k : i \in 1..(k - 1) \/ i = k
        OBVIOUS
      <4>2. \A i \in 1..(k - 1) : i \in 1..k
        OBVIOUS
      <4> QED
        BY <4>1, <4>2 DEF AllOf
    <3>3. AllOf(k - 1, sets) \cap sets[k] = {}
      <4>1. \A i \in 1..(k - 1) : i \in 1..n /\ i # k
        OBVIOUS
      <4>2. \A i \in 1..(k - 1) : sets[i] \cap sets[k] = {}
        BY <1>0, <4>1
      <4> QED
        BY <4>2 DEF AllOf
    <3>4. f[k] = f[k - 1] \o parts[k]
      BY <1>1, <2>2
    <3>5. Lists(parts[k], sets[k])
      BY <1>0
    <3>6. Lists(f[k - 1] \o parts[k], AllOf(k - 1, sets) \cup sets[k])
      BY <3>1, <3>3, <3>5, Joined, Zenon
    <3>7. Lists(f[k], AllOf(k, sets))
      BY <3>2, <3>4, <3>6, Zenon
    <3> QED
      BY <3>7
  <2> QED
    BY <2>1, <2>2
<1>3. ASSUME NEW k \in 1..n PROVE k \in Goods
  <2>1. 0 \in Goods
    OBVIOUS
  <2>2. \A l \in 1..k : l \in 1..n
    OBVIOUS
  <2>3. \A l \in 1..k : l - 1 \in Goods => l \in Goods
    BY <1>2, <2>2
  <2> HIDE DEF Goods
  <2> QED
    BY <2>1, <2>3, Climb
<1> QED
  BY <1>3

LEMMA AllJoined ==
  ASSUME NEW n \in Nat, NEW parts, NEW sets, Apart(n, parts, sets)
  PROVE  Lists(FlattenSeq(parts), AllOf(n, sets))
<1>1. parts \in [1..n -> Seq(Thing)]
  BY DEF Apart
<1>2. CASE n = 0
  <2>1. parts = <<>> /\ FlattenSeq(parts) = parts
    BY <1>1, <1>2 DEF FlattenSeq
  <2>2. AllOf(n, sets) = {}
    BY <1>2 DEF AllOf
  <2> QED
    BY <2>1, <2>2, NothingListed
<1>3. CASE n # 0
  <2>1. PICK f : Flattening(f, n, parts) /\ FlattenSeq(parts) = f[n]
    BY <1>1, <1>3, FlattenFlattens
  <2>2. \A k \in 1..n : Lists(f[k], AllOf(k, sets))
    BY <1>3, <2>1, UpToJoined
  <2>3. n \in 1..n
    BY <1>3
  <2> QED
    BY <2>1, <2>2, <2>3
<1> QED
  BY <1>2, <1>3

LEMMA BeforeJoined ==
  ASSUME NEW p \in Seq(Thing), NEW q \in Seq(Thing)
  PROVE  /\ \A u, v : Before(p, u, v) => Before(p \o q, u, v)
         /\ \A u \in Range(p), v \in Range(q) : Before(p \o q, u, v)
<1> DEFINE r == p \o q
           m == Len(p)
<1>1. /\ m \in Nat /\ DOMAIN p = 1..m /\ DOMAIN q = 1..Len(q) /\ DOMAIN r = 1..(m + Len(q))
      /\ Len(q) \in Nat
      /\ \A i \in 1..m : r[i] = p[i]
      /\ \A i \in 1..Len(q) : r[m + i] = q[i]
  OBVIOUS
<1> HIDE DEF r, m
<1>2. \A i \in 1..m : i \in DOMAIN r
  BY <1>1
<1>3. \A i \in 1..m, j \in 1..Len(q) : m + j \in DOMAIN r /\ i < m + j
  BY <1>1
<1>4. ASSUME NEW u, NEW v, Before(p, u, v) PROVE Before(r, u, v)
  BY <1>1, <1>2, <1>4 DEF Before
<1>5. ASSUME NEW u \in Range(p), NEW v \in Range(q) PROVE Before(r, u, v)
  <2>1. PICK i \in 1..m, j \in 1..Len(q) : p[i] = u /\ q[j] = v
    BY <1>1 DEF Range
  <2> QED
    BY <1>1, <1>2, <1>3, <2>1 DEF Before
<1> QED
  BY <1>4, <1>5 DEF r

LEMMA FlattenInTurn ==
  ASSUME NEW n \in Nat, NEW parts, NEW sets, Apart(n, parts, sets),
         NEW i \in 1..n, NEW j \in 1..n, i < j, NEW u \in sets[i], NEW v \in sets[j]
  PROVE  Before(FlattenSeq(parts), u, v)
<1>1. n \in Nat \ {0} /\ parts \in [1..n -> Seq(Thing)]
  BY DEF Apart
<1>2. PICK f : Flattening(f, n, parts) /\ FlattenSeq(parts) = f[n]
  BY <1>1, FlattenFlattens
<1>3. \A k \in 1..n : Lists(f[k], AllOf(k, sets))
  BY <1>1, <1>2, UpToJoined
<1>4. \A k \in 1..n : k # 1 => f[k] = f[k - 1] \o parts[k]
  BY <1>2 DEF Flattening
<1> DEFINE S == {k \in 0..n : k >= j => Before(f[k], u, v)}
<1>5. 0 \in S
  OBVIOUS
<1>6. ASSUME NEW k \in 1..n, k - 1 \in S PROVE k \in S
  <2> SUFFICES ASSUME k >= j PROVE Before(f[k], u, v)
    OBVIOUS
  <2>1. k # 1 /\ k - 1 \in 1..n /\ i \in 1..(k - 1)
    OBVIOUS
  <2>2. f[k] = f[k - 1] \o parts[k] /\ f[k - 1] \in Seq(Thing) /\ parts[k] \in Seq(Thing)
    BY <1>1, <1>3, <1>4, <2>1 DEF Lists
  <2>3. CASE k = j
    <3>1. u \in Range(f[k - 1])
      BY <1>3, <2>1 DEF Lists, AllOf
    <3>2. v \in Range(parts[k])
      BY <2>3 DEF Apart, Lists
    <3> QED
      BY <2>2, <3>1, <3>2, BeforeJoined
  <2>4. CASE k # j
    <3>1. Before(f[k - 1], u, v)
      BY <1>6, <2>4
    <3> QED
      BY <2>2, <3>1, BeforeJoined
  <2> QED
    BY <2>3, <2>4
<1>7. n \in S
  <2>1. \A k \in 1..n : k - 1 \in S => k \in S
    BY <1>6
  <2> HIDE DEF S
  <2> QED
    BY <1>5, <2>1, Climb
<1> QED
  BY <1>2, <1>7
-----------------------------------------------------------------------------
(* The quota.                                                               *)

InSlot(videos, b) == {v \in videos : Slot[v] = b /\ ~Off(b)}

LEMMA InBucketLists ==
  ASSUME NEW q, NEW videos, Lists(q, videos), NEW b
  PROVE  Lists(InBucket(q, b), InSlot(videos, b))
<1> DEFINE n == Len(q)
           Fills(f) == f = [k \in 0..n |->
                              IF k = 0 THEN <<>>
                              ELSE IF Slot[q[k]] = b THEN Append(f[k - 1], q[k]) ELSE f[k - 1]]
           upTo == CHOOSE f : Fills(f)
<1>1. /\ q \in Seq(Thing) /\ n \in Nat /\ DOMAIN q = 1..n /\ Range(q) = videos
      /\ \A k \in 1..n : q[k] \in Thing
      /\ IsInjective(q)
  BY DEF Lists
<1>2. InBucket(q, b) = IF Off(b) THEN <<>> ELSE upTo[n]
  BY DEF InBucket
<1>3. CASE Off(b)
  <2>1. InSlot(videos, b) = {}
    BY <1>3 DEF InSlot
  <2> QED
    BY <1>2, <1>3, <2>1, NothingListed
<1>4. CASE ~Off(b)
  <2>1. Fills(upTo)
    <3> DEFINE step == [k \in 1..n |-> [s \in Seq(Thing) |->
                           IF Slot[q[k]] = b THEN Append(s, q[k]) ELSE s]]
    <3>1. <<>> \in Seq(Thing) /\ step \in [1..n -> [Seq(Thing) -> Seq(Thing)]]
      BY <1>1
    <3>2. \A k \in 1..n, s \in Seq(Thing) : step[k][s] = IF Slot[q[k]] = b THEN Append(s, q[k]) ELSE s
      OBVIOUS
    <3> HIDE DEF step
    <3>3. PICK f : Built(f, n, Seq(Thing), <<>>, step)
      BY <1>1, <3>1, StepsExist, Zenon
    <3>4. f \in [0..n -> Seq(Thing)] /\ f[0] = <<>> /\ \A k \in 1..n : f[k] = step[k][f[k - 1]]
      BY <3>3 DEF Built
    <3>5. ASSUME NEW k \in 0..n
          PROVE  f[k] = IF k = 0 THEN <<>>
                        ELSE IF Slot[q[k]] = b THEN Append(f[k - 1], q[k]) ELSE f[k - 1]
      <4>1. CASE k = 0
        BY <3>4, <4>1
      <4>2. CASE k # 0
        <5>1. k \in 1..n /\ f[k - 1] \in Seq(Thing)
          BY <3>4, <4>2
        <5> QED
          BY <3>2, <3>4, <4>2, <5>1
      <4> QED
        BY <4>1, <4>2
    <3>6. Fills(f)
      BY <3>4, <3>5
    <3> HIDE DEF Fills
    <3> QED
      BY <3>6
  <2> HIDE DEF upTo
  <2>2. \A k \in 0..n : upTo[k] = IF k = 0 THEN <<>>
                          ELSE IF Slot[q[k]] = b THEN Append(upTo[k - 1], q[k]) ELSE upTo[k - 1]
    BY <2>1
  <2> DEFINE Met(k) == {v \in {q[i] : i \in 1..k} : Slot[v] = b}
             Goods == {k \in 0..n : Lists(upTo[k], Met(k))}
  <2>3. 0 \in Goods
    <3>1. Met(0) = {} /\ upTo[0] = <<>> /\ 0 \in 0..n
      BY <1>1, <2>2
    <3> HIDE DEF Met
    <3> QED
      BY <3>1, NothingListed
  <2>4. ASSUME NEW k \in 1..n, k - 1 \in Goods PROVE k \in Goods
    <3> HIDE DEF Met
    <3>0. k \in 0..n /\ k # 0
      BY <1>1
    <3>1. Lists(upTo[k - 1], Met(k - 1)) /\ q[k] \in Thing
      BY <1>1, <2>4
    <3>2. \A i \in 1..k : i \in 1..(k - 1) \/ i = k
      OBVIOUS
    <3>3. \A i \in 1..(k - 1) : i \in 1..k /\ i \in DOMAIN q /\ i # k
      BY <1>1
    <3>4. CASE Slot[q[k]] = b
      <4>1. Met(k) = Met(k - 1) \cup {q[k]}
        BY <3>2, <3>3, <3>4 DEF Met
      <4>2. q[k] \notin Met(k - 1)
        BY <1>1, <3>3 DEF Met, IsInjective
      <4>3. upTo[k] = Append(upTo[k - 1], q[k])
        BY <2>2, <3>0, <3>4, Zenon
      <4>4. Lists(Append(upTo[k - 1], q[k]), Met(k - 1) \cup {q[k]})
        BY <3>1, <4>2, OneMore, Zenon
      <4> QED
        BY <3>0, <4>1, <4>3, <4>4, Zenon
    <3>5. CASE Slot[q[k]] # b
      <4>1. Met(k) = Met(k - 1)
        BY <3>2, <3>3, <3>5 DEF Met
      <4>2. upTo[k] = upTo[k - 1]
        BY <2>2, <3>0, <3>5, Zenon
      <4> QED
        BY <3>0, <3>1, <4>1, <4>2, Zenon
    <3> QED
      BY <3>4, <3>5
  <2>5. n \in Goods
    <3>1. \A k \in 1..n : k - 1 \in Goods => k \in Goods
      BY <2>4
    <3> HIDE DEF Goods, n
    <3> QED
      BY <1>1, <2>3, <3>1, Climb
  <2>6. Met(n) = InSlot(videos, b)
    BY <1>1, <1>4 DEF InSlot, Range
  <2> QED
    BY <1>2, <1>4, <2>5, <2>6
<1> QED
  BY <1>3, <1>4

LEMMA ExtremesOfTwo ==
  ASSUME NEW m \in Nat, NEW n \in Nat
  PROVE  /\ Min({m, n}) = IF m <= n THEN m ELSE n
         /\ Max({m, n}) = IF m <= n THEN n ELSE m
<1>1. \A k : k \in {m, n} /\ (\A y \in {m, n} : k <= y) => \A x \in {m, n} : (\A y \in {m, n} : x <= y) => x = k
  OBVIOUS
<1>2. \A k : k \in {m, n} /\ (\A y \in {m, n} : k >= y) => \A x \in {m, n} : (\A y \in {m, n} : x >= y) => x = k
  OBVIOUS
<1> DEFINE low  == IF m <= n THEN m ELSE n
           high == IF m <= n THEN n ELSE m
<1>3. low \in {m, n} /\ \A y \in {m, n} : low <= y
  OBVIOUS
<1>4. high \in {m, n} /\ \A y \in {m, n} : high >= y
  OBVIOUS
<1> HIDE DEF low, high
<1>5. Min({m, n}) = low
  BY <1>1, <1>3 DEF Min
<1>6. Max({m, n}) = high
  BY <1>2, <1>4 DEF Max
<1> QED
  BY <1>5, <1>6 DEF low, high

LEMMA BucketsAre ==
  /\ DOMAIN Buckets = 1..6
  /\ \A i, j \in 1..6 : i # j => Buckets[i] # Buckets[j]
  /\ "other" \notin Range(Buckets)
  /\ Range(Buckets) = Adjustable \cup {"fresh", "continue", "rewatch"}
BY DEF Buckets, Range, Adjustable

LEMMA PlacesAreNat ==
  ASSUME NEW b \in Range(Buckets) PROVE Places(b) \in Nat
<1>1. FreshShare \in 0..40 /\ Window \in Nat \ {0} /\ Mix \in [Adjustable -> Nat]
  BY FeedMixAssumption
<1>2. \A m \in Nat : \A n \in Nat \ {0} : m \div n \in Nat
  OBVIOUS
<1>3. \A m \in Nat : Max({1, m}) \in Nat
  BY ExtremesOfTwo
<1>4. CASE b \in Adjustable
  <2>1. Wanted[b] \in Nat /\ Total(Wanted) \in Nat \ {0}
    <3>1. CASE Total(Mix) = 0
      BY <1>4, <3>1 DEF Wanted, Total, DefaultMix, Adjustable
    <3>2. CASE Total(Mix) # 0
      BY <1>1, <1>4, <3>2 DEF Wanted, Total, Adjustable
    <3> QED
      BY <3>1, <3>2
  <2> DEFINE m == Wanted[b] * (82 - FreshShare) * Window
             n == 100 * Total(Wanted)
  <2>2. m \in Nat
    <3>1. 82 - FreshShare \in Nat
      BY <1>1
    <3>2. Wanted[b] * (82 - FreshShare) \in Nat
      BY <2>1, <3>1
    <3> QED
      BY <1>1, <3>2
  <2>3. n \in Nat \ {0}
    BY <2>1
  <2>4. Places(b) = m \div n
    <3>1. b \notin {"fresh", "continue", "rewatch"}
      BY <1>4 DEF Adjustable
    <3> QED
      BY <1>4, <3>1, Zenon DEF Places
  <2> HIDE DEF m, n
  <2> QED
    BY <1>2, <2>2, <2>3, <2>4
<1>5. CASE b \notin Adjustable
  <2>1. b \in {"fresh", "continue", "rewatch"}
    BY <1>5, BucketsAre
  <2>2. (FreshShare * Window) \div 100 \in Nat
    <3>1. FreshShare * Window \in Nat
      BY <1>1
    <3> QED
      BY <1>2, <3>1
  <2>3. (10 * Window) \div 100 \in Nat /\ (8 * Window) \div 100 \in Nat
    BY <1>1
  <2> QED
    BY <1>3, <1>5, <2>1, <2>2, <2>3 DEF Places
<1> QED
  BY <1>4, <1>5

\* The round that comes to the k-th of a bucket, of p places each.
InRound(k, n, p) == (n - 1) * p < k /\ k <= n * p

LEMMA OneRound ==
  ASSUME NEW k \in Nat, NEW m \in Nat \ {0}, NEW n \in Nat \ {0}, NEW p \in Nat,
         InRound(k, m, p), InRound(k, n, p)
  PROVE  m = n
<1>1. ASSUME NEW i \in Nat \ {0}, NEW j \in Nat \ {0}, i < j PROVE ~(InRound(k, i, p) /\ InRound(k, j, p))
  <2>1. PICK d \in Nat : j - 1 = i + d
    <3>1. (j - 1) - i \in Nat /\ j - 1 = i + ((j - 1) - i)
      BY <1>1
    <3> QED
      BY <3>1
  <2>2. (i + d) * p = i * p + d * p /\ d * p >= 0 /\ i * p \in Nat /\ d * p \in Nat
    OBVIOUS
  <2> DEFINE ip == i * p
             dp == d * p
  <2>3. InRound(k, i, p) => k <= ip
    BY DEF InRound
  <2>4. InRound(k, j, p) => ip + dp < k
    BY <2>1, <2>2 DEF InRound
  <2>5. ip \in Nat /\ dp \in Nat
    BY <2>2
  <2> HIDE DEF ip, dp
  <2> QED
    BY <2>3, <2>4, <2>5
<1> QED
  BY <1>1

LEMMA ARoundComes ==
  ASSUME NEW k \in Nat \ {0}, NEW p \in Nat \ {0}
  PROVE  \E n \in 1..k : InRound(k, n, p)
<1> DEFINE Comes(j) == j = 0 \/ \E n \in 1..j : InRound(j, n, p)
           S == {j \in 0..k : Comes(j)}
<1>1. 0 \in S
  OBVIOUS
<1>2. ASSUME NEW j \in 1..k, j - 1 \in S PROVE j \in S
  <2>1. CASE j = 1
    <3>1. InRound(1, 1, p)
      BY DEF InRound
    <3> QED
      BY <2>1, <3>1
  <2>2. CASE j # 1
    <3>1. PICK n \in 1..(j - 1) : InRound(j - 1, n, p)
      BY <1>2, <2>2
    <3> DEFINE before == (n - 1) * p
               np == n * p
    <3>2. np \in Nat /\ before \in Nat /\ before < j - 1 /\ j - 1 <= np
      BY <3>1 DEF InRound
    <3>3. (n + 1) * p = np + p /\ (n + 1) - 1 = n
      OBVIOUS
    <3>4. CASE j - 1 < np
      <4>1. before < j /\ j <= np
        <5> HIDE DEF before, np
        <5> QED
          BY <3>2, <3>4
      <4>2. InRound(j, n, p) /\ n \in 1..j
        BY <4>1 DEF InRound
      <4> QED
        BY <4>2
    <3>5. CASE ~(j - 1 < np)
      <4>1. np < j /\ j <= np + p
        <5> HIDE DEF before, np
        <5> QED
          BY <3>2, <3>5
      <4>2. InRound(j, n + 1, p) /\ n + 1 \in 1..j
        BY <3>3, <4>1 DEF InRound
      <4> QED
        BY <4>2
    <3> QED
      BY <3>4, <3>5
  <2> QED
    BY <2>1, <2>2
<1>3. k \in S
  <2>1. \A j \in 1..k : j - 1 \in S => j \in S
    BY <1>2
  <2> HIDE DEF S
  <2> QED
    BY <1>1, <2>1, Climb
<1> QED
  BY <1>3

LEMMA Stretch ==
  ASSUME NEW q, NEW videos, Lists(q, videos), NEW a \in Nat, NEW e \in 0..Len(q)
  PROVE  Lists(SubSeq(q, a + 1, e), {q[k] : k \in (a + 1)..e})
<1> DEFINE n == Len(q)
           r == SubSeq(q, a + 1, e)
           m == IF a < e THEN e - a ELSE 0
<1>1. /\ q \in Seq(Thing) /\ IsInjective(q) /\ n \in Nat /\ DOMAIN q = 1..n
      /\ e \in Nat /\ e <= n /\ m \in Nat
      /\ \A k \in 1..n : q[k] \in Thing
  BY DEF Lists
<1>2. r \in Seq(Thing) /\ DOMAIN r = 1..m /\ \A i \in 1..m : r[i] = q[a + i]
  <2>1. CASE a < e
    BY <1>1, <2>1, SubSeqProperties
  <2>2. CASE ~(a < e)
    <3>1. r = <<>> /\ m = 0
      BY <1>1, <2>2, SubSeqEmpty
    <3> QED
      BY <3>1
  <2> QED
    BY <2>1, <2>2
<1>3. \A i \in 1..m : a + i \in (a + 1)..e /\ a + i \in DOMAIN q
  BY <1>1
<1>4. \A k \in (a + 1)..e : k - a \in 1..m /\ a + (k - a) = k
  BY <1>1
<1> HIDE DEF r, m
<1>5. IsInjective(r)
  <2> SUFFICES ASSUME NEW i \in 1..m, NEW j \in 1..m, r[i] = r[j] PROVE i = j
    BY <1>2 DEF IsInjective
  <2>1. a + i = a + j
    BY <1>1, <1>2, <1>3 DEF IsInjective
  <2> QED
    BY <1>1, <2>1
<1>6. Range(r) = {q[k] : k \in (a + 1)..e}
  <2>1. \A i \in 1..m : r[i] \in {q[k] : k \in (a + 1)..e}
    BY <1>2, <1>3
  <2>2. \A k \in (a + 1)..e : q[k] \in Range(r)
    BY <1>2, <1>4 DEF Range
  <2> QED
    BY <1>2, <2>1, <2>2 DEF Range
<1> QED
  BY <1>2, <1>5, <1>6 DEF Lists, r

LEMMA Listed ==
  ASSUME NEW r, NEW rs, Lists(r, rs)
  PROVE  IsFiniteSet(rs) /\ Cardinality(rs) = Len(r) /\ Len(r) \in Nat
<1>1. r \in Seq(Thing) /\ IsInjective(r) /\ Range(r) = rs /\ Len(r) \in Nat /\ DOMAIN r = 1..Len(r)
  BY DEF Lists
<1>2. r \in [1..Len(r) -> rs]
  BY <1>1 DEF Range
<1>3. r \in Bijection(1..Len(r), rs)
  BY <1>1, <1>2 DEF IsInjective, Range, Bijection, Injection, Surjection
<1>4. ExistsBijection(1..Len(r), rs)
  BY <1>3 DEF ExistsBijection
<1> QED
  BY <1>1, <1>4, FS_CountingElements, FS_NatBijection

LEMMA FewerAreListed ==
  ASSUME NEW p, NEW ps, Lists(p, ps), NEW q, NEW qs, Lists(q, qs), ps \subseteq qs
  PROVE  Len(p) <= Len(q)
BY Listed, FS_Subset

\* What the n-th round takes of a bucket.
CutOf(q, b, n) ==
  {InBucket(q, b)[k] : k \in {k \in DOMAIN InBucket(q, b) : InRound(k, n, Places(b))}}

LEMMA CutLists ==
  ASSUME NEW q, NEW videos, Lists(q, videos), NEW b \in Range(Buckets), NEW n \in Nat \ {0}
  PROVE  Lists(Cut(q, b, n), CutOf(q, b, n))
<1> DEFINE s == InBucket(q, b)
           p == Places(b)
           a == (n - 1) * p
           np == n * p
           l == Len(s)
           e == Min({np, l})
<1>1. Lists(s, InSlot(videos, b))
  BY InBucketLists
<1>2. l \in Nat /\ DOMAIN s = 1..l
  BY <1>1 DEF Lists
<1>3. a \in Nat /\ np \in Nat
  <2>1. p \in Nat
    BY PlacesAreNat
  <2> HIDE DEF p
  <2> QED
    BY <2>1
<1>4. e = IF np <= l THEN np ELSE l
  BY <1>2, <1>3, ExtremesOfTwo
<1>5. Cut(q, b, n) = SubSeq(s, a + 1, e)
  BY DEF Cut
<1>6. \A k \in DOMAIN s : InRound(k, n, p) <=> k \in (a + 1)..e
  <2> SUFFICES ASSUME NEW k \in DOMAIN s PROVE (a < k /\ k <= np) <=> k \in (a + 1)..e
    BY DEF InRound
  <2>1. k \in Nat /\ k <= l
    BY <1>2
  <2> HIDE DEF a, np, e, s, l
  <2> QED
    BY <1>2, <1>3, <1>4, <2>1
<1>7. (a + 1)..e \subseteq DOMAIN s /\ e \in 0..Len(s)
  <2>1. (a + 1)..e \subseteq 1..l /\ e \in 0..l
    <3> HIDE DEF a, np, e, s, l
    <3> QED
      BY <1>2, <1>3, <1>4
  <2> QED
    BY <1>2, <2>1
<1>8. CutOf(q, b, n) = {s[k] : k \in (a + 1)..e}
  <2> HIDE DEF a, np, e
  <2> QED
    BY <1>6, <1>7 DEF CutOf
<1> HIDE DEF a, np, e, s
<1> QED
  BY <1>1, <1>3, <1>5, <1>7, <1>8, Stretch

LEMMA CutsAreApart ==
  ASSUME NEW q, NEW videos, Lists(q, videos),
         NEW b \in Range(Buckets), NEW c \in Range(Buckets), NEW m \in Nat \ {0}, NEW n \in Nat \ {0},
         b # c \/ m # n
  PROVE  CutOf(q, b, m) \cap CutOf(q, c, n) = {}
<1>1. \A d \in Range(Buckets), l \in Nat : CutOf(q, d, l) \subseteq InSlot(videos, d)
  <2> SUFFICES ASSUME NEW d \in Range(Buckets), NEW l \in Nat
               PROVE  CutOf(q, d, l) \subseteq InSlot(videos, d)
    OBVIOUS
  <2>1. Lists(InBucket(q, d), InSlot(videos, d))
    BY InBucketLists
  <2> QED
    BY <2>1 DEF Lists, Range, CutOf
<1>2. CASE b # c
  BY <1>1, <1>2 DEF InSlot
<1>3. CASE b = c /\ m # n
  <2>1. Lists(InBucket(q, b), InSlot(videos, b)) /\ Places(b) \in Nat
    BY InBucketLists, PlacesAreNat
  <2>2. IsInjective(InBucket(q, b)) /\ DOMAIN InBucket(q, b) \subseteq Nat
    BY <2>1 DEF Lists
  <2>3. \A k \in DOMAIN InBucket(q, b) : ~(InRound(k, m, Places(b)) /\ InRound(k, n, Places(b)))
    BY <1>3, <2>1, <2>2, OneRound
  <2> QED
    BY <1>3, <2>2, <2>3 DEF CutOf, IsInjective
<1> QED
  BY <1>2, <1>3

RoundOf(q, n) == UNION {CutOf(q, Buckets[i], n) : i \in 1..6}

LEMMA RoundLists ==
  ASSUME NEW q, NEW videos, Lists(q, videos), NEW n \in Nat \ {0}
  PROVE  Lists(Round(q, n), RoundOf(q, n))
<1> DEFINE parts == [i \in 1..6 |-> Cut(q, Buckets[i], n)]
           sets  == [i \in 1..6 |-> CutOf(q, Buckets[i], n)]
<1>1. \A i \in 1..6 : Buckets[i] \in Range(Buckets)
  BY BucketsAre DEF Range
<1>2. \A i \in 1..6 : parts[i] = Cut(q, Buckets[i], n) /\ sets[i] = CutOf(q, Buckets[i], n)
  OBVIOUS
<1>3. \A i \in 1..6 : Lists(parts[i], sets[i])
  BY <1>1, <1>2, CutLists
<1>4. \A i, j \in 1..6 : i # j => sets[i] \cap sets[j] = {}
  BY <1>1, <1>2, BucketsAre, CutsAreApart
<1>5. parts \in [1..6 -> Seq(Thing)]
  BY <1>3 DEF Lists
<1>6. Round(q, n) = FlattenSeq(parts)
  BY BucketsAre, Zenon DEF Round
<1>7. AllOf(6, sets) = RoundOf(q, n)
  BY <1>2 DEF RoundOf, AllOf
<1> HIDE DEF parts, sets
<1>8. Lists(FlattenSeq(parts), AllOf(6, sets))
  <2>1. 6 \in Nat /\ Apart(6, parts, sets)
    BY <1>3, <1>4, <1>5 DEF Apart
  <2> QED
    BY <2>1, AllJoined, Zenon
<1> QED
  BY <1>6, <1>7, <1>8

PlacelessOf(videos) ==
  UNION {InSlot(videos, Buckets[i]) : i \in {i \in 1..6 : Places(Buckets[i]) = 0}}

LEMMA PlacelessLists ==
  ASSUME NEW q, NEW videos, Lists(q, videos)
  PROVE  Lists(Placeless(q), PlacelessOf(videos))
<1> DEFINE parts == [i \in 1..6 |-> IF Places(Buckets[i]) = 0 THEN InBucket(q, Buckets[i]) ELSE <<>>]
           sets  == [i \in 1..6 |-> IF Places(Buckets[i]) = 0 THEN InSlot(videos, Buckets[i]) ELSE {}]
<1>2. \A i \in 1..6 :
        /\ parts[i] = IF Places(Buckets[i]) = 0 THEN InBucket(q, Buckets[i]) ELSE <<>>
        /\ sets[i] = IF Places(Buckets[i]) = 0 THEN InSlot(videos, Buckets[i]) ELSE {}
  OBVIOUS
<1>3. \A i \in 1..6 : Lists(parts[i], sets[i])
  BY <1>2, InBucketLists, NothingListed
<1>4. \A i, j \in 1..6 : i # j => sets[i] \cap sets[j] = {}
  BY <1>2, BucketsAre DEF InSlot
<1>5. parts \in [1..6 -> Seq(Thing)]
  BY <1>3 DEF Lists
<1>6. Placeless(q) = FlattenSeq(parts)
  BY BucketsAre, Zenon DEF Placeless
<1>7. AllOf(6, sets) = PlacelessOf(videos)
  BY <1>2 DEF PlacelessOf, AllOf
<1> HIDE DEF parts, sets
<1>8. Lists(FlattenSeq(parts), AllOf(6, sets))
  <2>1. 6 \in Nat /\ Apart(6, parts, sets)
    BY <1>3, <1>4, <1>5 DEF Apart
  <2> QED
    BY <2>1, AllJoined, Zenon
<1> QED
  BY <1>6, <1>7, <1>8

\* The rounds give a place to all of the buckets that have places at all.
RoundsOf(videos) ==
  UNION {InSlot(videos, Buckets[i]) : i \in {i \in 1..6 : Places(Buckets[i]) # 0}}

LEMMA RoundsAreApart ==
  ASSUME NEW q, NEW videos, Lists(q, videos)
  PROVE  Apart(Len(q), [n \in 1..Len(q) |-> Round(q, n)], [n \in 1..Len(q) |-> RoundOf(q, n)])
<1> DEFINE m == Len(q)
           parts == [n \in 1..m |-> Round(q, n)]
           sets  == [n \in 1..m |-> RoundOf(q, n)]
<1>1. m \in Nat /\ 1..m \subseteq Nat \ {0}
  BY DEF Lists
<1>2. \A n \in 1..m : parts[n] = Round(q, n) /\ sets[n] = RoundOf(q, n)
  OBVIOUS
<1>3. \A n \in 1..m : Lists(parts[n], sets[n])
  BY <1>1, <1>2, RoundLists
<1>4. \A i \in 1..6 : Buckets[i] \in Range(Buckets)
  BY BucketsAre DEF Range
<1>5. \A i, j \in 1..m : i # j => sets[i] \cap sets[j] = {}
  <2>1. ASSUME NEW i \in 1..m, NEW j \in 1..m, i # j PROVE RoundOf(q, i) \cap RoundOf(q, j) = {}
    <3>1. i \in Nat \ {0} /\ j \in Nat \ {0}
      BY <1>1
    <3>2. ASSUME NEW k \in 1..6, NEW l \in 1..6
          PROVE  CutOf(q, Buckets[k], i) \cap CutOf(q, Buckets[l], j) = {}
      BY <1>4, <2>1, <3>1, CutsAreApart
    <3> QED
      BY <3>2 DEF RoundOf
  <2> QED
    BY <1>2, <2>1
<1>6. parts \in [1..m -> Seq(Thing)]
  BY <1>3 DEF Lists
<1> HIDE DEF parts, sets
<1>7. Apart(m, parts, sets)
  BY <1>3, <1>5, <1>6 DEF Apart
<1> QED
  BY <1>7 DEF parts, sets

\* Each video of a bucket that has places is taken in some round.
LEMMA ARoundTakesIt ==
  ASSUME NEW q, NEW videos, Lists(q, videos), NEW b \in Range(Buckets), Places(b) # 0,
         NEW v \in InSlot(videos, b)
  PROVE  \E n \in 1..Len(q) : v \in CutOf(q, b, n)
<1> DEFINE s == InBucket(q, b)
<1>1. Lists(s, InSlot(videos, b)) /\ Len(q) \in Nat
  BY InBucketLists, Listed
<1>2. InSlot(videos, b) \subseteq videos
  BY DEF InSlot
<1>3. Len(s) <= Len(q)
  BY <1>1, <1>2, FewerAreListed
<1>4. PICK k \in DOMAIN s : s[k] = v
  BY <1>1 DEF Lists, Range
<1>5. k \in Nat \ {0} /\ k <= Len(s) /\ Len(s) \in Nat
  BY <1>1 DEF Lists
<1>6. PICK n \in 1..k : InRound(k, n, Places(b))
  BY <1>5, PlacesAreNat, ARoundComes
<1>7. n \in 1..Len(q)
  BY <1>1, <1>3, <1>5
<1> QED
  BY <1>4, <1>6, <1>7 DEF CutOf

LEMMA CutsAreInSlot ==
  ASSUME NEW q, NEW videos, Lists(q, videos), NEW b, NEW n, NEW v \in CutOf(q, b, n)
  PROVE  v \in InSlot(videos, b)
<1>1. Lists(InBucket(q, b), InSlot(videos, b))
  BY InBucketLists
<1> QED
  BY <1>1 DEF Lists, Range, CutOf

LEMMA RoundsList ==
  ASSUME NEW q, NEW videos, Lists(q, videos)
  PROVE  Lists(FlattenSeq([n \in DOMAIN q |-> Round(q, n)]), RoundsOf(videos))
<1> DEFINE m == Len(q)
           parts == [n \in 1..m |-> Round(q, n)]
           sets  == [n \in 1..m |-> RoundOf(q, n)]
<1>1. m \in Nat /\ DOMAIN q = 1..m /\ 1..m \subseteq Nat
  BY DEF Lists
<1>2. \A i \in 1..6 : Buckets[i] \in Range(Buckets)
  BY BucketsAre DEF Range
<1>3. AllOf(m, sets) = RoundsOf(videos)
  <2> HIDE DEF m
  <2>1. ASSUME NEW i \in 1..6, Places(Buckets[i]) # 0, NEW v \in InSlot(videos, Buckets[i])
        PROVE  \E n \in 1..m : v \in CutOf(q, Buckets[i], n)
    BY <1>2, <2>1, ARoundTakesIt DEF m
  <2>2. ASSUME NEW n \in 1..m, NEW i \in 1..6, NEW v \in CutOf(q, Buckets[i], n)
        PROVE  v \in InSlot(videos, Buckets[i]) /\ Places(Buckets[i]) # 0
    <3>1. PICK k \in DOMAIN InBucket(q, Buckets[i]) : InRound(k, n, Places(Buckets[i]))
      BY DEF CutOf
    <3>2. k \in Nat \ {0} /\ n \in Nat
      BY <1>1, InBucketLists DEF Lists
    <3>3. ~InRound(k, n, 0)
      BY <3>2 DEF InRound
    <3> QED
      BY <3>1, <3>3, CutsAreInSlot
  <2> QED
    BY <2>1, <2>2 DEF RoundOf, RoundsOf, AllOf
<1>4. [n \in DOMAIN q |-> Round(q, n)] = parts
  BY <1>1
<1>5. Apart(m, parts, sets)
  BY RoundsAreApart
<1> HIDE DEF parts, sets, m
<1>6. Lists(FlattenSeq(parts), AllOf(m, sets))
  BY <1>1, <1>5, AllJoined, Zenon
<1> QED
  BY <1>3, <1>4, <1>6

\* What is not switched off.
Offered(videos) == {v \in videos : ~Off(Slot[v])}

LEMMA QuotaLists ==
  ASSUME NEW q, NEW videos, Lists(q, videos)
  PROVE  Lists(Quota(q), Offered(videos))
<1> DEFINE rounds == FlattenSeq([n \in DOMAIN q |-> Round(q, n)])
           rest   == InSlot(videos, "other")
<1>1. Quota(q) = rounds \o Placeless(q) \o InBucket(q, "other")
  BY DEF Quota
<1>2. /\ Lists(rounds, RoundsOf(videos)) /\ Lists(Placeless(q), PlacelessOf(videos))
      /\ Lists(InBucket(q, "other"), rest)
  BY RoundsList, PlacelessLists, InBucketLists
<1>3. RoundsOf(videos) \cap PlacelessOf(videos) = {}
  BY BucketsAre DEF RoundsOf, PlacelessOf, InSlot
<1>4. (RoundsOf(videos) \cup PlacelessOf(videos)) \cap rest = {}
  BY BucketsAre DEF RoundsOf, PlacelessOf, InSlot, Range
<1>5. RoundsOf(videos) \cup PlacelessOf(videos) \cup rest = Offered(videos)
  <2>1. \A v \in videos : Slot[v] = "other" \/ \E i \in 1..6 : Slot[v] = Buckets[i]
    <3>1. videos \subseteq DOMAIN Slot
      BY DEF Lists, Range, Thing
    <3> QED
      BY <3>1, FeedMixAssumption, BucketsAre DEF Range
  <2>2. ~Off("other")
    BY DEF Off, Adjustable
  <2>3. \A i \in 1..6 : Buckets[i] # "other"
    BY BucketsAre DEF Range
  <2> QED
    BY <2>1, <2>2, <2>3 DEF RoundsOf, PlacelessOf, InSlot, Offered
<1> HIDE DEF rounds, rest
<1>6. Lists(rounds \o Placeless(q), RoundsOf(videos) \cup PlacelessOf(videos))
  BY <1>2, <1>3, Joined, Zenon
<1>7. Lists(rounds \o Placeless(q) \o InBucket(q, "other"),
            RoundsOf(videos) \cup PlacelessOf(videos) \cup rest)
  BY <1>2, <1>4, <1>6, Joined, Zenon
<1> QED
  BY <1>1, <1>5, <1>7
-----------------------------------------------------------------------------
(* The diversity of channels.                                               *)

Page == [placed : Seq(Thing), held : Seq(Thing), start : Nat]

\* Every one of the videos is placed or held back, once.
Sorted(s, videos) ==
  /\ s \in Page
  /\ Lists(s.placed, Range(s.placed)) /\ Lists(s.held, Range(s.held))
  /\ Range(s.placed) \cap Range(s.held) = {}
  /\ Range(s.placed) \cup Range(s.held) = videos

\* No two of a channel are placed too close.
Spaced(s) ==
  \A i, j \in DOMAIN s.placed :
    i < j /\ Channel[s.placed[i]] = Channel[s.placed[j]] /\ Channel[s.placed[j]] # NoChannel
      => j - i >= Gap(s.placed[j])

\* What is held back is in the order of q.
InOrder(h, q) == \A i, j \in DOMAIN h : i < j => Before(q, h[i], h[j])

LEMMA Longer ==
  ASSUME NEW r \in Seq(Thing), NEW v \in Thing
  PROVE  /\ Append(r, v) \in Seq(Thing) /\ Len(r) \in Nat
         /\ DOMAIN r = 1..Len(r) /\ DOMAIN Append(r, v) = 1..(Len(r) + 1)
         /\ \A i \in 1..Len(r) : Append(r, v)[i] = r[i]
         /\ Append(r, v)[Len(r) + 1] = v
         /\ Range(Append(r, v)) = Range(r) \cup {v}
<1> DEFINE t == Append(r, v)
           n == Len(r)
<1>1. /\ t \in Seq(Thing) /\ n \in Nat /\ DOMAIN r = 1..n /\ DOMAIN t = 1..(n + 1)
      /\ \A i \in 1..n : t[i] = r[i]
      /\ t[n + 1] = v
  OBVIOUS
<1> HIDE DEF t, n
<1>2. /\ \A i \in 1..(n + 1) : i \in 1..n \/ i = n + 1
      /\ \A i \in 1..n : i \in 1..(n + 1)
      /\ n + 1 \in 1..(n + 1)
  BY <1>1
<1>3. Range(t) = Range(r) \cup {v}
  BY <1>1, <1>2, Zenon DEF Range
<1> QED
  BY <1>1, <1>3 DEF t, n

LEMMA PutSorts ==
  ASSUME NEW s, NEW videos, Sorted(s, videos), NEW v \in Thing \ videos
  PROVE  /\ Sorted(Put(v, s), videos \cup {v})
         /\ Put(v, s).held = s.held
         /\ Spaced(s) /\ Fits(v, s) => Spaced(Put(v, s))
<1> DEFINE p == s.placed
           t == Put(v, s)
<1>1. s \in Page /\ p \in Seq(Thing) /\ s.held \in Seq(Thing)
  BY DEF Sorted, Page
<1>2. t \in Page /\ t.placed = Append(p, v) /\ t.held = s.held
  <2>1. Append(p, v) \in Seq(Thing)
    BY <1>1
  <2> QED
    BY <1>1, <2>1, Zenon DEF Put, Page
<1>3. Range(t.placed) = Range(p) \cup {v}
  BY <1>1, <1>2, Longer
<1>4. Lists(t.placed, Range(t.placed))
  <2>1. Lists(p, Range(p)) /\ v \in Thing \ Range(p)
    BY DEF Sorted
  <2> QED
    BY <1>2, <1>3, <2>1, OneMore
<1>5. Sorted(t, videos \cup {v})
  <2> HIDE DEF t, p
  <2>1. /\ Lists(s.held, Range(s.held)) /\ p = s.placed /\ Range(p) \cap Range(s.held) = {}
        /\ Range(p) \cup Range(s.held) = videos
    BY DEF Sorted, p
  <2> QED
    BY <1>2, <1>3, <1>4, <2>1 DEF Sorted
<1>6. ASSUME Spaced(s), Fits(v, s) PROVE Spaced(t)
  <2> DEFINE n == Len(p)
  <2>1. /\ n \in Nat /\ DOMAIN p = 1..n /\ DOMAIN t.placed = 1..(n + 1)
        /\ \A i \in 1..n : t.placed[i] = p[i]
        /\ t.placed[n + 1] = v
    BY <1>1, <1>2, Longer
  <2>2. Channel[v] # NoChannel => \A i \in 1..n : Channel[p[i]] = Channel[v] => n + 1 - i >= Gap(v)
    BY <1>6, <2>1 DEF Fits, Kin
  <2> HIDE DEF t, p, n
  <2> SUFFICES ASSUME NEW i \in 1..(n + 1), NEW j \in 1..(n + 1), i < j,
                      Channel[t.placed[i]] = Channel[t.placed[j]], Channel[t.placed[j]] # NoChannel
               PROVE  j - i >= Gap(t.placed[j])
    BY <2>1 DEF Spaced
  <2>3. i \in 1..n
    BY <2>1
  <2>4. CASE j = n + 1
    BY <2>1, <2>2, <2>3, <2>4
  <2>5. CASE j # n + 1
    <3>1. j \in 1..n
      BY <2>1, <2>5
    <3>2. p = s.placed
      BY DEF p
    <3> QED
      BY <1>6, <2>1, <2>3, <3>1, <3>2 DEF Spaced
  <2> QED
    BY <2>4, <2>5
<1> QED
  BY <1>2, <1>5, <1>6

LEMMA HoldBackSorts ==
  ASSUME NEW s, NEW videos, Sorted(s, videos), NEW v \in Thing \ videos
  PROVE  /\ Sorted(HoldBack(v, s), videos \cup {v})
         /\ Spaced(s) => Spaced(HoldBack(v, s))
         /\ \A q : InOrder(s.held, q) /\ (\A u \in Range(s.held) : Before(q, u, v))
                     => InOrder(HoldBack(v, s).held, q)
<1> DEFINE h == s.held
           t == HoldBack(v, s)
<1>1. s \in Page /\ h \in Seq(Thing) /\ s.placed \in Seq(Thing)
  BY DEF Sorted, Page
<1>2. t \in Page /\ t.held = Append(h, v) /\ t.placed = s.placed
  <2>1. Append(h, v) \in Seq(Thing)
    BY <1>1
  <2> QED
    BY <1>1, <2>1, Zenon DEF HoldBack, Page
<1>3. Range(t.held) = Range(h) \cup {v}
  BY <1>1, <1>2, Longer
<1>4. Lists(t.held, Range(t.held))
  <2>1. Lists(h, Range(h)) /\ v \in Thing \ Range(h)
    BY DEF Sorted
  <2> QED
    BY <1>2, <1>3, <2>1, OneMore
<1>5. Sorted(t, videos \cup {v})
  <2> HIDE DEF t, h
  <2>1. /\ Lists(s.placed, Range(s.placed)) /\ h = s.held /\ Range(s.placed) \cap Range(h) = {}
        /\ Range(s.placed) \cup Range(h) = videos
        /\ v \notin Range(s.placed)
    BY DEF Sorted, h
  <2> QED
    BY <1>2, <1>3, <1>4, <2>1 DEF Sorted
<1>6. Spaced(s) => Spaced(t)
  BY <1>2 DEF Spaced
<1>7. ASSUME NEW q, InOrder(h, q), \A u \in Range(h) : Before(q, u, v)
      PROVE  InOrder(t.held, q)
  <2> DEFINE n == Len(h)
  <2>1. /\ n \in Nat /\ DOMAIN h = 1..n /\ DOMAIN t.held = 1..(n + 1)
        /\ \A i \in 1..n : t.held[i] = h[i]
        /\ t.held[n + 1] = v
    BY <1>1, <1>2, Longer
  <2> HIDE DEF t, h, n
  <2> SUFFICES ASSUME NEW i \in 1..(n + 1), NEW j \in 1..(n + 1), i < j
               PROVE  Before(q, t.held[i], t.held[j])
    BY <2>1 DEF InOrder
  <2>2. i \in 1..n
    BY <2>1
  <2>3. CASE j = n + 1
    <3>1. h[i] \in Range(h)
      BY <2>1, <2>2 DEF Range
    <3> QED
      BY <1>7, <2>1, <2>2, <2>3, <3>1
  <2>4. CASE j # n + 1
    <3>1. j \in 1..n
      BY <2>1, <2>4
    <3> QED
      BY <1>7, <2>1, <2>2, <3>1 DEF InOrder
  <2> QED
    BY <2>3, <2>4
<1> QED
  BY <1>5, <1>6, <1>7

LEMMA NewWindowSorts ==
  ASSUME NEW s, NEW videos, Sorted(s, videos)
  PROVE  /\ Sorted(NewWindow(s), videos)
         /\ NewWindow(s).held = s.held /\ NewWindow(s).placed = s.placed
<1>1. s \in Page /\ Len(s.placed) \in Nat
  BY DEF Sorted, Page
<1> DEFINE t == [s EXCEPT !.start = Len(s.placed)]
<1>2. t \in Page /\ t.placed = s.placed /\ t.held = s.held
  BY <1>1 DEF Page
<1>3. Sorted(t, videos)
  <2> HIDE DEF t
  <2> QED
    BY <1>2 DEF Sorted
<1> QED
  BY <1>2, <1>3 DEF NewWindow

\* What the n-th that was held back comes to.
Tried(v, a) == IF a.held # <<>> \/ Full(a) \/ ~Fits(v, a) THEN HoldBack(v, a) ELSE Put(v, a)

\* Drain, as it goes: what it makes of what was held back up to the n-th.
Draining(upTo, s) ==
  \A n \in 0..Len(s.held) :
    upTo[n] = IF n = 0 THEN [s EXCEPT !.held = <<>>] ELSE Tried(s.held[n], upTo[n - 1])

LEMMA TriedOnPage ==
  ASSUME NEW a \in Page, NEW v \in Thing
  PROVE  Tried(v, a) \in Page
<1>1. a.held \in Seq(Thing) /\ a.placed \in Seq(Thing)
  BY DEF Page
<1>2. Append(a.held, v) \in Seq(Thing) /\ Append(a.placed, v) \in Seq(Thing)
  BY <1>1
<1>3. HoldBack(v, a) \in Page /\ Put(v, a) \in Page
  BY <1>2, Zenon DEF HoldBack, Put, Page
<1> QED
  BY <1>3 DEF Tried

LEMMA DrainDrains ==
  ASSUME NEW s \in Page
  PROVE  \E upTo : Draining(upTo, s) /\ Drain(s) = upTo[Len(s.held)]
<1> DEFINE n == Len(s.held)
           Fills(f) == f = [k \in 0..n |->
                         IF k = 0 THEN [s EXCEPT !.held = <<>>]
                         ELSE IF f[k - 1].held # <<>> \/ Full(f[k - 1]) \/ ~Fits(s.held[k], f[k - 1])
                              THEN HoldBack(s.held[k], f[k - 1]) ELSE Put(s.held[k], f[k - 1])]
           upTo == CHOOSE f : Fills(f)
<1>1. Drain(s) = upTo[n]
  BY Zenon DEF Drain
<1>2. Fills(upTo)
  <2> DEFINE base == [s EXCEPT !.held = <<>>]
             step == [k \in 1..n |-> [a \in Page |-> Tried(s.held[k], a)]]
  <2>1. n \in Nat /\ \A k \in 1..n : s.held[k] \in Thing
    BY DEF Page
  <2>2. base \in Page
    <3>1. <<>> \in Seq(Thing)
      OBVIOUS
    <3> QED
      BY <3>1, Zenon DEF Page
  <2>3. step \in [1..n -> [Page -> Page]]
    BY <2>1, TriedOnPage
  <2>4. \A k \in 1..n, a \in Page : step[k][a] = Tried(s.held[k], a)
    OBVIOUS
  <2> HIDE DEF step, base, n
  <2>5. PICK f : Built(f, n, Page, base, step)
    BY <2>1, <2>2, <2>3, StepsExist, Zenon
  <2>6. f \in [0..n -> Page] /\ f[0] = base /\ \A k \in 1..n : f[k] = step[k][f[k - 1]]
    BY <2>5 DEF Built
  <2>7. ASSUME NEW k \in 0..n
        PROVE  f[k] = IF k = 0 THEN base ELSE Tried(s.held[k], f[k - 1])
    <3>1. CASE k = 0
      BY <2>6, <3>1
    <3>2. CASE k # 0
      <4>1. k \in 1..n /\ k - 1 \in 0..n
        BY <2>1, <3>2
      <4>2. f[k - 1] \in Page
        BY <2>6, <4>1
      <4> QED
        BY <2>4, <2>6, <3>2, <4>1, <4>2
    <3> QED
      BY <3>1, <3>2
  <2>8. f = [k \in 0..n |-> IF k = 0 THEN base ELSE Tried(s.held[k], f[k - 1])]
    BY <2>6, <2>7
  <2>9. Fills(f)
    BY <2>8, Zenon DEF Tried, base
  <2> HIDE DEF Fills
  <2> QED
    BY <2>9
<1> HIDE DEF upTo
<1>3. Draining(upTo, s)
  BY <1>2, Zenon DEF Draining, Tried
<1> QED
  BY <1>1, <1>3

Standing(s, videos, q) == Sorted(s, videos) /\ Spaced(s) /\ InOrder(s.held, q)

LEMMA DrainKeeps ==
  ASSUME NEW s, NEW videos, NEW q, Standing(s, videos, q)
  PROVE  Standing(Drain(s), videos, q)
<1> DEFINE n == Len(s.held)
           Was(k) == {s.held[i] : i \in 1..k}
           All(k) == Range(s.placed) \cup Was(k)
<1>1. Sorted(s, videos) /\ Spaced(s) /\ InOrder(s.held, q)
  BY DEF Standing
<1>2. /\ s \in Page /\ s.placed \in Seq(Thing) /\ s.held \in Seq(Thing)
      /\ n \in Nat /\ DOMAIN s.held = 1..n /\ \A k \in 1..n : s.held[k] \in Thing
      /\ Lists(s.placed, Range(s.placed)) /\ IsInjective(s.held)
      /\ Range(s.placed) \cap Range(s.held) = {}
      /\ Range(s.placed) \cup Range(s.held) = videos
  BY <1>1 DEF Sorted, Page, Lists
<1>3. PICK upTo : Draining(upTo, s) /\ Drain(s) = upTo[n]
  BY <1>2, DrainDrains
<1>4. upTo[0] = [s EXCEPT !.held = <<>>] /\ \A k \in 1..n : upTo[k] = Tried(s.held[k], upTo[k - 1])
  <2>1. 0 \in 0..n /\ \A k \in 1..n : k \in 0..n /\ k # 0
    BY <1>2
  <2> QED
    BY <1>3, <2>1, Zenon DEF Draining
<1> DEFINE Good(k) == Standing(upTo[k], All(k), q) /\ Range(upTo[k].held) \subseteq Was(k)
           Goods   == {k \in 0..n : Good(k)}
<1>5. 0 \in Goods
  <2> DEFINE t == upTo[0]
  <2>1. <<>> \in Seq(Thing) /\ Range(<<>>) = {} /\ DOMAIN <<>> = {}
    BY DEF Range
  <2>2. t \in Page /\ t.held = <<>> /\ t.placed = s.placed
    BY <1>2, <1>4, <2>1, Zenon DEF Page
  <2>3. Was(0) = {}
    OBVIOUS
  <2> HIDE DEF t, Was
  <2>4. Lists(t.held, Range(t.held))
    BY <2>1, <2>2, NothingListed
  <2>5. Sorted(t, All(0)) /\ Spaced(t)
    BY <1>1, <1>2, <2>1, <2>2, <2>3, <2>4 DEF Sorted, Spaced
  <2>6. InOrder(t.held, q)
    BY <2>1, <2>2, Zenon DEF InOrder
  <2>7. Good(0)
    BY <2>1, <2>2, <2>5, <2>6 DEF Standing, t
  <2> QED
    BY <1>2, <2>7
<1>6. ASSUME NEW k \in 1..n, k - 1 \in Goods PROVE k \in Goods
  <2> DEFINE a == upTo[k - 1]
             v == s.held[k]
  <2>1. k \in 0..n /\ \A i \in 1..(k - 1) : i \in 1..n /\ i < k /\ i # k /\ i \in 1..k
    BY <1>2
  <2>2. \A i \in 1..k : i \in 1..(k - 1) \/ i = k
    OBVIOUS
  <2>3. Sorted(a, All(k - 1)) /\ Spaced(a) /\ InOrder(a.held, q) /\ Range(a.held) \subseteq Was(k - 1)
    BY <1>6 DEF Standing
  <2>4. v \in Thing /\ v \notin Was(k - 1) /\ v \in Range(s.held)
    BY <1>2, <2>1 DEF IsInjective, Range
  <2>5. Was(k) = Was(k - 1) \cup {v}
    BY <2>1, <2>2
  <2>6. \A u \in Was(k - 1) : Before(q, u, v)
    BY <1>1, <1>2, <2>1 DEF InOrder
  <2> HIDE DEF a, v, Was
  <2>7. v \in Thing \ All(k - 1) /\ All(k) = All(k - 1) \cup {v}
    BY <1>2, <2>4, <2>5
  <2>8. upTo[k] = Tried(v, a)
    BY <1>4 DEF a, v
  <2> HIDE DEF All
  <2>9. CASE a.held # <<>> \/ Full(a) \/ ~Fits(v, a)
    <3>1. upTo[k] = HoldBack(v, a)
      BY <2>8, <2>9 DEF Tried
    <3>2. Standing(HoldBack(v, a), All(k), q)
      BY <2>3, <2>6, <2>7, HoldBackSorts DEF Standing
    <3>3. Range(HoldBack(v, a).held) \subseteq Was(k)
      <4>1. HoldBack(v, a).held = Append(a.held, v) /\ a.held \in Seq(Thing)
        BY <2>3, Zenon DEF HoldBack, Sorted, Page
      <4> QED
        BY <2>3, <2>4, <2>5, <4>1, Longer
    <3> QED
      BY <2>1, <3>1, <3>2, <3>3
  <2>10. CASE ~(a.held # <<>> \/ Full(a) \/ ~Fits(v, a))
    <3>1. upTo[k] = Put(v, a) /\ Fits(v, a)
      BY <2>8, <2>10 DEF Tried
    <3>2. Sorted(Put(v, a), All(k)) /\ Spaced(Put(v, a)) /\ Put(v, a).held = a.held
      BY <2>3, <2>7, <3>1, PutSorts
    <3> QED
      BY <2>1, <2>3, <2>5, <3>1, <3>2 DEF Standing
  <2> QED
    BY <2>9, <2>10
<1>7. n \in Goods
  <2>1. \A k \in 1..n : k - 1 \in Goods => k \in Goods
    BY <1>6
  <2> HIDE DEF Goods, n
  <2> QED
    BY <1>2, <1>5, <2>1, Climb
<1>8. All(n) = videos
  BY <1>2 DEF Range
<1> QED
  BY <1>3, <1>7, <1>8

LEMMA PlaceKeeps ==
  ASSUME NEW s, NEW videos, NEW q, Standing(s, videos, q),
         NEW v \in Thing \ videos, \A u \in videos : Before(q, u, v)
  PROVE  Standing(Place(s, v), videos \cup {v}, q)
<1> DEFINE drained == Drain(NewWindow(s))
           ready   == IF Full(drained) THEN Drain(NewWindow(drained)) ELSE drained
<1>1. ASSUME NEW t, Standing(t, videos, q) PROVE Standing(Drain(NewWindow(t)), videos, q)
  <2>1. Standing(NewWindow(t), videos, q)
    BY <1>1, NewWindowSorts DEF Standing, Spaced
  <2> QED
    BY <2>1, DrainKeeps
<1>2. Standing(drained, videos, q)
  BY <1>1
<1>3. Standing(ready, videos, q)
  <2> HIDE DEF drained
  <2> QED
    BY <1>1, <1>2
<1>4. Place(s, v) = IF Fits(v, ready) THEN Put(v, ready) ELSE HoldBack(v, ready)
  BY Zenon DEF Place
<1> HIDE DEF ready
<1>5. Range(ready.held) \subseteq videos
  BY <1>3 DEF Standing, Sorted
<1>6. CASE Fits(v, ready)
  BY <1>3, <1>4, <1>6, PutSorts DEF Standing
<1>7. CASE ~Fits(v, ready)
  BY <1>3, <1>4, <1>5, <1>7, HoldBackSorts DEF Standing
<1> QED
  BY <1>6, <1>7

LEMMA NothingPlaced == \A q : Standing(Unplaced, {}, q) /\ Unplaced \in Page
<1>1. <<>> \in Seq(Thing) /\ Range(<<>>) = {} /\ DOMAIN <<>> = {} /\ 0 \in Nat
  BY DEF Range
<1>2. Unplaced \in Page /\ Unplaced.placed = <<>> /\ Unplaced.held = <<>>
  BY <1>1, Zenon DEF Unplaced, Page
<1>3. Sorted(Unplaced, {})
  BY <1>1, <1>2, NothingListed DEF Sorted
<1>4. Spaced(Unplaced) /\ \A q : InOrder(Unplaced.held, q)
  BY <1>1, <1>2, Zenon DEF Spaced, InOrder
<1> QED
  BY <1>2, <1>3, <1>4 DEF Standing

\* Every video of q is placed or held back, spaced and in its order.
LEMMA PlacingStands ==
  ASSUME NEW q, NEW videos, Lists(q, videos)
  PROVE  Standing(Placing(q), videos, q)
<1> DEFINE n == Len(q)
           Fills(f) == f = [k \in 0..n |-> IF k = 0 THEN Unplaced ELSE Place(f[k - 1], q[k])]
           upTo == CHOOSE f : Fills(f)
           Was(k) == {q[i] : i \in 1..k}
<1>1. /\ q \in Seq(Thing) /\ n \in Nat /\ DOMAIN q = 1..n /\ IsInjective(q) /\ Range(q) = videos
      /\ \A k \in 1..n : q[k] \in Thing
  BY DEF Lists
<1>2. Placing(q) = upTo[n]
  BY Zenon DEF Placing
<1>3. \A k \in 1..n : q[k] \notin Was(k - 1) /\ Was(k) = Was(k - 1) \cup {q[k]}
  <2> TAKE k \in 1..n
  <2>1. \A i \in 1..(k - 1) : i \in 1..n /\ i # k /\ i \in 1..k
    BY <1>1
  <2>2. \A i \in 1..k : i \in 1..(k - 1) \/ i = k
    OBVIOUS
  <2>3. q[k] \notin Was(k - 1)
    BY <1>1, <2>1 DEF IsInjective
  <2> QED
    BY <2>1, <2>2, <2>3
<1>4. \A k \in 1..n : \A u \in Was(k - 1) : Before(q, u, q[k])
  <2> TAKE k \in 1..n
  <2>1. \A i \in 1..(k - 1) : i \in DOMAIN q /\ i < k /\ k \in DOMAIN q
    BY <1>1
  <2> QED
    BY <2>1 DEF Before
<1>5. \A k \in 1..n : \A s : Standing(s, Was(k - 1), q) => Standing(Place(s, q[k]), Was(k), q)
  <2> TAKE k \in 1..n
  <2> TAKE s
  <2> HAVE Standing(s, Was(k - 1), q)
  <2> HIDE DEF Was
  <2>1. q[k] \in Thing \ Was(k - 1)
    BY <1>1, <1>3
  <2>2. Standing(Place(s, q[k]), Was(k - 1) \cup {q[k]}, q)
    BY <1>4, <2>1, PlaceKeeps
  <2> QED
    BY <1>3, <2>2
<1>6. Was(0) = {} /\ Was(n) = videos
  BY <1>1 DEF Range
<1> HIDE DEF Was
\* A function that is what upTo stands for: only its steps from where it stands matter.
<1>7. Fills(upTo)
  <2> DEFINE base == Unplaced
             step == [k \in 1..n |-> [s \in Page |->
                        IF Standing(s, Was(k - 1), q) THEN Place(s, q[k]) ELSE s]]
  <2>1. \A k \in 1..n, s \in Page :
          (IF Standing(s, Was(k - 1), q) THEN Place(s, q[k]) ELSE s) \in Page
    BY <1>5 DEF Standing, Sorted
  <2>2. step \in [1..n -> [Page -> Page]]
    BY <2>1
  <2>3. \A k \in 1..n, s \in Page :
          step[k][s] = IF Standing(s, Was(k - 1), q) THEN Place(s, q[k]) ELSE s
    OBVIOUS
  <2>4. base \in Page
    BY NothingPlaced
  <2> HIDE DEF step, base, n
  <2>5. PICK f : Built(f, n, Page, base, step)
    BY <1>1, <2>2, <2>4, StepsExist, Zenon
  <2>6. f \in [0..n -> Page] /\ f[0] = base /\ \A k \in 1..n : f[k] = step[k][f[k - 1]]
    BY <2>5 DEF Built
  <2>7. \A k \in 1..n : k - 1 \in 0..n /\ k \in 0..n /\ k # 0 /\ f[k - 1] \in Page
    BY <1>1, <2>6
  <2> DEFINE S == {k \in 0..n : Standing(f[k], Was(k), q)}
  <2>8. \A k \in 1..n : k - 1 \in S => k \in S /\ f[k] = Place(f[k - 1], q[k])
    BY <1>5, <2>3, <2>6, <2>7
  <2>9. 0 \in S
    BY <1>1, <1>6, <2>6, NothingPlaced DEF base
  <2>10. \A k \in 1..n : k - 1 \in S
    <3> TAKE k \in 1..n
    <3>1. k - 1 \in Nat /\ \A j \in 1..(k - 1) : j \in 1..n
      BY <1>1
    <3>2. \A j \in 1..(k - 1) : j - 1 \in S => j \in S
      BY <2>8, <3>1
    <3> HIDE DEF S
    <3> QED
      BY <2>9, <3>1, <3>2, Climb
  <2> HIDE DEF S
  <2>11. ASSUME NEW k \in 0..n PROVE f[k] = IF k = 0 THEN base ELSE Place(f[k - 1], q[k])
    <3>1. k = 0 \/ k \in 1..n
      BY <1>1
    <3> QED
      BY <2>6, <2>7, <2>8, <2>10, <3>1
  <2>12. f = [k \in 0..n |-> IF k = 0 THEN base ELSE Place(f[k - 1], q[k])]
    BY <2>6, <2>11
  <2>13. Fills(f)
    BY <2>12, Zenon DEF base
  <2> HIDE DEF Fills
  <2> QED
    BY <2>13
<1> HIDE DEF upTo
<1>8. upTo[0] = Unplaced /\ \A k \in 1..n : upTo[k] = Place(upTo[k - 1], q[k])
  <2>1. 0 \in 0..n /\ \A k \in 1..n : k \in 0..n /\ k # 0
    BY <1>1
  <2> QED
    BY <1>7, <2>1, Zenon
<1> DEFINE Goods == {k \in 0..n : Standing(upTo[k], Was(k), q)}
<1>9. 0 \in Goods /\ \A k \in 1..n : k - 1 \in Goods => k \in Goods
  <2>1. 0 \in 0..n /\ \A k \in 1..n : k \in 0..n
    BY <1>1
  <2> QED
    BY <1>5, <1>6, <1>8, <2>1, NothingPlaced
<1> HIDE DEF Goods
<1>10. n \in Goods
  BY <1>1, <1>9, Climb
<1> QED
  BY <1>2, <1>6, <1>10 DEF Goods

LEMMA DiversityLists ==
  ASSUME NEW q, NEW videos, Lists(q, videos)
  PROVE  Lists(Diversity(q), videos)
<1> DEFINE s == Placing(q)
<1>1. /\ Lists(s.placed, Range(s.placed)) /\ Lists(s.held, Range(s.held))
      /\ Range(s.placed) \cap Range(s.held) = {} /\ Range(s.placed) \cup Range(s.held) = videos
  BY PlacingStands DEF Standing, Sorted
<1> HIDE DEF s
<1>2. Lists(s.placed \o s.held, Range(s.placed) \cup Range(s.held))
  BY <1>1, Joined
<1> QED
  BY <1>1, <1>2 DEF Diversity, s

LEMMA ListsAreOrderings ==
  ASSUME NEW q, NEW videos, Lists(q, videos)
  PROVE  q \in Orderings(videos)
<1>1. /\ q \in Seq(Thing) /\ IsInjective(q) /\ Range(q) = videos
      /\ Len(q) \in Nat /\ DOMAIN q = 1..Len(q)
  BY DEF Lists
<1>2. Len(q) = Cardinality(videos)
  BY Listed
<1>3. q \in [1..Len(q) -> videos]
  BY <1>1 DEF Range
<1> QED
  BY <1>1, <1>2, <1>3 DEF Orderings

LEMMA OrdersList ==
  ASSUME NEW q \in Orders
  PROVE  Lists(q, Range(q))
<1>1. PICK videos \in SUBSET DOMAIN Slot : q \in SetToSeqs(videos)
  BY DEF Orders
<1> DEFINE n == Cardinality(videos)
<1>2. n \in Nat
  BY FeedMixAssumption, FS_Subset, FS_CardinalityType
<1>3. q \in [1..n -> videos] /\ \A i, j \in 1..n : i # j => q[i] # q[j]
  BY <1>1 DEF SetToSeqs
<1> HIDE DEF n
<1>4. q \in [1..n -> Thing]
  BY <1>3 DEF Thing
<1>5. q \in Seq(Thing) /\ DOMAIN q = 1..n
  BY <1>2, <1>4
<1>6. IsInjective(q)
  BY <1>3, <1>5 DEF IsInjective
<1> QED
  BY <1>5, <1>6 DEF Lists

LEMMA GapIsNat == \A v : Gap(v) \in Nat
<1>1. Window \in Nat \ {0} /\ PerChannel \in Nat \ {0} /\ FreshGap \in Nat
  BY FeedMixAssumption
<1>2. Window \div PerChannel \in Nat
  BY <1>1
<1>3. Max({1, Window \div PerChannel}) \in Nat
  BY <1>2, ExtremesOfTwo
<1> QED
  BY <1>1, <1>3 DEF Gap

LEMMA EveryPageReorders ==
  ASSUME NEW q \in Orders
  PROVE  ReordersOnly(q)
<1>1. Lists(Quota(q), Offered(Range(q)))
  BY OrdersList, QuotaLists
<1>2. Lists(Diversity(Quota(q)), Offered(Range(q)))
  BY <1>1, DiversityLists
<1> QED
  BY <1>2, ListsAreOrderings DEF ReordersOnly, Offered

LEMMA EveryPageKeepsApart ==
  ASSUME NEW q \in Orders
  PROVE  CrowdsOnlyAtTheEnd(q)
<1> DEFINE p == Placing(q).placed
           h == Placing(q).held
           out == p \o h
           m == Len(p)
<1>1. out = Diversity(q)
  BY DEF Diversity
<1>2. p \in Seq(Thing) /\ h \in Seq(Thing) /\ InOrder(h, q) /\ Spaced(Placing(q))
  BY OrdersList, PlacingStands DEF Standing, Sorted, Page
<1>3. /\ m \in Nat /\ Len(h) \in Nat /\ Len(out) = m + Len(h)
      /\ DOMAIN p = 1..m /\ DOMAIN h = 1..Len(h) /\ DOMAIN out = 1..(m + Len(h))
      /\ \A i \in 1..m : out[i] = p[i]
      /\ \A i \in 1..Len(h) : out[m + i] = h[i]
  <2>1. p \in Seq(Thing) /\ h \in Seq(Thing)
    BY <1>2
  <2> HIDE DEF p, h
  <2> QED
    BY <2>1
<1>4. \A i, j \in 1..m :
        i < j /\ Channel[p[i]] = Channel[p[j]] /\ Channel[p[j]] # NoChannel => j - i >= Gap(p[j])
  BY <1>2, <1>3 DEF Spaced
<1> HIDE DEF p, h, out, m
<1> DEFINE Crowded(j) == \E i \in 1..(j - 1) : /\ Channel[out[i]] = Channel[out[j]]
                                               /\ Channel[out[j]] # NoChannel
                                               /\ j - i < Gap(out[j])
<1>5. ASSUME NEW j \in DOMAIN out, Crowded(j) PROVE m < j
  <2>1. SUFFICES ASSUME j \in 1..m PROVE FALSE
    BY <1>3
  <2>2. PICK i \in 1..(j - 1) : /\ Channel[out[i]] = Channel[out[j]]
                                /\ Channel[out[j]] # NoChannel
                                /\ j - i < Gap(out[j])
    BY <1>5
  <2>3. i \in 1..m /\ i < j
    BY <1>3, <2>1
  <2>4. j - i >= Gap(p[j]) /\ j - i < Gap(p[j])
    BY <1>3, <1>4, <2>1, <2>2, <2>3
  <2>5. Gap(p[j]) \in Nat
    BY GapIsNat
  <2> QED
    BY <1>3, <2>1, <2>3, <2>4, <2>5
<1>6. ASSUME NEW j \in DOMAIN out, Crowded(j), NEW k \in j..Len(out), NEW l \in j..Len(out), k < l
      PROVE  Before(q, out[k], out[l])
  <2>1. m < j
    BY <1>5, <1>6
  <2>2. k - m \in 1..Len(h) /\ l - m \in 1..Len(h) /\ k - m < l - m /\ m + (k - m) = k /\ m + (l - m) = l
    BY <1>3, <1>6, <2>1
  <2>3. out[k] = h[k - m] /\ out[l] = h[l - m]
    BY <1>3, <2>2
  <2> QED
    BY <1>2, <1>3, <2>2, <2>3 DEF InOrder
<1> QED
  BY <1>1, <1>6 DEF CrowdsOnlyAtTheEnd

-----------------------------------------------------------------------------
(* Every bucket has its places.                                             *)

\* What a round takes comes before what a later one takes.
LEMMA RoundsInTurn ==
  ASSUME NEW q, NEW videos, Lists(q, videos), NEW b \in Range(Buckets), NEW c \in Range(Buckets),
         NEW i \in 1..Len(q), NEW j \in 1..Len(q), i < j, NEW u \in CutOf(q, b, i), NEW v \in CutOf(q, c, j)
  PROVE  Before(Quota(q), u, v)
<1> DEFINE m == Len(q)
           parts  == [n \in 1..m |-> Round(q, n)]
           sets   == [n \in 1..m |-> RoundOf(q, n)]
           rounds == FlattenSeq(parts)
<1>1. m \in Nat /\ DOMAIN q = 1..m
  BY DEF Lists
<1>2. Apart(m, parts, sets)
  BY RoundsAreApart
<1>3. PICK k \in 1..6, l \in 1..6 : b = Buckets[k] /\ c = Buckets[l]
  BY BucketsAre DEF Range
<1>4. u \in sets[i] /\ v \in sets[j]
  BY <1>3 DEF RoundOf
<1> HIDE DEF parts, sets, m
<1>5. Before(rounds, u, v)
  BY <1>1, <1>2, <1>4, FlattenInTurn DEF m
<1>6. /\ rounds \in Seq(Thing) /\ Placeless(q) \in Seq(Thing) /\ InBucket(q, "other") \in Seq(Thing)
      /\ rounds \o Placeless(q) \in Seq(Thing)
  <2>1. rounds \in Seq(Thing)
    BY <1>1, <1>2, AllJoined DEF Lists
  <2>2. Placeless(q) \in Seq(Thing) /\ InBucket(q, "other") \in Seq(Thing)
    BY PlacelessLists, InBucketLists DEF Lists
  <2> QED
    BY <2>1, <2>2
<1>7. [n \in DOMAIN q |-> Round(q, n)] = parts
  BY <1>1 DEF parts
<1>8. Quota(q) = rounds \o Placeless(q) \o InBucket(q, "other")
  BY <1>7 DEF Quota
<1> HIDE DEF rounds
<1>9. Before(rounds \o Placeless(q), u, v)
  BY <1>5, <1>6, BeforeJoined
<1> QED
  BY <1>6, <1>8, <1>9, BeforeJoined

LEMMA NoMoreThan ==
  ASSUME NEW S, NEW T, IsFiniteSet(T), NEW f, f \in [S -> T],
         \A x, y \in S : f[x] = f[y] => x = y
  PROVE  /\ IsFiniteSet(S) /\ Cardinality(S) <= Cardinality(T)
         /\ Cardinality(S) \in Nat /\ Cardinality(T) \in Nat
<1>1. f \in Injection(S, T)
  BY DEF Injection, IsInjective
<1> QED
  BY <1>1, FS_Injection, FS_CardinalityType

LEMMA Counting ==
  ASSUME NEW m \in Nat
  PROVE  IsFiniteSet(1..m) /\ Cardinality(1..m) = m
<1>1. IsFiniteSet(1..m) /\ Cardinality(1..m) = IF 1 > m THEN 0 ELSE m - 1 + 1
  BY FS_Interval
<1> QED
  BY <1>1

LEMMA QuotientBelow ==
  ASSUME NEW x \in Nat, NEW r \in Nat \ {0}, NEW p \in Nat \ {0}, x < r * p
  PROVE  x \div p \in Nat /\ x \div p <= r - 1
<1> DEFINE d == x \div p
<1>1. d \in Nat /\ d * p <= x
  OBVIOUS
<1>2. ASSUME NEW e \in Nat, r <= e PROVE r * p <= e * p
  <2>1. PICK g \in Nat : e = r + g
    <3>1. e - r \in Nat /\ e = r + (e - r)
      BY <1>2
    <3> QED
      BY <3>1
  <2>2. e * p = r * p + g * p /\ g * p \in Nat /\ r * p \in Nat
    BY <2>1
  <2> QED
    BY <2>2
<1> HIDE DEF d
<1>3. ~(r <= d)
  <2>1. r * p \in Nat /\ d * p \in Nat
    BY <1>1
  <2>2. r <= d => r * p <= d * p
    BY <1>1, <1>2
  <2> QED
    BY <1>1, <2>1, <2>2
<1> QED
  BY <1>1, <1>3 DEF d

\* Where videos of a bucket stand among the first n.
Spots(out, b, n) == {i \in 1..n : Slot[out[i]] = b}

LEMMA SpotsAreFinite ==
  ASSUME NEW out, NEW b, NEW n \in Nat
  PROVE  IsFiniteSet(Spots(out, b, n)) /\ Cardinality(Spots(out, b, n)) \in Nat
<1>1. Spots(out, b, n) \subseteq 1..n /\ IsFiniteSet(1..n)
  BY Counting DEF Spots
<1> QED
  BY <1>1, FS_Subset, FS_CardinalityType

\* What stands where a round is taken is of that round or an earlier one.
LEMMA NoMoreThanTheRounds ==
  ASSUME NEW q, NEW videos, Lists(q, videos), NEW n \in DOMAIN Quota(q), NEW c \in Sharing,
         NEW r \in 1..Len(q), Quota(q)[n] \in CutOf(q, c, r)
  PROVE  Cardinality(Spots(Quota(q), c, n)) <= r * Places(c)
<1> DEFINE out == Quota(q)
           s   == InBucket(q, c)
           p   == Places(c)
           S   == Spots(out, c, n)
<1>1. /\ Lists(out, Offered(videos)) /\ Lists(s, InSlot(videos, c)) /\ Len(q) \in Nat
      /\ c \in Range(Buckets) /\ p \in Nat \ {0}
  BY QuotaLists, InBucketLists, Listed, PlacesAreNat DEF Sharing
<1>2. /\ DOMAIN out = 1..Len(out) /\ Len(out) \in Nat /\ IsInjective(out) /\ Range(out) = Offered(videos)
      /\ DOMAIN s = 1..Len(s) /\ Len(s) \in Nat
  BY <1>1 DEF Lists
<1>3. \A i \in S : i \in DOMAIN out /\ i <= n /\ out[i] \in InSlot(videos, c)
  <2>1. \A i \in S : i \in 1..n /\ i \in DOMAIN out /\ i <= n /\ Slot[out[i]] = c
    BY <1>2 DEF Spots
  <2>2. \A i \in DOMAIN out : out[i] \in Offered(videos)
    BY <1>2 DEF Range
  <2> QED
    BY <2>1, <2>2 DEF Offered, InSlot
<1>4. r * p \in Nat /\ r \in Nat \ {0}
  BY <1>1
<1> HIDE DEF out, s, p, S
<1>5. \A i \in S : \E k \in DOMAIN s : s[k] = out[i] /\ k <= r * p
  <2> TAKE i \in S
  <2>1. PICK t \in 1..Len(q) : out[i] \in CutOf(q, c, t)
    BY <1>1, <1>3, ARoundTakesIt DEF p
  <2>2. t <= r
    <3>1. SUFFICES ASSUME r < t PROVE FALSE
      BY <1>1, <1>4
    <3>2. Before(out, out[n], out[i])
      BY <1>1, <2>1, <3>1, RoundsInTurn DEF out
    <3>3. PICK a \in DOMAIN out, d \in DOMAIN out : a < d /\ out[a] = out[n] /\ out[d] = out[i]
      BY <3>2 DEF Before
    <3>4. a = n /\ d = i
      BY <1>2, <1>3, <3>3 DEF IsInjective, out
    <3> QED
      BY <1>2, <1>3, <3>3, <3>4
  <2>3. PICK k \in DOMAIN s : s[k] = out[i] /\ InRound(k, t, p)
    BY <2>1 DEF CutOf, s, p
  <2>4. t * p <= r * p
    <3>1. PICK g \in Nat : r = t + g
      <4>1. r - t \in Nat /\ r = t + (r - t)
        BY <1>1, <1>4, <2>2
      <4> QED
        BY <4>1
    <3>2. r * p = t * p + g * p /\ g * p \in Nat /\ t * p \in Nat
      BY <1>1, <3>1
    <3> QED
      BY <3>2
  <2>5. k <= t * p /\ k \in Nat /\ t * p \in Nat
    BY <1>1, <1>2, <2>3 DEF InRound
  <2> QED
    BY <1>4, <2>3, <2>4, <2>5
<1> DEFINE f == [i \in S |-> CHOOSE k \in DOMAIN s : s[k] = out[i] /\ k <= r * p]
<1>6. \A i \in S : f[i] \in DOMAIN s /\ s[f[i]] = out[i] /\ f[i] <= r * p
  BY <1>5
<1>7. f \in [S -> 1..(r * p)]
  <2>1. \A i \in S : f[i] \in 1..(r * p)
    BY <1>2, <1>4, <1>6
  <2> QED
    BY <2>1
<1> HIDE DEF f
<1>8. \A i, j \in S : f[i] = f[j] => i = j
  <2> TAKE i, j \in S
  <2> HAVE f[i] = f[j]
  <2>1. out[i] = out[j]
    BY <1>6
  <2> QED
    BY <1>2, <1>3, <2>1 DEF IsInjective
<1>9. IsFiniteSet(1..(r * p)) /\ Cardinality(1..(r * p)) = r * p
  BY <1>4, Counting
<1>10. Cardinality(S) <= Cardinality(1..(r * p))
  BY <1>7, <1>8, <1>9, NoMoreThan
<1> QED
  BY <1>9, <1>10 DEF S, p, out

\* All of a bucket that the rounds before have taken stands before it.
LEMMA NoLessThanTheRounds ==
  ASSUME NEW q, NEW videos, Lists(q, videos), NEW n \in DOMAIN Quota(q),
         NEW b \in Sharing, NEW c \in Sharing,
         NEW r \in 1..Len(q), Quota(q)[n] \in CutOf(q, c, r),
         NEW t \in Nat, t <= Len(InBucket(q, b)), t <= (r - 1) * Places(b)
  PROVE  t <= Cardinality(Spots(Quota(q), b, n))
<1> DEFINE out == Quota(q)
           s   == InBucket(q, b)
           p   == Places(b)
           S   == Spots(out, b, n)
<1>1. /\ Lists(out, Offered(videos)) /\ Lists(s, InSlot(videos, b)) /\ Len(q) \in Nat
      /\ b \in Range(Buckets) /\ c \in Range(Buckets) /\ p \in Nat \ {0}
  BY QuotaLists, InBucketLists, Listed, PlacesAreNat DEF Sharing
<1>2. /\ DOMAIN out = 1..Len(out) /\ Len(out) \in Nat /\ IsInjective(out) /\ Range(out) = Offered(videos)
      /\ DOMAIN s = 1..Len(s) /\ Len(s) \in Nat /\ IsInjective(s) /\ Range(s) = InSlot(videos, b)
  BY <1>1 DEF Lists
<1>3. \A k \in 1..t : k \in DOMAIN s /\ k \in Nat \ {0} /\ k <= (r - 1) * p
  BY <1>1, <1>2
<1>4. r \in Nat \ {0} /\ r - 1 \in Nat
  BY <1>1
<1> HIDE DEF out, s, p, S
<1>5. \A k \in 1..t : \E i \in S : out[i] = s[k]
  <2> TAKE k \in 1..t
  <2>1. PICK m \in 1..k : InRound(k, m, p)
    BY <1>1, <1>3, ARoundComes
  <2>2. m < r
    <3>1. SUFFICES ASSUME r <= m PROVE FALSE
      BY <1>3, <1>4
    <3>2. PICK g \in Nat : m - 1 = (r - 1) + g
      <4>1. m - r \in Nat /\ m - 1 = (r - 1) + (m - r)
        BY <1>3, <1>4, <3>1
      <4> QED
        BY <4>1
    <3>3. /\ (m - 1) * p = (r - 1) * p + g * p
          /\ (r - 1) * p \in Nat /\ g * p \in Nat /\ (m - 1) * p \in Nat
      BY <1>1, <1>4, <3>2
    <3>4. (m - 1) * p < k /\ k <= (r - 1) * p /\ k \in Nat
      BY <1>3, <2>1 DEF InRound
    <3> DEFINE x == (m - 1) * p
               y == (r - 1) * p
               z == g * p
    <3> HIDE DEF x, y, z
    <3>5. x = y + z /\ x \in Nat /\ y \in Nat /\ z \in Nat /\ x < k /\ k <= y /\ k \in Nat
      BY <3>3, <3>4 DEF x, y, z
    <3> QED
      BY <3>5
  <2>3. m \in 1..Len(q)
    BY <1>1, <1>3, <2>2
  <2>4. s[k] \in CutOf(q, b, m)
    BY <1>3, <2>1 DEF CutOf, s, p
  <2>5. Before(out, s[k], out[n])
    BY <1>1, <2>2, <2>3, <2>4, RoundsInTurn DEF out
  <2>6. PICK i \in DOMAIN out, j \in DOMAIN out : i < j /\ out[i] = s[k] /\ out[j] = out[n]
    BY <2>5 DEF Before
  <2>7. j = n
    BY <1>2, <2>6 DEF IsInjective, out
  <2>8. s[k] \in InSlot(videos, b)
    BY <1>2, <1>3 DEF Range
  <2>9. i \in 1..n /\ Slot[out[i]] = b
    BY <1>2, <2>6, <2>7, <2>8 DEF InSlot
  <2> QED
    BY <2>6, <2>9 DEF S, Spots
<1> DEFINE f == [k \in 1..t |-> CHOOSE i \in S : out[i] = s[k]]
<1>6. \A k \in 1..t : f[k] \in S /\ out[f[k]] = s[k]
  BY <1>5
<1>7. f \in [1..t -> S]
  BY <1>6
<1> HIDE DEF f
<1>8. \A k, l \in 1..t : f[k] = f[l] => k = l
  <2> TAKE k, l \in 1..t
  <2> HAVE f[k] = f[l]
  <2>1. s[k] = s[l]
    BY <1>6
  <2> QED
    BY <1>2, <1>3, <2>1 DEF IsInjective
<1>9. IsFiniteSet(S) /\ Cardinality(S) \in Nat
  <2>1. n \in Nat
    BY <1>2 DEF out
  <2> QED
    BY <2>1, SpotsAreFinite DEF S
<1>10. Cardinality(1..t) <= Cardinality(S)
  BY <1>7, <1>8, <1>9, NoMoreThan
<1>11. Cardinality(1..t) = t
  BY Counting
<1> QED
  BY <1>10, <1>11 DEF S, out

LEMMA EveryPageShares ==
  ASSUME NEW q \in Orders
  PROVE  SharesAreHad(q)
<1> DEFINE out == Quota(q)
           In(b, n) == Cardinality({i \in 1..n : Slot[out[i]] = b})
<1>1. Lists(q, Range(q)) /\ Lists(out, Offered(Range(q)))
  BY OrdersList, QuotaLists
<1>2. DOMAIN out = 1..Len(out) /\ Len(out) \in Nat /\ Range(out) = Offered(Range(q))
  BY <1>1 DEF Lists
<1>3. \A b, n : In(b, n) = Cardinality(Spots(out, b, n))
  BY DEF Spots
<1> HIDE DEF out, In
<1>4. ASSUME NEW n \in DOMAIN out, NEW b \in Sharing, Slot[out[n]] \in Sharing
      PROVE  In(b, n) >= Min({((In(Slot[out[n]], n) - 1) \div Places(Slot[out[n]])) * Places(b),
                              In(b, Len(out))})
  <2> DEFINE c   == Slot[out[n]]
             p   == Places(c)
             x   == In(c, n) - 1
             had == x \div p
             l   == Len(InBucket(q, b))
             all == In(b, Len(out))
             hp  == had * Places(b)
  <2>1. /\ c \in Sharing /\ c \in Range(Buckets) /\ b \in Range(Buckets)
        /\ p \in Nat \ {0} /\ Places(b) \in Nat \ {0} /\ n \in Nat
    BY <1>2, <1>4, PlacesAreNat DEF Sharing
  <2>2. out[n] \in InSlot(Range(q), c)
    BY <1>2 DEF Range, Offered, InSlot
  <2>3. PICK r \in 1..Len(q) : out[n] \in CutOf(q, c, r)
    BY <1>1, <2>1, <2>2, ARoundTakesIt
  <2>4. r \in Nat \ {0} /\ l \in Nat /\ Lists(InBucket(q, b), InSlot(Range(q), b))
    BY <1>1, Listed, InBucketLists
  <2>5. In(c, n) <= r * p
    BY <1>1, <1>3, <2>1, <2>3, NoMoreThanTheRounds DEF out
  <2>6. In(c, n) \in Nat \ {0}
    <3>1. IsFiniteSet(Spots(out, c, n)) /\ Cardinality(Spots(out, c, n)) \in Nat
      BY <2>1, SpotsAreFinite
    <3>2. n \in Spots(out, c, n)
      BY <1>2 DEF Spots
    <3> QED
      BY <1>3, <3>1, <3>2, FS_EmptySet
  <2>7. In(b, n) \in Nat /\ all \in Nat
    BY <1>2, <1>3, <2>1, SpotsAreFinite
  \* A bucket has no more spots than videos.
  <2>8. all <= l
    <3> DEFINE S == Spots(out, b, Len(out))
               f == [i \in S |-> out[i]]
    <3>1. \A i \in S : i \in DOMAIN out /\ out[i] \in InSlot(Range(q), b)
      BY <1>2 DEF Range, Offered, InSlot, Spots
    <3>2. f \in [S -> InSlot(Range(q), b)] /\ \A i, j \in S : f[i] = f[j] => i = j
      BY <1>1, <3>1 DEF Lists, IsInjective
    <3>3. IsFiniteSet(InSlot(Range(q), b)) /\ Cardinality(InSlot(Range(q), b)) = l
      BY <2>4, Listed
    <3> HIDE DEF S, f, l
    <3>4. Cardinality(S) <= l
      BY <3>2, <3>3, NoMoreThan
    <3> QED
      BY <1>3, <3>4 DEF S
  <2> HIDE DEF c, p, l, all
  <2>9. had \in Nat /\ had <= r - 1
    <3>1. x \in Nat /\ x < r * p
      <4>1. r * p \in Nat
        BY <2>1, <2>4
      <4> QED
        BY <2>5, <2>6, <4>1
    <3> HIDE DEF x
    <3> QED
      BY <2>1, <2>4, <3>1, QuotientBelow
  <2> HIDE DEF had
  <2>10. hp \in Nat /\ hp <= (r - 1) * Places(b) /\ (r - 1) * Places(b) \in Nat
    <3>1. PICK g \in Nat : r - 1 = had + g
      <4>1. (r - 1) - had \in Nat /\ r - 1 = had + ((r - 1) - had)
        BY <2>4, <2>9
      <4> QED
        BY <4>1
    <3>2. (r - 1) * Places(b) = hp + g * Places(b) /\ g * Places(b) \in Nat /\ hp \in Nat
      BY <2>1, <2>9, <3>1
    <3> QED
      BY <3>2
  <2> HIDE DEF hp
  <2> DEFINE t == IF hp <= all THEN hp ELSE all
  <2>11. t \in Nat /\ t <= l /\ t <= (r - 1) * Places(b)
    <3> DEFINE y == (r - 1) * Places(b)
    <3> HIDE DEF y
    <3>1. hp \in Nat /\ hp <= y /\ y \in Nat
      BY <2>10 DEF y
    <3>2. t \in Nat /\ t <= l /\ t <= y
      BY <2>4, <2>7, <2>8, <3>1
    <3> QED
      BY <3>2 DEF y
  <2>12. Min({hp, all}) = t
    BY <2>7, <2>10, ExtremesOfTwo
  <2> HIDE DEF t
  <2>13. t <= Cardinality(Spots(out, b, n))
    BY <1>1, <2>1, <2>3, <2>11, NoLessThanTheRounds DEF out, l
  <2>14. In(b, n) >= Min({hp, all})
    BY <1>3, <2>7, <2>11, <2>12, <2>13
  <2> QED
    BY <2>14 DEF hp, had, all, c, p
<1> QED
  BY <1>4 DEF SharesAreHad, out, In

-----------------------------------------------------------------------------
\* For every number of videos, channels and shares, a page of any order of
\* scores is one of the orderings the feed reckons with (applyDiscoveryQuota,
\* applyChannelDiversity).
THEOREM EveryPageIsAnOrdering == Spec => []PagesReorderOnly
<1>1. PagesReorderOnly
  BY EveryPageReorders DEF PagesReorderOnly
<1> QED
  BY <1>1, PTL

\* Every bucket has its places in it before any has more (applyDiscoveryQuota).
THEOREM BucketsHaveTheirPlaces == Spec => []PagesShareFairly
<1>1. PagesShareFairly
  BY EveryPageShares DEF PagesShareFairly
<1> QED
  BY <1>1, PTL

\* And channels crowd nowhere but in what was held back to the end of it.
THEOREM ChannelsAreKeptApart == Spec => []PagesKeepChannelsApart
<1>1. PagesKeepChannelsApart
  BY EveryPageKeepsApart DEF PagesKeepChannelsApart
<1> QED
  BY <1>1, PTL
=============================================================================
