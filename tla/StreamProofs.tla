----------------------------- MODULE StreamProofs -----------------------------
(***************************************************************************)
(* A request that was refused on a URL does not read from it again, with    *)
(* any number of requests, URLs, deaths and faults.  A URL is only ever     *)
(* cached in the step that brings it, when nobody else holds it, and in one *)
(* cache; so the one place where a request could meet the URL it failed on  *)
(* is the cache it has just emptied.                                        *)
(***************************************************************************)
EXTENDS StreamProperties, FiniteSetTheorems, TLAPS

Pc == {"idle", "look", "check", "shared", "resolve", "note", "open", "copying"}

Asked == [pc : Pc, kind : Kind, url : Url \cup {NoUrl}, failed : Url \cup {NoUrl}]

Shape ==
  /\ cache \in [Cache -> Url \cup {NoUrl}]
  /\ req \in [Request -> Asked]
  /\ dead \subseteq Url

OneCache == \A k, l \in Cache : cache[k] # NoUrl /\ cache[k] = cache[l] => k = l

\* What request q, in whatever state, has to do with the caches c.
Linked(q, c) ==
  \A k \in Cache : c[k] # NoUrl => /\ c[k] = q.url => k = Store(q.kind)
                                   /\ c[k] # q.failed

Sound(q) ==
  /\ q.pc \in {"open", "copying"} => q.url # NoUrl /\ q.url # q.failed
  /\ q.pc = "shared" => q.kind \in Ladder
  /\ q.pc \in {"idle", "shared"} => q.failed = NoUrl
  /\ q.pc = "look" /\ q.kind \in Ladder => q.failed = NoUrl

StreamsInv ==
  /\ Shape
  /\ OneCache
  /\ \A r \in Request : Sound(req[r]) /\ Linked(req[r], cache)
  /\ \A r \in Request : req[r].pc = "shared" => flight

-----------------------------------------------------------------------------
(* There is always a name nobody holds.                                     *)
LEMMA UnionIsFew ==
  ASSUME NEW S, IsFiniteSet(S), NEW T, IsFiniteSet(T)
  PROVE  IsFiniteSet(S \cup T) /\ Cardinality(S \cup T) <= Cardinality(S) + Cardinality(T)
<1>1. /\ IsFiniteSet(S \cup T)
      /\ Cardinality(S \cup T) = Cardinality(S) + Cardinality(T) - Cardinality(S \cap T)
  BY FS_Union
<1>2. IsFiniteSet(S \cap T)
  BY FS_Intersection
<1>3. Cardinality(S) \in Nat /\ Cardinality(T) \in Nat /\ Cardinality(S \cap T) \in Nat
  BY <1>2, FS_CardinalityType
<1> QED
  BY <1>1, <1>3

LEMMA HeldIsFew ==
  ASSUME Shape
  PROVE  IsFiniteSet(Held) /\ Cardinality(Held) <= 3 + 2 * Cardinality(Request)
<1> DEFINE place == [i \in 1..3 |-> IF i = 1 THEN cache["hls"]
                                    ELSE IF i = 2 THEN cache["mux"] ELSE cache["instant"]]
           url    == [r \in Request |-> req[r].url]
           failed == [r \in Request |-> req[r].failed]
           Cached == {cache[k] : k \in Cache}
           Urls   == {req[r].url : r \in Request}
           Failed == {req[r].failed : r \in Request}
<1>1. IsFiniteSet(Request)
  BY StreamUrlsAssumption
<1>2. IsFiniteSet(1..3) /\ Cardinality(1..3) = 3
  <2>1. IsFiniteSet(1..3) /\ Cardinality(1..3) = IF 1 > 3 THEN 0 ELSE 3 - 1 + 1
    <3>1. 1 \in Int /\ 3 \in Int
      OBVIOUS
    <3> QED
      BY <3>1, FS_Interval, Zenon
  <2> QED
    BY <2>1
<1>3. IsFiniteSet(Cached) /\ Cardinality(Cached) <= 3
  <2>1. place \in Surjection(1..3, Cached)
    <3>1. \A i \in 1..3 : place[i] \in Cached
      BY DEF Cache
    <3>2. \A x \in Cached : x = place[1] \/ x = place[2] \/ x = place[3]
      BY DEF Cache
    <3> HIDE DEF Cached
    <3> QED
      BY <3>1, <3>2 DEF Surjection
  <2> QED
    BY <2>1, <1>2, FS_Surjection
<1>4. IsFiniteSet(Urls) /\ Cardinality(Urls) <= Cardinality(Request)
  <2>1. url \in Surjection(Request, Urls)
    BY DEF Surjection
  <2> QED
    BY <2>1, <1>1, FS_Surjection
<1>5. IsFiniteSet(Failed) /\ Cardinality(Failed) <= Cardinality(Request)
  <2>1. failed \in Surjection(Request, Failed)
    BY DEF Surjection
  <2> QED
    BY <2>1, <1>1, FS_Surjection
<1> HIDE DEF Cached, Urls, Failed
<1>6. /\ IsFiniteSet(Urls \cup Failed)
      /\ Cardinality(Urls \cup Failed) <= 2 * Cardinality(Request)
  <2>1. /\ Cardinality(Request) \in Nat /\ Cardinality(Urls) \in Nat
        /\ Cardinality(Failed) \in Nat
    BY <1>1, <1>4, <1>5, FS_CardinalityType
  <2>2. /\ IsFiniteSet(Urls \cup Failed)
        /\ Cardinality(Urls \cup Failed) <= Cardinality(Urls) + Cardinality(Failed)
    BY <1>4, <1>5, UnionIsFew
  <2>3. Cardinality(Urls \cup Failed) \in Nat
    BY <2>2, FS_CardinalityType
  <2> QED
    BY <1>4, <1>5, <2>1, <2>2, <2>3
<1>7. /\ IsFiniteSet(Cached \cup (Urls \cup Failed))
      /\ Cardinality(Cached \cup (Urls \cup Failed)) <= 3 + 2 * Cardinality(Request)
  <2>1. /\ Cardinality(Request) \in Nat /\ Cardinality(Cached) \in Nat
        /\ Cardinality(Urls \cup Failed) \in Nat
    BY <1>1, <1>3, <1>6, FS_CardinalityType
  <2>2. /\ IsFiniteSet(Cached \cup (Urls \cup Failed))
        /\ Cardinality(Cached \cup (Urls \cup Failed))
             <= Cardinality(Cached) + Cardinality(Urls \cup Failed)
    BY <1>3, <1>6, UnionIsFew
  <2>3. Cardinality(Cached \cup (Urls \cup Failed)) \in Nat
    BY <2>2, FS_CardinalityType
  <2> QED
    BY <1>3, <1>6, <2>1, <2>2, <2>3
<1>8. Held = Cached \cup (Urls \cup Failed)
  BY DEF Held, Cached, Urls, Failed
<1> QED
  BY <1>7, <1>8

LEMMA FreshIsFree ==
  ASSUME Shape
  PROVE  Fresh \in Url /\ Fresh \notin Held
<1>1. ~(Url \subseteq Held)
  BY HeldIsFew, FS_Subset, FS_CardinalityType, StreamUrlsAssumption
<1> QED
  BY <1>1 DEF Fresh

LEMMA FreshIsNobodys ==
  ASSUME Shape
  PROVE  /\ Fresh \in Url /\ Fresh # NoUrl
         /\ \A k \in Cache : cache[k] # Fresh
         /\ \A r \in Request : req[r].url # Fresh /\ req[r].failed # Fresh
BY FreshIsFree, StreamUrlsAssumption DEF Held

-----------------------------------------------------------------------------
(* What a step may do to requests and caches.                               *)

\* Caches are left alone or emptied.
LEMMA NothingNewKeeps ==
  ASSUME StreamsInv, Shape',
         \A k \in Cache : cache'[k] = cache[k] \/ cache'[k] = NoUrl,
         \A r \in Request : \/ req'[r] = req[r]
                            \/ Sound(req'[r]) /\ Linked(req'[r], cache'),
         \A r \in Request : req'[r].pc = "shared" => flight'
  PROVE  StreamsInv'
<1>1. OneCache'
  BY DEF StreamsInv, OneCache
<1>2. \A r \in Request : Linked(req[r], cache')
  BY DEF StreamsInv, Linked
<1>3. \A r \in Request : Sound(req'[r]) /\ Linked(req'[r], cache')
  BY <1>2 DEF StreamsInv
<1> QED
  BY <1>1, <1>3 DEF StreamsInv, Sound, Linked

\* A URL nobody holds is cached, and held by those who waited for it.
LEMMA NewUrlKeeps ==
  ASSUME StreamsInv, Shape', NEW c \in Cache,
         cache' = [cache EXCEPT ![c] = Fresh],
         \A r \in Request : \/ req'[r] = req[r]
                            \/ /\ req'[r].pc = "open" /\ req'[r].url = Fresh
                               /\ req'[r].failed = req[r].failed
                               /\ Store(req'[r].kind) = c,
         \A r \in Request : req'[r].pc = "shared" => flight'
  PROVE  StreamsInv'
<1>1. /\ Shape /\ Fresh \in Url /\ Fresh # NoUrl
      /\ \A k \in Cache : cache[k] # Fresh
      /\ \A r \in Request : req[r].url # Fresh /\ req[r].failed # Fresh
  BY FreshIsNobodys DEF StreamsInv
<1>2. \A k \in Cache : cache'[k] = IF k = c THEN Fresh ELSE cache[k]
  BY <1>1 DEF Shape
<1>3. OneCache'
  BY <1>1, <1>2 DEF StreamsInv, OneCache
<1>4. ASSUME NEW r \in Request PROVE Sound(req'[r]) /\ Linked(req'[r], cache')
  <2>1. CASE req'[r] = req[r]
    BY <2>1, <1>1, <1>2 DEF StreamsInv, Linked
  <2>2. CASE req'[r] # req[r]
    <3>1. Sound(req'[r])
      BY <2>2, <1>1 DEF Sound
    <3>2. \A k \in Cache : k # c => cache'[k] # req'[r].url
      BY <2>2, <1>1, <1>2
    <3>3. \A k \in Cache : cache'[k] # NoUrl => cache'[k] # req'[r].failed
      BY <2>2, <1>1, <1>2 DEF StreamsInv, Linked
    <3> QED
      BY <2>2, <3>1, <3>2, <3>3 DEF Linked
  <2> QED
    BY <2>1, <2>2
<1> QED
  BY <1>3, <1>4 DEF StreamsInv, Sound, Linked

\* One request moves, to a state that is in order.
LEMMA OneMoves ==
  ASSUME StreamsInv, NEW r \in Request, NEW q \in Asked,
         req' = [req EXCEPT ![r] = q],
         cache' \in [Cache -> Url \cup {NoUrl}],
         \A k \in Cache : cache'[k] = cache[k] \/ cache'[k] = NoUrl,
         dead' \subseteq Url, flight => flight',
         Sound(q), Linked(q, cache'), q.pc = "shared" => flight'
  PROVE  StreamsInv'
<1>1. Shape'
  BY DEF StreamsInv, Shape
<1>2. \A s \in Request : req'[s] = IF s = r THEN q ELSE req[s]
  BY DEF StreamsInv, Shape
<1>3. \A s \in Request : req'[s].pc = "shared" => flight'
  BY <1>2 DEF StreamsInv
<1> QED
  BY <1>1, <1>2, <1>3, NothingNewKeeps

LEMMA IdleIsInOrder == Idle \in Asked /\ Sound(Idle)
BY DEF Idle, Asked, Pc, Kind, Sound

LEMMA IdleIsLinked ==
  ASSUME NEW c PROVE Linked(Idle, c)
BY DEF Linked, Idle

\* One request ends.
LEMMA OneFinishes ==
  ASSUME StreamsInv, NEW r \in Request, Finish(r),
         cache' \in [Cache -> Url \cup {NoUrl}],
         \A k \in Cache : cache'[k] = cache[k] \/ cache'[k] = NoUrl,
         dead' \subseteq Url, flight => flight'
  PROVE  StreamsInv'
BY OneMoves, IdleIsInOrder, IdleIsLinked DEF Finish, Idle

\* One request goes on with the same URLs, to where nothing is read from one.
LEMMA OneGoesOn ==
  ASSUME StreamsInv, NEW r \in Request, req[r].pc # "idle",
         NEW pc \in {"check", "resolve", "note"}, Goes(r, pc),
         cache' = cache, dead' = dead, flight' = flight
  PROVE  StreamsInv'
<1> DEFINE q == [req[r] EXCEPT !.pc = pc]
<1>1. q \in Asked /\ Sound(q) /\ Linked(q, cache) /\ q.pc # "shared"
  BY DEF StreamsInv, Shape, Asked, Pc, Sound, Linked
<1>2. req' = [req EXCEPT ![r] = q]
  BY DEF Goes
<1> HIDE DEF q
<1> QED
  BY <1>1, <1>2, OneMoves DEF StreamsInv, Shape

-----------------------------------------------------------------------------
(* Each step of the service.                                                *)
LEMMA InitIsInOrder ==
  ASSUME Init PROVE StreamsInv
<1>1. Shape
  BY IdleIsInOrder DEF Init, Shape
<1>2. OneCache
  BY DEF Init, OneCache
<1>3. \A r \in Request : Sound(req[r]) /\ Linked(req[r], cache)
  BY IdleIsInOrder, IdleIsLinked DEF Init
<1>4. \A r \in Request : req[r].pc # "shared"
  BY DEF Init, Idle
<1> QED
  BY <1>1, <1>2, <1>3, <1>4 DEF StreamsInv

LEMMA ArriveKeeps ==
  ASSUME StreamsInv, NEW r \in Request, NEW kind \in Kind, Arrive(r, kind)
  PROVE  StreamsInv'
<1> DEFINE q == [Idle EXCEPT !.kind = kind, !.pc = "look"]
<1>1. /\ cache' = cache /\ dead' = dead /\ flight' = flight
      /\ cache \in [Cache -> Url \cup {NoUrl}] /\ dead \subseteq Url
  BY DEF Arrive, upstream, StreamsInv, Shape
<1>2. q \in Asked /\ Sound(q) /\ Linked(q, cache) /\ q.pc # "shared"
  BY DEF Asked, Pc, Kind, Sound, Linked, Idle
<1>3. req' = [req EXCEPT ![r] = q] \/ Finish(r)
  BY DEF Arrive, Passes
<1> HIDE DEF q
<1>4. CASE Finish(r)
  BY <1>1, <1>4, OneFinishes
<1> QED
  BY <1>1, <1>2, <1>3, <1>4, OneMoves

LEMMA CheckRefusalKeeps ==
  ASSUME StreamsInv, NEW r \in Request, CheckRefusal(r) PROVE StreamsInv'
<1>1. /\ cache' = cache /\ dead' = dead /\ flight' = flight
      /\ cache \in [Cache -> Url \cup {NoUrl}] /\ dead \subseteq Url
  BY DEF CheckRefusal, upstream, StreamsInv, Shape
<1>2. CASE Goes(r, "resolve")
  BY <1>1, <1>2, OneGoesOn DEF CheckRefusal, At
<1>3. CASE Finish(r)
  BY <1>1, <1>3, OneFinishes
<1> QED
  BY <1>2, <1>3 DEF CheckRefusal, Passes

LEMMA HitKeeps ==
  ASSUME StreamsInv, NEW r \in Request, Hit(r) PROVE StreamsInv'
<1> DEFINE q == Given(r, cache[MyStore(r)])
<1>1. /\ cache' = cache /\ dead' = dead /\ flight' = flight
      /\ req' = [req EXCEPT ![r] = q] /\ cache[MyStore(r)] # NoUrl
  BY DEF Hit, bounds, upstream
<1>2. MyStore(r) \in Cache
  BY DEF StreamsInv, Shape, Asked, MyStore, Store, Kind, Ladder, Cache
<1>3. q \in Asked
  BY <1>2 DEF StreamsInv, Shape, Asked, Given, Pc
<1>4. Sound(q)
  BY <1>1, <1>2 DEF StreamsInv, Shape, Asked, Given, Sound, Linked
<1>5. Linked(q, cache)
  BY <1>1, <1>2 DEF StreamsInv, Shape, Asked, Given, Linked, OneCache, MyStore
<1>6. q.pc # "shared"
  BY DEF Given, StreamsInv, Shape, Asked
<1> HIDE DEF q
<1> QED
  BY <1>1, <1>3, <1>4, <1>5, <1>6, OneMoves DEF StreamsInv, Shape

LEMMA MissKeeps ==
  ASSUME StreamsInv, NEW r \in Request, Miss(r) PROVE StreamsInv'
<1>1. cache' = cache /\ dead' = dead /\ req[r].pc = "look"
  BY DEF Miss, upstream, At
<1>2. CASE req[r].kind \in Ladder
  <2> DEFINE q == [req[r] EXCEPT !.pc = "shared"]
  <2>1. req' = [req EXCEPT ![r] = q] /\ flight'
    BY <1>2 DEF Miss, Join, Goes, Ladder
  <2>2. q \in Asked /\ Sound(q) /\ Linked(q, cache)
    BY <1>1, <1>2 DEF StreamsInv, Shape, Asked, Pc, Sound, Linked
  <2> HIDE DEF q
  <2> QED
    BY <1>1, <2>1, <2>2, OneMoves DEF StreamsInv, Shape
<1>3. CASE req[r].kind \notin Ladder
  <2>1. (Goes(r, "resolve") \/ Goes(r, "check")) /\ flight' = flight
    BY <1>3 DEF Miss, StreamsInv, Shape, Asked, Kind, Ladder
  <2> QED
    BY <1>1, <2>1, OneGoesOn
<1> QED
  BY <1>2, <1>3

LEMMA FlightEndsKeeps ==
  ASSUME StreamsInv, FlightEnds PROVE StreamsInv'
<1> DEFINE Told(to) == req' = [r \in Request |-> IF At(r, "shared") THEN to[r] ELSE req[r]]
<1>1. CASE /\ cache' = [cache EXCEPT !["hls"] = Fresh] /\ dead' = dead \ {Fresh}
           /\ Told([r \in Request |-> Given(r, Fresh)])
  <2>1. Fresh \in Url
    BY FreshIsNobodys DEF StreamsInv
  <2>2. ASSUME NEW r \in Request, At(r, "shared")
        PROVE  /\ req'[r] \in Asked /\ req'[r].pc = "open" /\ req'[r].url = Fresh
               /\ req'[r].failed = req[r].failed /\ Store(req'[r].kind) = "hls"
    BY <1>1, <2>1, <2>2 DEF Given, StreamsInv, Shape, Asked, Pc, Sound, Store, At
  <2>3. \A r \in Request : ~At(r, "shared") => req'[r] = req[r]
    BY <1>1
  <2>4. Shape'
    BY <1>1, <2>1, <2>2, <2>3 DEF StreamsInv, Shape, Cache
  <2>5. \A r \in Request : req'[r].pc # "shared"
    BY <2>2, <2>3 DEF At
  <2>6. "hls" \in Cache
    BY DEF Cache
  <2> QED
    BY <1>1, <2>2, <2>3, <2>4, <2>5, <2>6, NewUrlKeeps
<1>2. CASE /\ cache' = cache /\ dead' = dead
           /\ Told([r \in Request |-> [req[r] EXCEPT !.pc = "note"]])
  <2>1. ASSUME NEW r \in Request, At(r, "shared")
        PROVE  /\ req'[r] \in Asked /\ Sound(req'[r]) /\ Linked(req'[r], cache)
               /\ req'[r].pc # "shared"
    BY <1>2, <2>1 DEF StreamsInv, Shape, Asked, Pc, Sound, Linked
  <2>2. \A r \in Request : ~At(r, "shared") => req'[r] = req[r]
    BY <1>2
  <2>3. Shape'
    BY <1>2, <2>1, <2>2 DEF StreamsInv, Shape
  <2> QED
    BY <1>2, <2>1, <2>2, <2>3, NothingNewKeeps DEF At
<1>3. CASE cache' = cache /\ dead' = dead /\ Told([r \in Request |-> Idle])
  <2>1. \A r \in Request : At(r, "shared") => req'[r] = Idle
    BY <1>3
  <2>2. \A r \in Request : ~At(r, "shared") => req'[r] = req[r]
    BY <1>3
  <2>3. Shape'
    BY <1>3, <2>1, <2>2, IdleIsInOrder DEF StreamsInv, Shape
  <2>4. Idle.pc # "shared"
    BY DEF Idle
  <2> QED
    BY <1>3, <2>1, <2>2, <2>3, <2>4, IdleIsInOrder, IdleIsLinked, NothingNewKeeps DEF At
<1> QED
  BY <1>1, <1>2, <1>3 DEF FlightEnds

LEMMA ResolveEndsKeeps ==
  ASSUME StreamsInv, NEW r \in Request, ResolveEnds(r) PROVE StreamsInv'
<1>1. flight' = flight /\ req[r].pc = "resolve" /\ cache \in [Cache -> Url \cup {NoUrl}]
  BY DEF ResolveEnds, At, StreamsInv, Shape
<1>2. CASE /\ req' = [req EXCEPT ![r] = Given(r, Fresh)]
           /\ cache' = [cache EXCEPT ![MyStore(r)] = Fresh] /\ dead' = dead \ {Fresh}
  <2>1. Fresh \in Url
    BY FreshIsNobodys DEF StreamsInv
  <2>2. MyStore(r) \in Cache
    BY DEF StreamsInv, Shape, Asked, MyStore, Store, Kind, Ladder, Cache
  <2>3. /\ Given(r, Fresh) \in Asked
        /\ Given(r, Fresh).pc = "open" /\ Given(r, Fresh).url = Fresh
        /\ Given(r, Fresh).failed = req[r].failed
        /\ Store(Given(r, Fresh).kind) = MyStore(r)
    BY <2>1 DEF Given, StreamsInv, Shape, Asked, Pc, MyStore
  <2>4. \A s \in Request : req'[s] = IF s = r THEN Given(r, Fresh) ELSE req[s]
    BY <1>2 DEF StreamsInv, Shape
  <2>5. Shape'
    BY <1>2, <2>1, <2>2, <2>3, <2>4 DEF StreamsInv, Shape
  <2>6. \A s \in Request : req'[s].pc = "shared" => flight'
    BY <1>1, <2>3, <2>4 DEF StreamsInv
  <2> QED
    BY <1>2, <2>2, <2>3, <2>4, <2>5, <2>6, NewUrlKeeps
<1>3. CASE Finish(r) /\ cache' = cache /\ dead' = dead
  BY <1>1, <1>3, OneFinishes DEF StreamsInv, Shape
<1>4. CASE Goes(r, "note") /\ cache' = cache /\ dead' = dead
  BY <1>1, <1>4, OneGoesOn
<1> QED
  BY <1>2, <1>3, <1>4 DEF ResolveEnds

LEMMA ServedKeeps ==
  ASSUME StreamsInv, NEW r \in Request, Served(r) PROVE StreamsInv'
<1>1. /\ cache' = cache /\ dead' = dead /\ flight' = flight /\ req[r].pc = "open"
      /\ cache \in [Cache -> Url \cup {NoUrl}] /\ dead \subseteq Url
  BY DEF Served, upstream, At, StreamsInv, Shape
<1>2. CASE Goes(r, "copying")
  <2> DEFINE q == [req[r] EXCEPT !.pc = "copying"]
  <2>1. q \in Asked /\ Sound(q) /\ Linked(q, cache) /\ q.pc # "shared"
    BY <1>1 DEF StreamsInv, Shape, Asked, Pc, Sound, Linked
  <2>2. req' = [req EXCEPT ![r] = q]
    BY <1>2 DEF Goes
  <2> HIDE DEF q
  <2> QED
    BY <1>1, <2>1, <2>2, OneMoves
<1>3. CASE Finish(r)
  BY <1>1, <1>3, OneFinishes
<1> QED
  BY <1>2, <1>3 DEF Served

\* It forgets the one cache that can hold the URL it failed on.
LEMMA AsksAgainKeeps ==
  ASSUME StreamsInv, NEW r \in Request, req[r].pc = "open",
         NEW pc \in {"look", "resolve"}, pc = "look" => req[r].kind \notin Ladder,
         Forget(MyStore(r)), AsksAgain(r, pc), dead' = dead, flight' = flight
  PROVE  StreamsInv'
<1> DEFINE q == [req[r] EXCEPT !.pc = pc, !.failed = req[r].url]
<1>1. q \in Asked /\ Sound(q) /\ q.pc # "shared"
  BY DEF StreamsInv, Shape, Asked, Pc, Sound
<1>2. /\ cache' \in [Cache -> Url \cup {NoUrl}]
      /\ \A k \in Cache : cache'[k] = IF k = MyStore(r) THEN NoUrl ELSE cache[k]
  BY DEF Forget, StreamsInv, Shape
<1>3. Linked(q, cache')
  BY <1>2 DEF StreamsInv, Shape, Asked, Linked, MyStore
<1>4. req' = [req EXCEPT ![r] = q]
  BY DEF AsksAgain
<1> HIDE DEF q
<1> QED
  BY <1>1, <1>2, <1>3, <1>4, OneMoves DEF StreamsInv, Shape

LEMMA ForgetsOnly ==
  ASSUME StreamsInv, NEW k \in Cache, Forget(k)
  PROVE  /\ cache' \in [Cache -> Url \cup {NoUrl}]
         /\ \A l \in Cache : cache'[l] = cache[l] \/ cache'[l] = NoUrl
BY DEF Forget, StreamsInv, Shape

LEMMA OpenRefusedKeeps ==
  ASSUME StreamsInv, NEW r \in Request, OpenRefused(r) PROVE StreamsInv'
<1>1. /\ flight' = flight /\ dead' = dead /\ req[r].pc = "open"
      /\ cache \in [Cache -> Url \cup {NoUrl}] /\ dead \subseteq Url
  BY DEF OpenRefused, upstream, At, StreamsInv, Shape
<1>2. CASE Finish(r) /\ cache' = cache
  BY <1>1, <1>2, OneFinishes
<1>3. CASE req[r].kind = "segment" /\ Forget("hls") /\ AsksAgain(r, "resolve")
  <2>1. MyStore(r) = "hls"
    BY <1>3 DEF MyStore, Store, Ladder
  <2> QED
    BY <1>1, <1>3, <2>1, AsksAgainKeeps
<1>4. CASE Forget("hls") /\ Finish(r)
  <2>1. "hls" \in Cache
    BY DEF Cache
  <2> QED
    BY <1>1, <1>4, <2>1, ForgetsOnly, OneFinishes
<1>5. CASE /\ req[r].kind \in {"mux", "start", "instant"}
           /\ Forget(MyStore(r)) /\ AsksAgain(r, "look")
  <2>1. req[r].kind \notin Ladder
    BY <1>5 DEF Ladder
  <2> QED
    BY <1>1, <1>5, <2>1, AsksAgainKeeps
<1> QED
  BY <1>2, <1>3, <1>4, <1>5 DEF OpenRefused, SegmentRefused

LEMMA CopyEndsKeeps ==
  ASSUME StreamsInv, NEW r \in Request, CopyEnds(r) PROVE StreamsInv'
<1>1. /\ flight' = flight /\ dead' = dead /\ Finish(r)
      /\ cache \in [Cache -> Url \cup {NoUrl}] /\ dead \subseteq Url
  BY DEF CopyEnds, upstream, StreamsInv, Shape
<1>2. CASE Forget("mux")
  <2>1. "mux" \in Cache
    BY DEF Cache
  <2> QED
    BY <1>1, <1>2, <2>1, ForgetsOnly, OneFinishes
<1>3. CASE cache' = cache
  BY <1>1, <1>3, OneFinishes
<1> QED
  BY <1>2, <1>3 DEF CopyEnds

LEMMA HandlesKeeps ==
  ASSUME StreamsInv, NEW r \in Request, Handles(r) PROVE StreamsInv'
<1>1. CASE NoteUpstreamFailure(r)
  BY <1>1, OneFinishes DEF NoteUpstreamFailure, upstream, StreamsInv, Shape
<1> QED
  BY <1>1, CheckRefusalKeeps, HitKeeps, MissKeeps, ResolveEndsKeeps, ServedKeeps,
     OpenRefusedKeeps, CopyEndsKeeps DEF Handles

\* Nobody's request moves.
LEMMA CachesOnlyKeeps ==
  ASSUME StreamsInv, req' = req, flight' = flight, dead' \subseteq Url,
         cache' \in [Cache -> Url \cup {NoUrl}],
         \A k \in Cache : cache'[k] = cache[k] \/ cache'[k] = NoUrl
  PROVE  StreamsInv'
<1>1. Shape'
  BY DEF StreamsInv, Shape
<1> QED
  BY <1>1, NothingNewKeeps DEF StreamsInv

LEMMA CrashKeeps ==
  ASSUME StreamsInv, Crash PROVE StreamsInv'
<1>1. \A r \in Request : req'[r] = Idle
  BY DEF Crash
<1>2. Shape'
  BY IdleIsInOrder DEF Crash, upstream, StreamsInv, Shape
<1>3. \A k \in Cache : cache'[k] = NoUrl
  BY DEF Crash
<1>4. Idle.pc # "shared"
  BY DEF Idle
<1> QED
  BY <1>1, <1>2, <1>3, <1>4, IdleIsInOrder, IdleIsLinked, NothingNewKeeps

LEMMA StepKeeps ==
  ASSUME StreamsInv, [Next]_vars PROVE StreamsInv'
<1>1. cache \in [Cache -> Url \cup {NoUrl}] /\ dead \subseteq Url
  BY DEF StreamsInv, Shape
<1>2. CASE CooldownEnds
  BY <1>1, <1>2, CachesOnlyKeeps DEF CooldownEnds, upstream
<1>3. CASE UpstreamRefuses
  BY <1>1, <1>3, CachesOnlyKeeps DEF UpstreamRefuses
<1>4. CASE RefusalLifted
  BY <1>1, <1>4, CachesOnlyKeeps DEF RefusalLifted
<1>5. ASSUME NEW k \in Cache, Lapses(k) PROVE StreamsInv'
  BY <1>1, <1>5, ForgetsOnly, CachesOnlyKeeps DEF Lapses, upstream
<1>6. ASSUME NEW u \in Url, Dies(u) PROVE StreamsInv'
  BY <1>1, <1>6, CachesOnlyKeeps DEF Dies
<1>7. CASE UNCHANGED vars
  BY <1>1, <1>7, CachesOnlyKeeps DEF vars, upstream
<1> QED
  BY <1>2, <1>3, <1>4, <1>5, <1>6, <1>7, HandlesKeeps, ArriveKeeps, FlightEndsKeeps,
     CrashKeeps DEF Next

-----------------------------------------------------------------------------
LEMMA StreamsAreInOrder == Spec => []StreamsInv
<1>1. StreamsInv /\ [Next]_vars => StreamsInv'
  BY StepKeeps
<1> QED
  BY <1>1, InitIsInOrder, PTL DEF Spec

\* The requests and caches are well formed, for any number of requests.
THEOREM StreamsAreTyped == Spec => []StreamsTypeOK
<1>1. StreamsInv => StreamsTypeOK
  BY DEF StreamsInv, Shape, Asked, Sound, StreamsTypeOK, At
<1> QED
  BY <1>1, StreamsAreInOrder, PTL

\* Nobody reads again from the URL it was refused on (remux.go:236, audio.go's
\* read, fetchInstant), for any number of requests at once.
THEOREM RetriesAreOnAnother == Spec => []RetriesOnAnother
<1>1. StreamsInv => RetriesOnAnother
  BY DEF StreamsInv, Sound, RetriesOnAnother
<1> QED
  BY <1>1, StreamsAreInOrder, PTL
=============================================================================
