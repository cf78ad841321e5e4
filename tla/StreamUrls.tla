------------------------------ MODULE StreamUrls ------------------------------
(***************************************************************************)
(* The signed URLs of one video that is played before it is on disk: three  *)
(* caches of the ingest service (ING/adapter/httpapi, ING/usecase) filled   *)
(* and emptied by the requests of players and speakers, at one height.      *)
(*                                                                          *)
(* A call upstream ends in a step of its own, and requests interleave       *)
(* between the locks they take; an answer is cached in the step in which it *)
(* arrives, since nobody else knows of it before.  A URL past its time      *)
(* is one no longer cached, names are used again once nobody holds them,    *)
(* and one URL stands for the URLs of a ladder or a mux.  Ranges, codecs,   *)
(* offsets and bytes are left out.                                          *)
(***************************************************************************)
EXTENDS Integers, FiniteSets

CONSTANTS
  Request,      \* what may be under way at once
  Url,          \* names of signed URLs: more than can be held at once
  NoUrl,
  Together,     \* bound: which kinds of request meet in one behaviour
  MaxDeaths,    \* bound: URLs that die before their time, videos refused
  MaxFaults     \* bound: calls that fail, asking requests that leave, crashes,
                \* lapses, refusals lifted

\* The ladder's playlists (the master is one that reads nothing), its segments
\* and its sound, read the same way; the muxed stream and where it starts; the
\* progressive file, which the gateway fetches.
Kind   == {"playlist", "segment", "mux", "start", "instant"}
Ladder == {"playlist", "segment"}
Cache  == {"hls", "mux", "instant"}

Store(kind) == IF kind \in Ladder THEN "hls" ELSE IF kind = "start" THEN "mux" ELSE kind

ASSUME StreamUrlsAssumption ==
  /\ IsFiniteSet(Request) /\ IsFiniteSet(Url)
  /\ Cardinality(Url) > 3 + 2 * Cardinality(Request)
  /\ NoUrl \notin Url /\ Together \subseteq SUBSET Kind
  /\ MaxDeaths \in Nat /\ MaxFaults \in Nat

VARIABLES
  cache,      \* hlsCache, cachedRemuxURLs, resolveCache: the entry of the video
  cooling,    \* hlsCache.resolvedAt is less than resolveCooldown ago
  flight,     \* Handler.resolving: a shared resolve is running
  req,        \* what each request is at, and which URLs it holds
  refusal,    \* unavailable_sources has a row
  refuses,    \* upstream has refused the video for good
  dead,       \* signed URLs that are refused
  kinds,      \* bound: what is asked for in this behaviour
  deaths, faults

upstream == <<refuses, dead>>
bounds   == <<kinds, deaths, faults>>
vars     == <<cache, cooling, flight, req, refusal, upstream, bounds>>

Idle == [pc |-> "idle", kind |-> "playlist", url |-> NoUrl, failed |-> NoUrl]

Init ==
  /\ cache = [k \in Cache |-> NoUrl]
  /\ cooling = FALSE /\ flight = FALSE
  /\ req = [r \in Request |-> Idle]
  /\ refusal = FALSE /\ refuses = FALSE /\ dead = {}
  /\ kinds \in Together /\ deaths = 0 /\ faults = 0

Fault == faults < MaxFaults /\ faults' = faults + 1

At(r, pc)      == req[r].pc = pc
Goes(r, pc)    == req' = [req EXCEPT ![r].pc = pc]
Finish(r)      == req' = [req EXCEPT ![r] = Idle]
Retrying(r)    == req[r].failed # NoUrl
MyStore(r)     == Store(req[r].kind)

Held  == {cache[k] : k \in Cache} \cup UNION {{req[r].url, req[r].failed} : r \in Request}
Fresh == CHOOSE u \in Url : u \notin Held

-----------------------------------------------------------------------------
(* A request.                                                               *)

\* A record that cannot be read is no refusal.
Passes(r, next) ==
  \/ ~refusal /\ next /\ UNCHANGED faults
  \/ refusal /\ Finish(r) /\ UNCHANGED faults
  \/ refusal /\ Fault /\ next

\* /start asks without looking at what has been refused, and ResolveStream
\* looks after its cache.
Arrive(r, kind) ==
  /\ At(r, "idle") /\ kind \in kinds
  /\ LET begins == req' = [req EXCEPT ![r] = [Idle EXCEPT !.kind = kind, !.pc = "look"]]
     IN  IF kind \in {"start", "instant"} THEN begins /\ UNCHANGED faults
         ELSE Passes(r, begins)
  /\ UNCHANGED <<cache, cooling, flight, refusal, upstream, kinds, deaths>>

CheckRefusal(r) ==
  /\ At(r, "check")
  /\ Passes(r, Goes(r, "resolve"))
  /\ UNCHANGED <<cache, cooling, flight, refusal, upstream, kinds, deaths>>

Given(r, u) == [req[r] EXCEPT !.url = u, !.pc = "open"]

Hit(r) ==
  /\ At(r, "look") /\ cache[MyStore(r)] # NoUrl
  /\ req' = [req EXCEPT ![r] = Given(r, cache[MyStore(r)])]
  /\ UNCHANGED <<cache, cooling, flight, refusal, upstream, bounds>>

\* Variant: whoever comes second has nobody to wait for.
JoinUnshared(r) == Goes(r, "shared") /\ UNCHANGED flight

\* resolveOnce, for the ladder: one run, whoever comes waits for its answer.
Join(r) ==
  /\ Goes(r, "shared")
  /\ flight' = TRUE

Miss(r) ==
  /\ At(r, "look") /\ cache[MyStore(r)] = NoUrl
  /\ CASE req[r].kind \in Ladder          -> Join(r)
       [] req[r].kind \in {"mux", "start"} -> Goes(r, "resolve") /\ UNCHANGED flight
       [] req[r].kind = "instant"          -> Goes(r, "check") /\ UNCHANGED flight
  /\ UNCHANGED <<cache, cooling, refusal, upstream, bounds>>

\* The shared run goes on when whoever began it leaves, and ends after
\* resolveTimeout.  Its answer is cached before anybody has it.
FlightEnds ==
  /\ flight /\ flight' = FALSE
  /\ LET Answer(to) == req' = [r \in Request |-> IF At(r, "shared") THEN to[r] ELSE req[r]]
     IN  \/ /\ ~refuses
            /\ cache' = [cache EXCEPT !["hls"] = Fresh]
            /\ dead' = dead \ {Fresh}
            /\ Answer([r \in Request |-> Given(r, Fresh)])
            /\ UNCHANGED faults
         \/ /\ refuses
            /\ Answer([r \in Request |-> [req[r] EXCEPT !.pc = "note"]])
            /\ UNCHANGED <<cache, dead, faults>>
         \/ /\ Fault
            /\ Answer([r \in Request |-> Idle])
            /\ UNCHANGED <<cache, dead>>
  /\ UNCHANGED <<cooling, refusal, refuses, kinds, deaths>>

\* A run of one's own ends with the request that asked for it.  Asked again by
\* the media handlers, the refusal is not recorded.
ResolveEnds(r) ==
  /\ At(r, "resolve")
  /\ \/ /\ ~refuses
        /\ req' = [req EXCEPT ![r] = Given(r, Fresh)]
        /\ cache' = [cache EXCEPT ![MyStore(r)] = Fresh]
        /\ dead' = dead \ {Fresh}
        /\ UNCHANGED faults
     \/ /\ refuses
        /\ IF Retrying(r) /\ req[r].kind # "instant" THEN Finish(r) ELSE Goes(r, "note")
        /\ UNCHANGED <<cache, dead, faults>>
     \/ Fault /\ Finish(r) /\ UNCHANGED <<cache, dead>>
  /\ UNCHANGED <<cooling, flight, refusal, refuses, kinds, deaths>>

NoteUpstreamFailure(r) ==
  /\ At(r, "note")
  /\ Finish(r)
  /\ \/ refusal' = TRUE /\ UNCHANGED faults
     \/ Fault /\ UNCHANGED refusal
  /\ UNCHANGED <<cache, cooling, flight, upstream, kinds, deaths>>

\* A mux is copied for as long as it is watched, and the sound is read piece by
\* piece: until it is over, its URL may die.
Served(r) ==
  /\ At(r, "open") /\ req[r].url \notin dead
  /\ IF req[r].kind = "mux" THEN Goes(r, "copying") ELSE Finish(r)
  /\ UNCHANGED <<cache, cooling, flight, refusal, upstream, bounds>>

\* Variant: the dead URL is left in the cache.
ForgetNothing(k) == UNCHANGED cache

\* Whatever is cached by now, not only the URL that failed.
Forget(k) == cache' = [cache EXCEPT ![k] = NoUrl]

\* Once: a request that has retried gives up, as /start does at once.
MayRetry(r) == ~Retrying(r) /\ req[r].kind # "start"

AsksAgain(r, pc) == req' = [req EXCEPT ![r].pc = pc, ![r].failed = req[r].url]

\* Variant: what playlists did is all that was done for the ladder.
SegmentRefusedInVain(r) == Finish(r) /\ UNCHANGED <<cache, cooling>>

\* mayResolve: of the segments refused one wins until the cooldown is over, and
\* resolves the ladder again, beside the shared run.
SegmentRefused(r) ==
  \/ /\ MayRetry(r) /\ ~cooling
     /\ cooling' = TRUE
     /\ Forget("hls") /\ AsksAgain(r, "resolve")
  \/ /\ ~MayRetry(r) \/ cooling
     /\ Finish(r) /\ UNCHANGED <<cache, cooling>>

OpenRefused(r) ==
  /\ At(r, "open") /\ req[r].url \in dead
  /\ \/ req[r].kind = "segment" /\ SegmentRefused(r)
     \/ req[r].kind = "playlist" /\ Forget("hls") /\ Finish(r) /\ UNCHANGED cooling
     \/ /\ req[r].kind \in {"mux", "start", "instant"}
        /\ IF MayRetry(r) THEN Forget(MyStore(r)) /\ AsksAgain(r, "look")
           ELSE Finish(r) /\ UNCHANGED cache
        /\ UNCHANGED cooling
  /\ UNCHANGED <<flight, refusal, upstream, bounds>>

\* What ffmpeg complained about while it copied.
CopyEnds(r) ==
  /\ At(r, "copying")
  /\ Finish(r)
  /\ IF req[r].url \in dead THEN Forget("mux") ELSE UNCHANGED cache
  /\ UNCHANGED <<cooling, flight, refusal, upstream, bounds>>

Handles(r) ==
  \/ CheckRefusal(r) \/ Hit(r) \/ Miss(r) \/ ResolveEnds(r)
  \/ NoteUpstreamFailure(r) \/ Served(r) \/ OpenRefused(r) \/ CopyEnds(r)

-----------------------------------------------------------------------------
(* Time, upstream, and the rest of the service.                             *)

CooldownEnds ==
  /\ cooling /\ cooling' = FALSE
  /\ UNCHANGED <<cache, flight, req, refusal, upstream, bounds>>

Lapses(k) ==
  /\ cache[k] # NoUrl /\ Fault
  /\ Forget(k)
  /\ UNCHANGED <<cooling, flight, req, refusal, upstream, kinds, deaths>>

Dies(u) ==
  /\ u \in Held \ (dead \cup {NoUrl})
  /\ deaths < MaxDeaths /\ deaths' = deaths + 1
  /\ dead' = dead \cup {u}
  /\ UNCHANGED <<cache, cooling, flight, req, refusal, refuses, kinds, faults>>

UpstreamRefuses ==
  /\ ~refuses
  /\ deaths < MaxDeaths /\ deaths' = deaths + 1
  /\ refuses' = TRUE
  /\ UNCHANGED <<cache, cooling, flight, req, refusal, dead, kinds, faults>>

\* RetryJob; upstream may have thought better of it.
RefusalLifted ==
  /\ refusal /\ Fault
  /\ refusal' = FALSE /\ refuses' \in {refuses, FALSE}
  /\ UNCHANGED <<cache, cooling, flight, req, dead, kinds, deaths>>

Crash ==
  /\ Fault
  /\ cache' = [k \in Cache |-> NoUrl] /\ cooling' = FALSE /\ flight' = FALSE
  /\ req' = [r \in Request |-> Idle]
  /\ UNCHANGED <<refusal, upstream, kinds, deaths>>

Next ==
  \/ \E r \in Request : Handles(r) \/ \E kind \in Kind : Arrive(r, kind)
  \/ FlightEnds \/ CooldownEnds \/ UpstreamRefuses \/ RefusalLifted \/ Crash
  \/ \E k \in Cache : Lapses(k)
  \/ \E u \in Url : Dies(u)

Spec == Init /\ [][Next]_vars

\* Every call ends, by its own timeout or its caller's, and people go on
\* watching: one more segment, mux or progressive piece is always asked for.
Fairness ==
  /\ \A r \in Request : WF_vars(Handles(r))
  /\ WF_vars(FlightEnds) /\ WF_vars(CooldownEnds)
  /\ \A kind \in {"segment", "mux", "instant"} : SF_vars(\E r \in Request : Arrive(r, kind))

FairSpec == Spec /\ Fairness
=============================================================================
