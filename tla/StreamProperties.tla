--------------------------- MODULE StreamProperties ---------------------------
(* What the caches of signed URLs keep.                                     *)
EXTENDS StreamUrls

\* Whoever reads upstream holds a URL, a shared run is on while somebody waits
\* for it, and nobody remembers a failure before meeting one.
StreamsTypeOK ==
  /\ cache \in [Cache -> Url \cup {NoUrl}]
  /\ dead \subseteq Url
  /\ \A r \in Request :
       /\ req[r].kind \in Kind
       /\ req[r].url \in Url \cup {NoUrl} /\ req[r].failed \in Url \cup {NoUrl}
       /\ req[r].pc \in {"open", "copying"} => req[r].url # NoUrl
       /\ req[r].pc = "shared" => flight
       /\ req[r].pc \in {"idle", "shared"} => req[r].failed = NoUrl

\* A request that was refused on a URL and asks again, of the cache or of
\* upstream, does not get that URL back, whatever other requests put there
\* meanwhile (remux.go:236, audio.go, gateway's fetchInstant with refresh).
RetriesOnAnother ==
  \A r \in Request : req[r].pc \in {"open", "copying"} => req[r].url # req[r].failed

\* A URL that died before its time does not stay in a cache while people go on
\* watching, cooldown or not, unless the video is refused altogether.
DeadUrlIsReplaced ==
  \A k \in Cache : cache[k] \in dead ~> cache[k] \notin dead \/ refusal
=============================================================================
