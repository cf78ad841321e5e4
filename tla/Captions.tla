------------------------------ MODULE Captions ------------------------------
(***************************************************************************)
(* Caption fetches in the ingest service (usecase/subtitles.go, and the     *)
(* subtitle_retries table).  Three callers run the same fetch: the request  *)
(* that starts playback, in the background; the download worker; and the    *)
(* sweep, for a video upstream refused earlier.  They share one claim per   *)
(* video, held in the process's memory.                                     *)
(***************************************************************************)
EXTENDS CatalogMedia

CONSTANT Caller    \* who may run a fetch

VARIABLES
  claims,     \* subtitleFetches.running: videos some caller has claimed
  fetches,    \* the fetches under way
  retries,    \* subtitle_retries: is there a row, has its wait elapsed
  onDisk,     \* videos whose .vtt files are in the media folder
  published   \* videos whose tracks the catalog lists

captionVars == <<claims, fetches, retries, onDisk, published>>

Fetch == [by : Caller, url : Url, stage : {"asking", "publishing"}]

CaptionsInit ==
  /\ claims = {}
  /\ fetches = {}
  /\ retries = [u \in Url |-> "no"]
  /\ onDisk = {}
  /\ published = {}

-----------------------------------------------------------------------------
\* Variant: nobody looks whether the video is claimed.
BeginUnclaimed(c, u) ==
  /\ claims' = claims \cup {u}
  /\ fetches' = fetches \cup {[by |-> c, url |-> u, stage |-> "asking"]}

(* begin: the caller that finds the video claimed does nothing at all.      *)
Begin(c, u) ==
  IF u \in claims
  THEN UNCHANGED <<claims, fetches>>
  ELSE /\ claims' = claims \cup {u}
       /\ fetches' = fetches \cup {[by |-> c, url |-> u, stage |-> "asking"]}

\* Variant: the claim outlives the fetch.
EndKeepsClaim(f) ==
  /\ fetches' = fetches \ {f}
  /\ UNCHANGED claims

\* done, deferred by every caller
End(f) ==
  /\ fetches' = fetches \ {f}
  /\ claims' = claims \ {f.url}

Asking(f) == f \in fetches /\ f.stage = "asking"

\* Upstream refused both passes: remembered, for the sweep to ask again.
FetchRefused(f) ==
  /\ Asking(f)
  /\ f.url \notin onDisk
  /\ retries' = [retries EXCEPT ![f.url] = "waiting"]
  /\ End(f)
  /\ UNCHANGED <<onDisk, published, media>>

\* No captions upstream, or already on disk: forgotten, nothing published.
FetchEmpty(f) ==
  /\ Asking(f)
  /\ retries' = [retries EXCEPT ![f.url] = "no"]
  /\ End(f)
  /\ UNCHANGED <<onDisk, published, media>>

\* Tracks were moved into the folder; the retry row goes before the publish.
FetchLands(f) ==
  /\ Asking(f)
  /\ f.url \notin onDisk
  /\ onDisk' = onDisk \cup {f.url}
  /\ retries' = [retries EXCEPT ![f.url] = "no"]
  /\ fetches' = (fetches \ {f}) \cup {[f EXCEPT !.stage = "publishing"]}
  /\ UNCHANGED <<claims, published, media>>

\* SetMediaState with the tracks.
Publish(f) ==
  /\ f \in fetches
  /\ f.stage = "publishing"
  /\ SetMediaState(f.url, "DOWNLOADING")
  /\ published' = published \cup {f.url}
  /\ End(f)
  /\ UNCHANGED <<retries, onDisk>>

\* Its error is logged, and that is all.
PublishErrs(f) ==
  /\ f \in fetches
  /\ f.stage = "publishing"
  /\ End(f)
  /\ UNCHANGED <<retries, onDisk, published, media>>

\* The fetch ends as above, but its refusal is not written down, or the row of
\* an earlier one is not cleared: that error is logged too.
FetchUnrecorded(f) ==
  /\ Asking(f)
  /\ \/ End(f) /\ UNCHANGED onDisk
     \/ /\ f.url \notin onDisk
        /\ onDisk' = onDisk \cup {f.url}
        /\ fetches' = (fetches \ {f}) \cup {[f EXCEPT !.stage = "publishing"]}
        /\ UNCHANGED claims
  /\ UNCHANGED <<retries, published, media>>

\* The background fetch's own three minute context ran out.  What its passes
\* had written may still be moved into the folder; the statements that follow
\* run under the same dead context and change nothing.
FetchTimesOut(f) ==
  /\ f \in fetches
  /\ onDisk' \in {onDisk, onDisk \cup {f.url}}
  /\ End(f)
  /\ UNCHANGED <<retries, published, media>>

\* The wait this row has earned is over: DueSubtitleRetry will pick it.
RetryWaitElapses(u) ==
  /\ retries[u] = "waiting"
  /\ retries' = [retries EXCEPT ![u] = "due"]
  /\ UNCHANGED <<claims, fetches, onDisk, published, media>>

\* Leaving the watch page forgets the retry, not the fetch.
ClearSubtitleRetry(u) ==
  /\ retries' = [retries EXCEPT ![u] = "no"]
  /\ UNCHANGED <<claims, fetches, onDisk, published>>

-----------------------------------------------------------------------------
(* Two fetches of one video never run at once, whoever asked, and a claim   *)
(* is held exactly as long as its fetch: two would move each other's files  *)
(* and publish two different lists (subtitles.go:84-95).                    *)
OneFetchPerVideo ==
  /\ \A f, g \in fetches : f.url = g.url => f = g
  /\ claims = {f.url : f \in fetches}
=============================================================================
