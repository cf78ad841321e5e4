---------------------------- MODULE CatalogMedia ----------------------------
(***************************************************************************)
(* The one column of the catalog's videos table that other services write:  *)
(* media_state.  Every URL here has its row: a scan, a search result that   *)
(* was opened (EnsureVideo) or the page that asks for the stream wrote it   *)
(* before anything could be downloaded, and rows are never deleted.         *)
(***************************************************************************)
EXTENDS SourceUrls

VARIABLE media    \* media_state of each video

MediaInit == media = [u \in Url |-> "ABSENT"]

\* UPDATE ... WHERE id = $1: from any state to any state.
SetMediaState(u, s) == media' = [media EXCEPT ![u] = s]

\* The caller gets an error: before the write, or the answer to it was lost.
SetMediaStateErrs(u, s) ==
  \/ UNCHANGED media
  \/ SetMediaState(u, s)

\* ON CONFLICT names every column but this one: the row's own state stands,
\* whichever state the caller asks for.
UpsertVideo(u, s) == UNCHANGED media
=============================================================================
