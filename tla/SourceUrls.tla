---------------------------- MODULE SourceUrls ----------------------------
(* The source URLs in play.  Every service derives a video's id from its    *)
(* URL (videoIDFromURL and the catalog's own ids), so a URL names a video.  *)
CONSTANT Url
=============================================================================
