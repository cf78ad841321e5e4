-------------------------- MODULE DownloadPipeline --------------------------
(***************************************************************************)
(* The ingest process: the download worker, the sweep, the requests that    *)
(* reach it over RPC and the caption fetches, over the jobs table, the      *)
(* catalog's media_state and the caption retries.                           *)
(*                                                                          *)
(* One step is one statement of the jobs schema, together with what the     *)
(* process does in memory or in the catalog next to it; everything that can *)
(* take time (yt-dlp, an RPC, a wait) is between two steps.  A crash may    *)
(* fall between any two.                                                    *)
(***************************************************************************)
EXTENDS JobStore, Captions, FiniteSets

CONSTANTS
  Worker,        \* workers of the process; one is deployed
  NoJob,         \* what an idle worker carries
  Sweeper,       \* the sweep, as a caller of caption fetches
  CaptionAnswers,\* which outcomes upstream gives a caption fetch
  MaxRequests,   \* bound: submits under way at once
  MaxPresses,    \* bound: things users do
  MaxFaults      \* bound: crashes, failed calls, timeouts

ASSUME PipelineAssumption ==
  /\ NoJob \notin Job
  /\ Caller = Worker \cup Url \cup {Sweeper}
  /\ Sweeper \notin Worker \cup Url
  /\ Worker \cap Url = {}
  /\ CaptionAnswers \subseteq {"refused", "none", "landed"}
  /\ MaxRequests \in Nat
  /\ MaxPresses \in Nat
  /\ MaxFaults \in Nat

VARIABLES
  worker,     \* where each worker is in process(), and with which job
  sweep,      \* where the sweep is in its tick
  requests,   \* submits between two of their statements
  reports,    \* refusals recorded, and being told to the catalog
  booting,    \* started, and still reconciling unreported refusals
  watching,   \* videos somebody has open
  presses,    \* how much users have done, for MaxPresses
  faults      \* how much has gone wrong, for MaxFaults

bounds == <<presses, faults>>
processVars == <<worker, sweep, requests, reports, booting>>
vars == <<storeVars, captionVars, media, processVars, watching, presses>>

Transferring == {"transfer", "transferAgain"}

Pc == {"idle", "preview", "refused", "register", "captions", "fetching", "waiting",
       "evict", "fail", "deliver", "finishFailed", "finishSucceeded"} \cup Transferring

\* of: the job somebody pressed Retry on; NoJob where the player asks
Request == [url : Url, of : Job \cup {NoJob}, stage : {"check", "select", "insert", "dismiss"}]

Idle == [pc |-> "idle", job |-> NoJob]

Init ==
  /\ StoreInit
  /\ CaptionsInit
  /\ MediaInit
  /\ worker = [w \in Worker |-> Idle]
  /\ sweep = "idle"
  /\ requests = {}
  /\ reports = {}
  /\ booting = FALSE
  /\ watching = {}
  /\ presses = 0
  /\ faults = 0

UrlOf(w) == jobs[worker[w].job].url
Carries(w, j) == worker[w].job = j

-----------------------------------------------------------------------------
(* The worker: runOnce and process.                                         *)

GoTo(w, pc) == worker' = [worker EXCEPT ![w].pc = pc]
WorkerLeaves == <<sweep, requests, reports, booting, watching, presses>>

ClaimJob(w) ==
  /\ ~booting
  /\ worker[w].pc = "idle"
  /\ \E j \in Job : Claim(j) /\ worker' = [worker EXCEPT ![w] = [pc |-> "preview", job |-> j]]
  /\ UNCHANGED <<captionVars, media, WorkerLeaves>>

\* A permanent refusal is recorded before the job is failed.
PreviewRefused(w) ==
  /\ worker[w].pc = "preview"
  /\ MarkUnavailable(UrlOf(w))
  /\ GoTo(w, "refused")
  /\ UNCHANGED <<captionVars, media, WorkerLeaves>>

\* recordUnavailable's second half: tell the catalog, note that it heard.
ToldCatalog(u) ==
  /\ SetMediaState(u, "UNAVAILABLE")
  /\ \/ MarkUnavailableReported(u)
     \/ refused[u] = "no" /\ UNCHANGED storeVars   \* lifted by a Retry meanwhile

ReportRefused(w) ==
  /\ worker[w].pc = "refused"
  /\ ToldCatalog(UrlOf(w))
  /\ GoTo(w, "finishFailed")
  /\ UNCHANGED <<captionVars, WorkerLeaves>>

\* A temporary failure, no id, or a broadcast still on air.
PreviewFails(w) ==
  /\ worker[w].pc = "preview"
  /\ GoTo(w, "finishFailed")
  /\ UNCHANGED <<storeVars, captionVars, media, WorkerLeaves>>

Resolve(w) ==
  /\ worker[w].pc = "preview"
  /\ MarkResolved(worker[w].job)
  /\ GoTo(w, "register")
  /\ UNCHANGED <<captionVars, media, WorkerLeaves>>

Register(w) ==
  /\ worker[w].pc = "register"
  /\ UpsertVideo(UrlOf(w), "DOWNLOADING")
  /\ GoTo(w, "captions")
  /\ UNCHANGED <<storeVars, captionVars, WorkerLeaves>>

\* fetchSubtitlesOnce: whoever holds the claim publishes, this one moves on.
CaptionsFirst(w) ==
  /\ worker[w].pc = "captions"
  /\ Begin(w, UrlOf(w))
  /\ GoTo(w, IF UrlOf(w) \in claims THEN "transfer" ELSE "fetching")
  /\ UNCHANGED <<storeVars, retries, onDisk, published, media, WorkerLeaves>>

HeartbeatLands(w) ==
  /\ worker[w].pc \in Transferring
  /\ Heartbeat(worker[w].job)
  /\ UNCHANGED <<captionVars, media, worker, WorkerLeaves>>

\* Variant: the second try runs without the progress callback.
HeartbeatMissesOnce(w) ==
  /\ worker[w].pc = "transfer"
  /\ jobs[worker[w].job].state # "RUNNING"
  /\ GoTo(w, "evict")
  /\ UNCHANGED <<storeVars, captionVars, media, WorkerLeaves>>

\* The row is not RUNNING: the transfer is stopped, whatever it was doing.
HeartbeatMisses(w) ==
  /\ worker[w].pc \in Transferring
  /\ jobs[worker[w].job].state # "RUNNING"
  /\ GoTo(w, "evict")
  /\ UNCHANGED <<storeVars, captionVars, media, WorkerLeaves>>

\* A first refusal that is not permanent is waited out and tried once more.
TransferFails(w) ==
  /\ worker[w].pc \in Transferring
  /\ \/ worker[w].pc = "transfer" /\ GoTo(w, "waiting")
     \/ GoTo(w, "fail")
  /\ UNCHANGED <<storeVars, captionVars, media, WorkerLeaves>>

TransferAgain(w) ==
  /\ worker[w].pc = "waiting"
  /\ GoTo(w, "transferAgain")
  /\ UNCHANGED <<storeVars, captionVars, media, WorkerLeaves>>

TransferEnds(w) ==
  /\ worker[w].pc \in Transferring
  /\ GoTo(w, "deliver")
  /\ UNCHANGED <<storeVars, captionVars, media, WorkerLeaves>>

\* errJobCancelled: the row is left as the heartbeat found it.
MarkCancelled(w) ==
  /\ worker[w].pc = "evict"
  /\ SetMediaState(UrlOf(w), "EVICTED")
  /\ worker' = [worker EXCEPT ![w] = Idle]
  /\ UNCHANGED <<storeVars, captionVars, WorkerLeaves>>

MarkFailed(w) ==
  /\ worker[w].pc = "fail"
  /\ SetMediaState(UrlOf(w), "FAILED")
  /\ GoTo(w, "finishFailed")
  /\ UNCHANGED <<storeVars, captionVars, WorkerLeaves>>

\* READY, with whatever captions the folder holds by now.
Deliver(w) ==
  /\ worker[w].pc = "deliver"
  /\ SetMediaState(UrlOf(w), "READY")
  /\ published' = published \cup ({UrlOf(w)} \cap onDisk)
  /\ GoTo(w, "finishSucceeded")
  /\ UNCHANGED <<storeVars, claims, fetches, retries, onDisk, WorkerLeaves>>

Verdict(w) == IF worker[w].pc = "finishSucceeded" THEN "SUCCEEDED" ELSE "FAILED"

FinishJob(w) ==
  /\ worker[w].pc \in {"finishFailed", "finishSucceeded"}
  /\ Finish(worker[w].job, Verdict(w))
  /\ worker' = [worker EXCEPT ![w] = Idle]
  /\ UNCHANGED <<captionVars, media, WorkerLeaves>>

-----------------------------------------------------------------------------
(* The sweep: one tick is ReleaseExpired, retryFailed, RetrySubtitlesOnce,  *)
(* and the last holds the tick until its fetch is over.                     *)

SweepLeaves == <<worker, requests, reports, booting, watching, presses>>

SweepReleases ==
  /\ ~booting
  /\ sweep = "idle"
  /\ ReleaseExpired
  /\ sweep' = "retry"
  /\ UNCHANGED <<captionVars, media, SweepLeaves>>

\* Nothing is due, or the statement picked a row the unique index refuses.
NothingToRequeue ==
  \/ \A j \in DOMAIN jobs : ~RetryDue(j)
  \/ \E j \in DOMAIN jobs : RetryDue(j) /\ HasActive(jobs[j].url)

SweepRetries ==
  /\ sweep = "retry"
  /\ \/ \E j \in Job : RequeueFailed(j)
     \/ NothingToRequeue /\ UNCHANGED storeVars
  /\ sweep' = "captions"
  /\ UNCHANGED <<captionVars, media, SweepLeaves>>

CaptionsDue(u) == retries[u] = "due" /\ refused[u] = "no"

SweepCaptions ==
  /\ sweep = "captions"
  /\ \/ \E u \in Url : /\ CaptionsDue(u)
                       /\ Begin(Sweeper, u)
                       /\ sweep' = IF u \in claims THEN "idle" ELSE "fetching"
     \/ /\ \A u \in Url : ~CaptionsDue(u)
        /\ sweep' = "idle"
        /\ UNCHANGED <<claims, fetches>>
  /\ UNCHANGED <<storeVars, retries, onDisk, published, media, SweepLeaves>>

-----------------------------------------------------------------------------
(* Caption fetches, whoever runs them.  The worker and the sweep wait for   *)
(* theirs; the background one runs out of time on its own.                  *)

ResumeCaller(f) ==
  IF \E g \in fetches' : g.by = f.by
  THEN UNCHANGED <<worker, sweep>>
  ELSE /\ worker' = IF f.by \in Worker
                    THEN [worker EXCEPT ![f.by].pc = "transfer"] ELSE worker
       /\ sweep' = IF f.by = Sweeper THEN "idle" ELSE sweep

FetchProceeds(f) ==
  /\ \/ "refused" \in CaptionAnswers /\ FetchRefused(f)
     \/ "none" \in CaptionAnswers /\ FetchEmpty(f)
     \/ f.url \in onDisk /\ FetchEmpty(f)
     \/ "landed" \in CaptionAnswers /\ FetchLands(f)
     \/ Publish(f)
  /\ ResumeCaller(f)
  /\ UNCHANGED <<storeVars, requests, reports, booting, watching, presses>>

-----------------------------------------------------------------------------
(* Requests over RPC.  Submit is UnavailableSourceFor, LastFailureFor,      *)
(* Enqueue's SELECT and its INSERT, one statement after the other, and then *)
(* the caption fetch; Retry lifts the refusal first, skips the cooldown and *)
(* dismisses the job it was pressed on.                                     *)

RequestLeaves == <<worker, sweep, reports, booting>>

\* One thing a user does; the process must be up to hear it.
Pressed == /\ ~booting
           /\ presses < MaxPresses
           /\ presses' = presses + 1

Ask(r) == /\ Cardinality(requests) < MaxRequests
          /\ requests' = requests \cup {r}
At(r, stage) == r \in requests /\ r.stage = stage
Advance(r, stage) == requests' = (requests \ {r}) \cup {[r EXCEPT !.stage = stage]}
Drop(r) == requests' = requests \ {r}

\* Enqueue answered with a job, old or new: captions start, a retry goes on.
Enqueued(r) ==
  /\ Begin(r.url, r.url)
  /\ IF r.of = NoJob THEN Drop(r) ELSE Advance(r, "dismiss")

(* Somebody presses play.  The gateway's ensureDownload runs beside the     *)
(* answer to the page, so what it read of the catalog may be stale: only    *)
(* the checks made here count.                                              *)
Play(u) ==
  /\ Pressed
  /\ watching' = watching \cup {u}
  /\ \/ /\ refused[u] = "no" /\ ~JustFailed(u)
        /\ Ask([url |-> u, of |-> NoJob, stage |-> "select"])
     \/ UNCHANGED requests
  /\ UNCHANGED <<storeVars, captionVars, media, RequestLeaves>>

\* Pressing play while the household keeps nothing: captions and no job.
PlayStreaming(u) ==
  /\ Pressed
  /\ watching' = watching \cup {u}
  /\ Begin(u, u)
  /\ UNCHANGED <<storeVars, retries, onDisk, published, media, requests, RequestLeaves>>

RetryJob(j) ==
  /\ Pressed
  /\ j \in DOMAIN jobs
  /\ jobs[j].state \in Terminal
  /\ ClearUnavailable(jobs[j].url)
  /\ Ask([url |-> jobs[j].url, of |-> j, stage |-> "check"])
  /\ UNCHANGED <<captionVars, media, RequestLeaves, watching>>

CheckRefusal(r) ==
  /\ At(r, "check")
  /\ IF refused[r.url] = "no" THEN Advance(r, "select") ELSE Drop(r)
  /\ UNCHANGED <<storeVars, captionVars, media, RequestLeaves, presses, watching>>

SelectActive(r) ==
  /\ At(r, "select")
  /\ IF HasActive(r.url)
     THEN Enqueued(r)
     ELSE Advance(r, "insert") /\ UNCHANGED <<claims, fetches>>
  /\ UNCHANGED <<storeVars, retries, onDisk, published, media, RequestLeaves, presses, watching>>

\* Variant: no unique index, so the SELECT before it is the only guard.
InsertJobUnindexed(r) ==
  /\ At(r, "insert")
  /\ \E j \in Job :
       /\ IsNextId(j)
       /\ jobs' = [k \in DOMAIN jobs \cup {j} |-> IF k = j THEN NewRow(r.url) ELSE jobs[k]]
       /\ Enqueued(r)
  /\ UNCHANGED <<refused, retries, onDisk, published, media, RequestLeaves, presses, watching>>

\* Another request won the race: the unique index refuses, the answer is an error.
InsertJob(r) ==
  /\ At(r, "insert")
  /\ \/ \E j \in Job : Insert(r.url, j) /\ Enqueued(r)
     \/ HasActive(r.url) /\ Drop(r) /\ UNCHANGED <<storeVars, claims, fetches>>
  /\ UNCHANGED <<retries, onDisk, published, media, RequestLeaves, presses, watching>>

\* Somebody may have dismissed it already, and then nothing is left to do.
DismissRetried(r) ==
  /\ At(r, "dismiss")
  /\ Drop(r)
  /\ IF CanDismiss(r.of) THEN Dismiss(r.of) ELSE UNCHANGED storeVars
  /\ UNCHANGED <<captionVars, media, RequestLeaves, presses, watching>>

\* The page is left: the transfer is cancelled by video id, the retry forgotten.
Leave(u) ==
  /\ Pressed
  /\ u \in watching
  /\ watching' = watching \ {u}
  /\ CancelForVideo(u)
  /\ ClearSubtitleRetry(u)
  /\ UNCHANGED <<media, requests, RequestLeaves>>

\* The Activity page: cancel a job, hide one, hide all of a kind.
ActivityPage ==
  /\ Pressed
  /\ \/ \E j \in Job : Cancel(j) \/ Dismiss(j)
     \/ \E s \in {"FAILED", "SUCCEEDED"} : DismissByState(s)
  /\ UNCHANGED <<captionVars, media, requests, RequestLeaves, watching>>

\* Comments or a stream resolution meets a permanent refusal outside any job.
RefusedElsewhere(u) ==
  /\ Pressed
  /\ MarkUnavailable(u)
  /\ reports' = reports \cup {u}
  /\ UNCHANGED <<captionVars, media, worker, sweep, requests, booting, watching>>

\* reportUnavailable, for those and for what ReconcileUnavailable found.
Report(u) ==
  /\ u \in reports
  /\ reports' = reports \ {u}
  /\ ToldCatalog(u)
  /\ UNCHANGED <<captionVars, worker, sweep, requests, booting, watching, presses>>

-----------------------------------------------------------------------------
(* ReconcileUnavailable runs before the worker and the RPC server start.    *)
Booted ==
  /\ booting
  /\ reports = {}
  /\ booting' = FALSE
  /\ UNCHANGED <<storeVars, captionVars, media, worker, sweep, requests, reports, watching, presses>>

\* The eviction sweep, or a file found missing by the page.
CopyGone(u) ==
  /\ media[u] = "READY"
  /\ SetMediaState(u, "EVICTED")
  /\ UNCHANGED <<storeVars, captionVars, processVars, watching, presses>>

Elapse ==
  \/ /\ \E j \in Job : LeaseLapses(j) \/ BackoffElapses(j)
     /\ UNCHANGED <<captionVars, media>>
  \/ /\ \E u \in Url : RetryWaitElapses(u)
     /\ UNCHANGED storeVars

TimePasses == Elapse /\ UNCHANGED <<processVars, watching, presses>>

-----------------------------------------------------------------------------
(* What goes wrong.                                                         *)

\* The process dies; the queue and the retries survive it in the database.
Crash ==
  /\ worker' = [w \in Worker |-> Idle]
  /\ sweep' = "idle"
  /\ requests' = {}
  /\ claims' = {}
  /\ fetches' = {}
  /\ booting' = TRUE
  /\ reports' = {u \in Url : refused[u] = "unreported"}
  /\ UNCHANGED <<storeVars, retries, onDisk, published, media, watching>>

\* MarkResolved, UpsertChannel or UpsertVideo fails.
RegisterErrs(w) ==
  /\ worker[w].pc = "register"
  /\ GoTo(w, "finishFailed")
  /\ UNCHANGED <<storeVars, captionVars, media, sweep, requests, reports, booting, watching>>

MediaTarget == [refused |-> "UNAVAILABLE", evict |-> "EVICTED", fail |-> "FAILED", deliver |-> "READY"]

\* A failed SetMediaState is logged, except READY's, which fails the job.
CatalogErrs(w) ==
  /\ worker[w].pc \in DOMAIN MediaTarget
  /\ SetMediaStateErrs(UrlOf(w), MediaTarget[worker[w].pc])
  /\ worker' = [worker EXCEPT ![w] = IF @.pc = "evict" THEN Idle
                                     ELSE [@ EXCEPT !.pc = "finishFailed"]]
  /\ UNCHANGED <<storeVars, captionVars, sweep, requests, reports, booting, watching>>

\* The last statement fails: logged, and the row is left RUNNING.
FinishErrs(w) ==
  /\ worker[w].pc \in {"finishFailed", "finishSucceeded"}
  /\ worker' = [worker EXCEPT ![w] = Idle]
  /\ UNCHANGED <<storeVars, captionVars, media, sweep, requests, reports, booting, watching>>

\* Only the fetch that a request started has a deadline of its own.
FetchErrs(f) ==
  /\ PublishErrs(f) \/ FetchUnrecorded(f) \/ (f.by \in Url /\ FetchTimesOut(f))
  /\ ResumeCaller(f)
  /\ UNCHANGED <<storeVars, requests, reports, booting, watching>>

\* Neither is tried again before the next start; the request is over.
ReportErrs(u) ==
  /\ u \in reports
  /\ reports' = reports \ {u}
  /\ SetMediaStateErrs(u, "UNAVAILABLE")
  /\ UNCHANGED <<storeVars, captionVars, worker, sweep, requests, booting, watching>>

\* Whatever its statement was, the submit ends with it; a retry that is queued
\* is a success even if the old row stays visible.
RequestErrs(r) ==
  /\ r \in requests
  /\ Drop(r)
  /\ UNCHANGED <<storeVars, captionVars, media, RequestLeaves, watching>>

\* A check that fails is no reason to refuse: the submit goes on unchecked.
PlayUnchecked(u) ==
  /\ ~booting
  /\ watching' = watching \cup {u}
  /\ Ask([url |-> u, of |-> NoJob, stage |-> "select"])
  /\ UNCHANGED <<storeVars, captionVars, media, RequestLeaves>>

RetryUnchecked(r) ==
  /\ At(r, "check")
  /\ Advance(r, "select")
  /\ UNCHANGED <<storeVars, captionVars, media, RequestLeaves, watching>>

\* The page is gone, and one of the two statements it should have left behind.
LeaveErrs(u) ==
  /\ ~booting
  /\ u \in watching
  /\ watching' = watching \ {u}
  /\ CancelForVideo(u) \/ UNCHANGED storeVars
  /\ UNCHANGED <<captionVars, media, requests, RequestLeaves>>

\* A chore of the sweep that fails is passed over.
SweepErrs ==
  /\ sweep \in {"retry", "captions"}
  /\ sweep' = IF sweep = "retry" THEN "captions" ELSE "idle"
  /\ UNCHANGED <<storeVars, captionVars, media, worker, requests, reports, booting, watching>>

Fault ==
  /\ faults < MaxFaults
  /\ faults' = faults + 1
  /\ UNCHANGED presses
  /\ \/ Crash
     \/ \E w \in Worker : RegisterErrs(w) \/ CatalogErrs(w) \/ FinishErrs(w)
     \/ \E f \in fetches : FetchErrs(f)
     \/ \E u \in Url : ReportErrs(u) \/ PlayUnchecked(u) \/ LeaveErrs(u)
     \/ \E r \in requests : RequestErrs(r) \/ RetryUnchecked(r)
     \/ SweepErrs

-----------------------------------------------------------------------------
WorkerStep(w) ==
  \/ ClaimJob(w)        \/ PreviewRefused(w)  \/ ReportRefused(w)   \/ PreviewFails(w)
  \/ Resolve(w)         \/ Register(w)        \/ CaptionsFirst(w)   \/ HeartbeatLands(w)
  \/ HeartbeatMisses(w) \/ TransferFails(w)   \/ TransferAgain(w)   \/ TransferEnds(w)
  \/ MarkCancelled(w)   \/ MarkFailed(w)      \/ Deliver(w)         \/ FinishJob(w)

SweepStep == SweepReleases \/ SweepRetries \/ SweepCaptions

RequestStep(r) == CheckRefusal(r) \/ SelectActive(r) \/ InsertJob(r) \/ DismissRetried(r)

UserStep ==
  \/ \E u \in Url : Play(u) \/ PlayStreaming(u) \/ Leave(u) \/ RefusedElsewhere(u)
  \/ \E j \in Job : RetryJob(j)
  \/ ActivityPage

Step ==
  \/ \E w \in Worker : WorkerStep(w)
  \/ SweepStep
  \/ \E f \in fetches : FetchProceeds(f)
  \/ \E r \in requests : RequestStep(r)
  \/ UserStep
  \/ \E u \in Url : Report(u) \/ CopyGone(u)
  \/ Booted
  \/ TimePasses

Next == (Step /\ UNCHANGED faults) \/ Fault

Spec == Init /\ [][Next]_vars
=============================================================================
