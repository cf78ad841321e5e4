--------------------------- MODULE PipelineProofs ---------------------------
(***************************************************************************)
(* The ingest process implements the jobs table: whatever the worker, the   *)
(* sweep, the requests, the caption fetches and the faults do, one step of  *)
(* theirs is one statement of JobStore or none, so what JobStoreProofs says *)
(* of the table holds of the program, with any number of workers.  And no   *)
(* video ever has two caption fetches.                                      *)
(*                                                                          *)
(* Some statements are the worker's alone (Heartbeat, MarkResolved, Finish: *)
(* JobStore's WasClaimed), so the refinement needs to know that a worker    *)
(* only carries rows that were claimed, and that a caption fetch gives the  *)
(* word back only to a worker waiting for it.                               *)
(***************************************************************************)
EXTENDS PipelineProperties, JobStoreProofs

CarriedWasClaimed == \A w \in Worker : worker[w].pc # "idle" => WasClaimed(worker[w].job)

FetchersWait == \A f \in fetches : f.by \in Worker => worker[f.by].pc = "fetching"

PipelineInv ==
  /\ StoreInv
  /\ worker \in [Worker -> [pc : Pc, job : Job \cup {NoJob}]]
  /\ requests \subseteq Request
  /\ claims \subseteq Url
  /\ fetches \subseteq Fetch
  /\ CarriedWasClaimed
  /\ FetchersWait
  /\ OneFetchPerVideo

-----------------------------------------------------------------------------
LEMMA RowStepIsStep == ASSUME NEW j \in Job, RowStep(j) PROVE StoreNext
BY DEF StoreNext

LEMMA UrlStepIsStep == ASSUME NEW u \in Url, UrlStep(u) PROVE StoreNext
BY DEF StoreNext

LEMMA CarriedRow ==
  ASSUME PipelineInv, NEW w \in Worker, worker[w].pc # "idle"
  PROVE  /\ worker[w].job \in Job
         /\ WasClaimed(worker[w].job)
         /\ UrlOf(w) \in Url
BY DEF PipelineInv, CarriedWasClaimed, WasClaimed, StoreInv, UrlOf, Row

LEMMA ToldCatalogIsStep ==
  ASSUME NEW u \in Url, ToldCatalog(u) PROVE [StoreNext]_storeVars
BY UrlStepIsStep DEF ToldCatalog, UrlStep

-----------------------------------------------------------------------------
(* Every step of the process is a statement on the tables, or none.         *)
LEMMA WorkerStepStores ==
  ASSUME PipelineInv, NEW w \in Worker, WorkerStep(w) PROVE [StoreNext]_storeVars
<1>1. CASE ClaimJob(w)
  BY <1>1, RowStepIsStep DEF ClaimJob, RowStep
<1>2. CASE PreviewRefused(w)
  BY <1>2, CarriedRow, UrlStepIsStep DEF PreviewRefused, UrlStep
<1>3. CASE ReportRefused(w)
  BY <1>3, CarriedRow, ToldCatalogIsStep DEF ReportRefused
<1>4. CASE Resolve(w)
  BY <1>4, CarriedRow, RowStepIsStep DEF Resolve, RowStep
<1>5. CASE HeartbeatLands(w)
  BY <1>5, CarriedRow, RowStepIsStep DEF HeartbeatLands, RowStep, Transferring
<1>6. CASE FinishJob(w)
  <2>1. Finish(worker[w].job, Verdict(w)) /\ Verdict(w) \in {"SUCCEEDED", "FAILED"}
    BY <1>6 DEF FinishJob, Verdict
  <2> QED
    BY <1>6, <2>1, CarriedRow, RowStepIsStep DEF FinishJob, RowStep
<1>7. CASE \/ PreviewFails(w)    \/ Register(w)      \/ CaptionsFirst(w) \/ HeartbeatMisses(w)
           \/ TransferFails(w)   \/ TransferAgain(w) \/ TransferEnds(w)  \/ MarkCancelled(w)
           \/ MarkFailed(w)      \/ Deliver(w)
  BY <1>7 DEF PreviewFails, Register, CaptionsFirst, HeartbeatMisses, TransferFails,
              TransferAgain, TransferEnds, MarkCancelled, MarkFailed, Deliver
<1> QED
  BY <1>1, <1>2, <1>3, <1>4, <1>5, <1>6, <1>7 DEF WorkerStep

LEMMA SweepStepStores == ASSUME SweepStep PROVE [StoreNext]_storeVars
<1>1. CASE SweepReleases
  BY <1>1 DEF SweepReleases, StoreNext
<1>2. CASE SweepRetries
  BY <1>2, RowStepIsStep DEF SweepRetries, RowStep
<1>3. CASE SweepCaptions
  BY <1>3 DEF SweepCaptions
<1> QED
  BY <1>1, <1>2, <1>3 DEF SweepStep

LEMMA RequestStepStores ==
  ASSUME PipelineInv, NEW r \in requests, RequestStep(r) PROVE [StoreNext]_storeVars
<1>1. CASE CheckRefusal(r) \/ SelectActive(r)
  BY <1>1 DEF CheckRefusal, SelectActive
<1>2. CASE InsertJob(r)
  <2>1. r.url \in Url
    BY DEF PipelineInv, Request
  <2> QED
    BY <1>2, <2>1, UrlStepIsStep DEF InsertJob, UrlStep
<1>3. CASE DismissRetried(r)
  <2>1. CASE CanDismiss(r.of)
    <3>1. r.of \in Job
      BY <2>1 DEF CanDismiss, PipelineInv, StoreInv
    <3> QED
      BY <1>3, <2>1, <3>1, RowStepIsStep DEF DismissRetried, RowStep
  <2>2. CASE ~CanDismiss(r.of)
    BY <1>3, <2>2 DEF DismissRetried
  <2> QED BY <2>1, <2>2
<1> QED
  BY <1>1, <1>2, <1>3 DEF RequestStep

LEMMA UserStepStores == ASSUME PipelineInv, UserStep PROVE [StoreNext]_storeVars
<1>1. CASE \E u \in Url : Play(u) \/ PlayStreaming(u)
  BY <1>1 DEF Play, PlayStreaming
<1>2. CASE \E u \in Url : Leave(u) \/ RefusedElsewhere(u)
  BY <1>2, UrlStepIsStep DEF Leave, RefusedElsewhere, UrlStep
<1>3. CASE \E j \in Job : RetryJob(j)
  <2> PICK j \in Job : RetryJob(j)
    BY <1>3
  <2>1. jobs[j].url \in Url
    BY DEF RetryJob, PipelineInv, StoreInv, Row
  <2> QED
    BY <2>1, UrlStepIsStep DEF RetryJob, UrlStep
<1>4. CASE ActivityPage
  BY <1>4, RowStepIsStep DEF ActivityPage, RowStep, StoreNext
<1> QED
  BY <1>1, <1>2, <1>3, <1>4 DEF UserStep

LEMMA FaultStores == ASSUME PipelineInv, Fault PROVE [StoreNext]_storeVars
<1>1. CASE \E u \in Url : LeaveErrs(u)
  BY <1>1, UrlStepIsStep DEF LeaveErrs, UrlStep
<1>2. CASE ~\E u \in Url : LeaveErrs(u)
  BY <1>2 DEF Fault, Crash, RegisterErrs, CatalogErrs, FinishErrs, FetchErrs, ReportErrs,
              PlayUnchecked, RequestErrs, RetryUnchecked, SweepErrs
<1> QED
  BY <1>1, <1>2

LEMMA NextStores == ASSUME PipelineInv, [Next]_vars PROVE [StoreNext]_storeVars
<1>1. CASE UNCHANGED vars
  BY <1>1 DEF vars
<1>2. CASE \E w \in Worker : WorkerStep(w)
  BY <1>2, WorkerStepStores
<1>3. CASE SweepStep
  BY <1>3, SweepStepStores
<1>4. CASE \E f \in fetches : FetchProceeds(f)
  BY <1>4 DEF FetchProceeds
<1>5. CASE \E r \in requests : RequestStep(r)
  BY <1>5, RequestStepStores
<1>6. CASE UserStep
  BY <1>6, UserStepStores
<1>7. CASE \E u \in Url : Report(u)
  BY <1>7, ToldCatalogIsStep DEF Report
<1>8. CASE Booted \/ \E u \in Url : CopyGone(u)
  BY <1>8 DEF Booted, CopyGone
<1>9. CASE TimePasses
  BY <1>9, RowStepIsStep DEF TimePasses, Elapse, RowStep
<1>10. CASE Fault
  BY <1>10, FaultStores
<1> QED
  BY <1>1, <1>2, <1>3, <1>4, <1>5, <1>6, <1>7, <1>8, <1>9, <1>10 DEF Next, Step

-----------------------------------------------------------------------------
(* A row that was claimed stays claimed: no statement lowers attempts.      *)
ClaimedAfter(j) == j \in DOMAIN jobs' /\ jobs'[j].attempts > 0

LEMMA ClaimedStays ==
  ASSUME StoreInv, [StoreNext]_storeVars, NEW j, WasClaimed(j) PROVE ClaimedAfter(j)
<1> DEFINE kept == j \in DOMAIN jobs' /\ jobs'[j].attempts \in {jobs[j].attempts, jobs[j].attempts + 1}
<1>1. j \in DOMAIN jobs /\ jobs[j].attempts \in Nat /\ jobs[j].attempts > 0 /\ jobs[j] \in Row
  BY DEF StoreInv, WasClaimed, RowOK, Row
<1> SUFFICES kept
  BY <1>1 DEF ClaimedAfter
<1>2. CASE UNCHANGED jobs
  BY <1>1, <1>2
<1>3. ASSUME NEW k \in Job, RowStep(k) PROVE kept
  <2>1. CASE Claim(k)
    BY <1>1, <2>1 DEF Claim, OldestQueued, Row
  <2>2. CASE Dismiss(k) \/ Heartbeat(k) \/ MarkResolved(k)
    BY <1>1, <2>2 DEF Dismiss, CanDismiss, Heartbeat, MarkResolved, Row
  <2>5. CASE Cancel(k)
    <3>1. jobs'[j] \in {jobs[j], CancelRow(jobs[j])} /\ j \in DOMAIN jobs'
      BY <1>1, <2>5 DEF Cancel
    <3> QED
      BY <1>1, <3>1 DEF CancelRow, Row
  <2>3. CASE \E v \in {"SUCCEEDED", "FAILED"} : Finish(k, v)
    BY <1>1, <2>3 DEF Finish, Row
  <2>4. CASE RequeueFailed(k) \/ LeaseLapses(k) \/ BackoffElapses(k)
    BY <1>1, <2>4 DEF RequeueFailed, RetryDue, LeaseLapses, BackoffElapses, Row
  <2> QED
    BY <1>3, <2>1, <2>2, <2>3, <2>4, <2>5 DEF RowStep
<1>4. ASSUME NEW u \in Url, UrlStep(u) PROVE kept
  <2>1. CASE \E k \in Job : Insert(u, k)
    BY <1>1, <2>1 DEF Insert, IsNextId
  <2>2. CASE CancelForVideo(u)
    <3>1. jobs'[j] \in {jobs[j], CancelRow(jobs[j])} /\ j \in DOMAIN jobs'
      BY <1>1, <2>2 DEF CancelForVideo
    <3> QED
      BY <1>1, <3>1 DEF CancelRow, Row
  <2>3. CASE MarkUnavailable(u) \/ ClearUnavailable(u) \/ MarkUnavailableReported(u)
    BY <1>2, <2>3 DEF MarkUnavailable, ClearUnavailable, MarkUnavailableReported
  <2> QED BY <1>4, <2>1, <2>2, <2>3 DEF UrlStep
<1>5. CASE \E s \in {"FAILED", "SUCCEEDED"} : DismissByState(s)
  BY <1>1, <1>5 DEF DismissByState, Row
<1>6. CASE ReleaseExpired
  <2>1. jobs'[j] \in {jobs[j], Release(jobs[j])} /\ j \in DOMAIN jobs'
    BY <1>1, <1>6 DEF ReleaseExpired
  <2>2. Release(jobs[j]).attempts = jobs[j].attempts
    BY <1>1 DEF Release, Row
  <2> QED
    BY <1>1, <2>1, <2>2
<1> QED
  BY <1>2, <1>3, <1>4, <1>5, <1>6 DEF StoreNext, storeVars

(* The tables' part of the invariant is JobStore's own.                     *)
LEMMA TablesKeep ==
  ASSUME PipelineInv, [Next]_vars
  PROVE  /\ StoreInv'
         /\ \A j : WasClaimed(j) => ClaimedAfter(j)
<1>1. StoreInv /\ [StoreNext]_storeVars
  BY NextStores DEF PipelineInv
<1> QED
  BY <1>1, StoreInvStep, ClaimedStays

(* A worker that waits for no caption fetch moves on, to nothing or to a    *)
(* row that was claimed.                                                    *)
LEMMA WorkerMovesOn ==
  ASSUME PipelineInv, [Next]_vars, NEW w \in Worker,
         worker[w].pc # "fetching",
         NEW to, to \in [pc : Pc, job : Job \cup {NoJob}],
         to.pc # "idle" => ClaimedAfter(to.job),
         worker' = [worker EXCEPT ![w] = to],
         UNCHANGED <<claims, fetches, requests>>
  PROVE  PipelineInv'
<1>1. worker' \in [Worker -> [pc : Pc, job : Job \cup {NoJob}]]
  BY DEF PipelineInv
<1>2. CarriedWasClaimed'
  BY TablesKeep DEF PipelineInv, CarriedWasClaimed, WasClaimed, ClaimedAfter
<1>3. FetchersWait'
  BY DEF PipelineInv, FetchersWait
<1>4. OneFetchPerVideo'
  BY DEF PipelineInv, OneFetchPerVideo
<1> QED
  BY <1>1, <1>2, <1>3, <1>4, TablesKeep DEF PipelineInv

(* The same, for the step of a worker that only changes where it is.        *)
LEMMA GoToKeeps ==
  ASSUME PipelineInv, [Next]_vars, NEW w \in Worker, NEW pc \in Pc,
         worker[w].pc \notin {"idle", "fetching"},
         GoTo(w, pc),
         UNCHANGED <<claims, fetches, requests>>
  PROVE  PipelineInv'
<1> DEFINE to == [worker[w] EXCEPT !.pc = pc]
<1>1. to \in [pc : Pc, job : Job \cup {NoJob}] /\ to.job = worker[w].job
  BY DEF PipelineInv
<1>2. worker' = [worker EXCEPT ![w] = to]
  BY DEF GoTo
<1>3. ClaimedAfter(to.job)
  BY <1>1, CarriedRow, TablesKeep
<1> QED
  BY <1>1, <1>2, <1>3, WorkerMovesOn

LEMMA IdleKeeps ==
  ASSUME PipelineInv, [Next]_vars, NEW w \in Worker,
         worker[w].pc # "fetching",
         worker' = [worker EXCEPT ![w] = Idle],
         UNCHANGED <<claims, fetches, requests>>
  PROVE  PipelineInv'
<1>1. Idle \in [pc : Pc, job : Job \cup {NoJob}] /\ Idle.pc = "idle"
  BY DEF Idle, Pc
<1> QED
  BY <1>1, WorkerMovesOn

(* No worker moves and no fetch starts or ends.                             *)
LEMMA OthersMove ==
  ASSUME PipelineInv, [Next]_vars, UNCHANGED <<worker, claims, fetches>>, requests' \subseteq Request
  PROVE  PipelineInv'
<1>1. CarriedWasClaimed'
  BY TablesKeep DEF PipelineInv, CarriedWasClaimed, WasClaimed, ClaimedAfter
<1>2. FetchersWait' /\ OneFetchPerVideo'
  BY DEF PipelineInv, FetchersWait, OneFetchPerVideo
<1> QED
  BY <1>1, <1>2, TablesKeep DEF PipelineInv

(* A fetch begins, for a worker that waits for it or for somebody else.     *)
LEMMA FetchBegins ==
  ASSUME PipelineInv, [Next]_vars, NEW c \in Caller, NEW u \in Url, Begin(c, u),
         worker' \in [Worker -> [pc : Pc, job : Job \cup {NoJob}]],
         CarriedWasClaimed',
         \A w \in Worker : worker[w].pc = "fetching" => worker'[w].pc = "fetching",
         u \notin claims /\ c \in Worker => worker'[c].pc = "fetching",
         requests' \subseteq Request
  PROVE  PipelineInv'
<1> DEFINE f == [by |-> c, url |-> u, stage |-> "asking"]
<1>1. f \in Fetch /\ f.by = c /\ f.url = u
  BY DEF Fetch
<1>2. claims' \subseteq Url /\ fetches' \subseteq Fetch
  BY <1>1 DEF Begin, PipelineInv
<1>3. FetchersWait'
  <2> SUFFICES ASSUME NEW g \in fetches', g.by \in Worker PROVE worker'[g.by].pc = "fetching"
    BY DEF FetchersWait
  <2>1. CASE g \in fetches
    BY <2>1 DEF PipelineInv, FetchersWait
  <2>2. CASE g \notin fetches
    BY <1>1, <2>2 DEF Begin
  <2> QED BY <2>1, <2>2
<1>4. OneFetchPerVideo'
  <2>1. CASE u \in claims
    BY <2>1 DEF Begin, PipelineInv, OneFetchPerVideo
  <2>2. CASE u \notin claims
    <3>1. \A g \in fetches : g.url # u
      BY <2>2 DEF PipelineInv, OneFetchPerVideo
    <3>2. fetches' = fetches \cup {f} /\ claims' = claims \cup {u}
      BY <2>2 DEF Begin
    <3> QED
      BY <1>1, <3>1, <3>2 DEF PipelineInv, OneFetchPerVideo
  <2> QED BY <2>1, <2>2
<1> QED
  BY <1>2, <1>3, <1>4, TablesKeep DEF PipelineInv

(* A fetch ends, or moves to its publishing: the worker that waits for it   *)
(* is given the word back exactly when it has none left.                    *)
LEMMA FetchGoesOn ==
  ASSUME PipelineInv, [Next]_vars, NEW f \in fetches, ResumeCaller(f), UNCHANGED requests,
         \/ End(f)
         \/ /\ fetches' = (fetches \ {f}) \cup {[f EXCEPT !.stage = "publishing"]}
            /\ UNCHANGED claims
  PROVE  PipelineInv'
<1> DEFINE g == [f EXCEPT !.stage = "publishing"]
<1>1. f \in Fetch /\ g \in Fetch /\ g.by = f.by /\ g.url = f.url
  BY DEF PipelineInv, Fetch
<1>2. \A h \in fetches' : h \in fetches \/ h = g
  BY DEF End
<1>3. claims' \subseteq Url /\ fetches' \subseteq Fetch
  BY <1>1, <1>2 DEF End, PipelineInv
<1>4. OneFetchPerVideo'
  <2>1. CASE End(f)
    BY <2>1 DEF End, PipelineInv, OneFetchPerVideo
  <2>2. CASE fetches' = (fetches \ {f}) \cup {g} /\ UNCHANGED claims
    <3>1. \A h \in fetches : h # f => h.url # f.url
      BY DEF PipelineInv, OneFetchPerVideo
    <3>2. \A h, i \in fetches' : h.url = i.url => h = i
      BY <1>1, <2>2, <3>1 DEF PipelineInv, OneFetchPerVideo
    <3>3. {h.url : h \in fetches'} = {h.url : h \in fetches}
      BY <1>1, <2>2
    <3> QED
      BY <2>2, <3>2, <3>3 DEF PipelineInv, OneFetchPerVideo
  <2> QED BY <2>1, <2>2
<1>5. CASE \E h \in fetches' : h.by = f.by
  <2>1. UNCHANGED worker
    BY <1>5 DEF ResumeCaller
  <2>2. CarriedWasClaimed'
    BY <2>1, TablesKeep DEF PipelineInv, CarriedWasClaimed, WasClaimed, ClaimedAfter
  <2>3. FetchersWait'
    BY <1>1, <1>2, <2>1 DEF PipelineInv, FetchersWait
  <2> QED
    BY <1>3, <1>4, <2>1, <2>2, <2>3, TablesKeep DEF PipelineInv
<1>6. CASE ~\E h \in fetches' : h.by = f.by
  <2>1. worker' = IF f.by \in Worker THEN [worker EXCEPT ![f.by].pc = "transfer"] ELSE worker
    BY <1>6 DEF ResumeCaller
  <2>2. worker' \in [Worker -> [pc : Pc, job : Job \cup {NoJob}]]
    BY <2>1 DEF PipelineInv, Pc, Transferring
  <2>3. CarriedWasClaimed'
    <3> SUFFICES ASSUME NEW w \in Worker, worker'[w].pc # "idle" PROVE ClaimedAfter(worker'[w].job)
      BY DEF CarriedWasClaimed, WasClaimed, ClaimedAfter
    <3>1. worker'[w].job = worker[w].job
      BY <2>1 DEF PipelineInv
    <3>2. worker[w].pc # "idle"
      BY <2>1 DEF PipelineInv, FetchersWait
    <3> QED
      BY <3>1, <3>2, TablesKeep DEF PipelineInv, CarriedWasClaimed
  <2>4. FetchersWait'
    BY <1>1, <1>2, <1>6, <2>1 DEF PipelineInv, FetchersWait
  <2> QED
    BY <1>3, <1>4, <2>2, <2>3, <2>4, TablesKeep DEF PipelineInv
<1> QED
  BY <1>5, <1>6

-----------------------------------------------------------------------------
LEMMA PipelineInvInit == Init => PipelineInv
<1> SUFFICES ASSUME Init PROVE PipelineInv
  OBVIOUS
<1>1. StoreInv
  BY StoreInvInit DEF Init
<1>2. worker \in [Worker -> [pc : Pc, job : Job \cup {NoJob}]] /\ CarriedWasClaimed
  BY DEF Init, Idle, Pc, CarriedWasClaimed
<1>3. requests = {} /\ claims = {} /\ fetches = {}
  BY DEF Init, CaptionsInit
<1> QED
  BY <1>1, <1>2, <1>3 DEF PipelineInv, FetchersWait, OneFetchPerVideo

LEMMA WorkerStepKeeps ==
  ASSUME PipelineInv, [Next]_vars, NEW w \in Worker, WorkerStep(w) PROVE PipelineInv'
<1> USE DEF Pc, Transferring
<1>1. CASE ClaimJob(w)
  <2> PICK j \in Job : Claim(j) /\ worker' = [worker EXCEPT ![w] = [pc |-> "preview", job |-> j]]
    BY <1>1 DEF ClaimJob
  <2> DEFINE to == [pc |-> "preview", job |-> j]
  <2>1. to \in [pc : Pc, job : Job \cup {NoJob}]
    OBVIOUS
  <2>2. ClaimedAfter(j)
    <3>1. j \in DOMAIN jobs /\ jobs[j] \in Row
      BY DEF Claim, OldestQueued, PipelineInv, StoreInv
    <3>2. j \in DOMAIN jobs' /\ jobs'[j].attempts = jobs[j].attempts + 1
      BY <3>1 DEF Claim, Row
    <3> QED
      BY <3>1, <3>2 DEF Row, ClaimedAfter
  <2> QED
    BY <1>1, <2>1, <2>2, WorkerMovesOn DEF ClaimJob, captionVars, WorkerLeaves
<1>2. CASE FinishJob(w) \/ MarkCancelled(w)
  BY <1>2, IdleKeeps DEF FinishJob, MarkCancelled, captionVars, WorkerLeaves
<1>3. CASE PreviewRefused(w) \/ ReportRefused(w) \/ PreviewFails(w) \/ Resolve(w)
  BY <1>3, GoToKeeps DEF PreviewRefused, ReportRefused, PreviewFails, Resolve, captionVars, WorkerLeaves
<1>4. CASE Register(w) \/ HeartbeatMisses(w) \/ TransferFails(w) \/ TransferAgain(w)
  BY <1>4, GoToKeeps
     DEF Register, HeartbeatMisses, TransferFails, TransferAgain, captionVars, WorkerLeaves
<1>5. CASE TransferEnds(w) \/ MarkFailed(w) \/ Deliver(w)
  BY <1>5, GoToKeeps DEF TransferEnds, MarkFailed, Deliver, captionVars, WorkerLeaves
<1>6. CASE HeartbeatLands(w)
  BY <1>6, OthersMove DEF HeartbeatLands, captionVars, WorkerLeaves, PipelineInv
<1>7. CASE CaptionsFirst(w)
  <2>1. w \in Caller /\ UrlOf(w) \in Url /\ worker[w].pc = "captions"
    BY <1>7, CarriedRow, PipelineAssumption DEF CaptionsFirst
  <2>2. CASE UrlOf(w) \in claims
    BY <1>7, <2>1, <2>2, GoToKeeps DEF CaptionsFirst, Begin, WorkerLeaves
  <2>3. CASE UrlOf(w) \notin claims
    <3>1. worker' = [worker EXCEPT ![w].pc = "fetching"]
      BY <1>7, <2>3 DEF CaptionsFirst, GoTo
    <3>2. worker' \in [Worker -> [pc : Pc, job : Job \cup {NoJob}]]
      BY <3>1 DEF PipelineInv
    <3>3. CarriedWasClaimed'
      BY <2>1, <3>1, TablesKeep DEF PipelineInv, CarriedWasClaimed, WasClaimed, ClaimedAfter
    <3> QED
      BY <1>7, <2>1, <3>1, <3>2, <3>3, FetchBegins DEF CaptionsFirst, WorkerLeaves, PipelineInv
  <2> QED BY <2>2, <2>3
<1> QED
  BY <1>1, <1>2, <1>3, <1>4, <1>5, <1>6, <1>7 DEF WorkerStep

LEMMA SweepStepKeeps == ASSUME PipelineInv, [Next]_vars, SweepStep PROVE PipelineInv'
<1>1. CASE SweepReleases \/ SweepRetries
  BY <1>1, OthersMove DEF SweepReleases, SweepRetries, captionVars, SweepLeaves, PipelineInv
<1>2. CASE SweepCaptions
  <2>1. CASE UNCHANGED <<claims, fetches>>
    BY <1>2, <2>1, OthersMove DEF SweepCaptions, SweepLeaves, PipelineInv
  <2>2. CASE \E u \in Url : Begin(Sweeper, u)
    <3> PICK u \in Url : Begin(Sweeper, u)
      BY <2>2
    <3>1. Sweeper \in Caller /\ Sweeper \notin Worker
      BY PipelineAssumption
    <3>2. CarriedWasClaimed'
      BY <1>2, TablesKeep DEF SweepCaptions, SweepLeaves, PipelineInv, CarriedWasClaimed,
                              WasClaimed, ClaimedAfter
    <3> QED
      BY <1>2, <3>1, <3>2, FetchBegins DEF SweepCaptions, SweepLeaves, PipelineInv
  <2> QED
    BY <1>2, <2>1, <2>2 DEF SweepCaptions
<1> QED
  BY <1>1, <1>2 DEF SweepStep

\* A request starts a fetch of its own URL, or none.
LEMMA RequestFetchKeeps ==
  ASSUME PipelineInv, [Next]_vars, NEW u \in Url, UNCHANGED worker, requests' \subseteq Request,
         Begin(u, u) \/ UNCHANGED <<claims, fetches>>
  PROVE  PipelineInv'
<1>1. u \in Caller /\ u \notin Worker
  BY PipelineAssumption
<1>2. CarriedWasClaimed'
  BY TablesKeep DEF PipelineInv, CarriedWasClaimed, WasClaimed, ClaimedAfter
<1> QED
  BY <1>1, <1>2, FetchBegins, OthersMove DEF PipelineInv

LEMMA RequestStepKeeps ==
  ASSUME PipelineInv, [Next]_vars, NEW r \in requests, RequestStep(r) PROVE PipelineInv'
<1>1. r \in Request /\ r.url \in Url
  BY DEF PipelineInv, Request
<1>2. ASSUME NEW stage \in {"select", "insert", "dismiss"}, Advance(r, stage) \/ Drop(r)
      PROVE  requests' \subseteq Request
  BY <1>1, <1>2 DEF Advance, Drop, PipelineInv, Request
<1>3. CASE CheckRefusal(r) \/ DismissRetried(r)
  BY <1>1, <1>2, <1>3, OthersMove DEF CheckRefusal, DismissRetried, captionVars, RequestLeaves
<1>4. CASE SelectActive(r) \/ InsertJob(r)
  <2>1. UNCHANGED worker
    BY <1>4 DEF SelectActive, InsertJob, RequestLeaves
  <2>2. Begin(r.url, r.url) \/ UNCHANGED <<claims, fetches>>
    BY <1>4 DEF SelectActive, InsertJob, Enqueued
  <2>3. \/ Advance(r, "insert") \/ Advance(r, "dismiss") \/ Drop(r)
    BY <1>4 DEF SelectActive, InsertJob, Enqueued
  <2> QED
    BY <1>1, <1>2, <2>1, <2>2, <2>3, RequestFetchKeeps
<1> QED
  BY <1>3, <1>4 DEF RequestStep

LEMMA UserStepKeeps == ASSUME PipelineInv, [Next]_vars, UserStep PROVE PipelineInv'
<1>1. CASE \E u \in Url : Play(u) \/ Leave(u) \/ RefusedElsewhere(u)
  <2>1. requests' \subseteq Request
    BY <1>1 DEF Play, Leave, RefusedElsewhere, Ask, PipelineInv, Request
  <2> QED
    BY <1>1, <2>1, OthersMove
       DEF Play, Leave, RefusedElsewhere, captionVars, ClearSubtitleRetry, RequestLeaves
<1>2. CASE \E u \in Url : PlayStreaming(u)
  BY <1>2, RequestFetchKeeps DEF PlayStreaming, RequestLeaves, PipelineInv
<1>3. CASE \E j \in Job : RetryJob(j)
  <2> PICK j \in Job : RetryJob(j)
    BY <1>3
  <2>1. [url |-> jobs[j].url, of |-> j, stage |-> "check"] \in Request
    BY DEF RetryJob, PipelineInv, StoreInv, Row, Request
  <2> QED
    BY <2>1, OthersMove DEF RetryJob, Ask, captionVars, RequestLeaves, PipelineInv
<1>4. CASE ActivityPage
  BY <1>4, OthersMove DEF ActivityPage, captionVars, RequestLeaves, PipelineInv
<1> QED
  BY <1>1, <1>2, <1>3, <1>4 DEF UserStep

LEMMA FetchKeeps ==
  ASSUME PipelineInv, [Next]_vars, NEW f \in fetches, FetchProceeds(f) \/ FetchErrs(f)
  PROVE  PipelineInv'
<1>1. UNCHANGED requests /\ ResumeCaller(f)
  BY DEF FetchProceeds, FetchErrs
<1>2. \/ End(f)
      \/ /\ fetches' = (fetches \ {f}) \cup {[f EXCEPT !.stage = "publishing"]}
         /\ UNCHANGED claims
  BY DEF FetchProceeds, FetchErrs, FetchRefused, FetchEmpty, FetchLands, Publish, PublishErrs,
         FetchTimesOut, FetchUnrecorded
<1> QED
  BY <1>1, <1>2, FetchGoesOn

LEMMA FaultKeeps == ASSUME PipelineInv, [Next]_vars, Fault PROVE PipelineInv'
<1>1. CASE Crash
  <2>1. worker' \in [Worker -> [pc : Pc, job : Job \cup {NoJob}]] /\ CarriedWasClaimed'
    BY <1>1 DEF Crash, Idle, Pc, CarriedWasClaimed
  <2>2. requests' = {} /\ claims' = {} /\ fetches' = {}
    BY <1>1 DEF Crash
  <2> QED
    BY <2>1, <2>2, TablesKeep DEF PipelineInv, FetchersWait, OneFetchPerVideo
<1>2. ASSUME NEW w \in Worker, RegisterErrs(w) \/ FinishErrs(w) PROVE PipelineInv'
  BY <1>2, GoToKeeps, IdleKeeps DEF RegisterErrs, FinishErrs, captionVars, Pc
<1>3. ASSUME NEW w \in Worker, CatalogErrs(w) PROVE PipelineInv'
  <2>1. worker[w].pc \notin {"idle", "fetching"}
    BY <1>3 DEF CatalogErrs, MediaTarget
  <2>2. CASE worker[w].pc = "evict"
    <3>1. worker' = [worker EXCEPT ![w] = Idle]
      BY <1>3, <2>2 DEF CatalogErrs
    <3> QED
      BY <1>3, <2>1, <3>1, IdleKeeps DEF CatalogErrs, captionVars
  <2>3. CASE worker[w].pc # "evict"
    <3>1. GoTo(w, "finishFailed")
      BY <1>3, <2>3 DEF CatalogErrs, GoTo
    <3> QED
      BY <1>3, <2>1, <3>1, GoToKeeps DEF CatalogErrs, captionVars, Pc
  <2> QED BY <2>2, <2>3
<1>4. CASE \E f \in fetches : FetchErrs(f)
  BY <1>4, FetchKeeps
<1>5. CASE \E u \in Url : ReportErrs(u) \/ LeaveErrs(u)
  BY <1>5, OthersMove DEF ReportErrs, LeaveErrs, captionVars, RequestLeaves, PipelineInv
<1>6. CASE \E u \in Url : PlayUnchecked(u)
  <2>1. requests' \subseteq Request
    BY <1>6 DEF PlayUnchecked, Ask, PipelineInv, Request
  <2> QED
    BY <1>6, <2>1, OthersMove DEF PlayUnchecked, captionVars, RequestLeaves
<1>7. CASE \E r \in requests : RequestErrs(r) \/ RetryUnchecked(r)
  <2>1. requests' \subseteq Request
    BY <1>7 DEF RequestErrs, RetryUnchecked, Drop, Advance, PipelineInv, Request
  <2> QED
    BY <1>7, <2>1, OthersMove DEF RequestErrs, RetryUnchecked, captionVars, RequestLeaves
<1>8. CASE SweepErrs
  BY <1>8, OthersMove DEF SweepErrs, captionVars, PipelineInv
<1> QED
  BY <1>1, <1>2, <1>3, <1>4, <1>5, <1>6, <1>7, <1>8 DEF Fault

LEMMA PipelineInvStep == ASSUME PipelineInv, [Next]_vars PROVE PipelineInv'
<1>1. CASE UNCHANGED vars
  BY <1>1, OthersMove DEF vars, captionVars, processVars, PipelineInv
<1>2. CASE \E w \in Worker : WorkerStep(w)
  BY <1>2, WorkerStepKeeps
<1>3. CASE SweepStep
  BY <1>3, SweepStepKeeps
<1>4. CASE \E f \in fetches : FetchProceeds(f)
  BY <1>4, FetchKeeps
<1>5. CASE \E r \in requests : RequestStep(r)
  BY <1>5, RequestStepKeeps
<1>6. CASE UserStep
  BY <1>6, UserStepKeeps
<1>7. CASE \/ \E u \in Url : Report(u) \/ CopyGone(u)
           \/ Booted
           \/ TimePasses
  BY <1>7, OthersMove DEF Report, CopyGone, Booted, TimePasses, Elapse, RetryWaitElapses,
                          captionVars, processVars, PipelineInv
<1>8. CASE Fault
  BY <1>8, FaultKeeps
<1> QED
  BY <1>1, <1>2, <1>3, <1>4, <1>5, <1>6, <1>7, <1>8 DEF Next, Step

THEOREM PipelineInvariant == Spec => []PipelineInv
<1>1. Init => PipelineInv
  BY PipelineInvInit
<1>2. PipelineInv /\ [Next]_vars => PipelineInv'
  BY PipelineInvStep
<1> QED
  BY <1>1, <1>2, PTL DEF Spec

(* The ingest process implements the jobs table: its steps are the table's  *)
(* statements, one at a time, with any number of workers and any faults.    *)
THEOREM PipelineImplementsStore == Spec => StoreSpec
<1>1. Init => StoreInit
  BY DEF Init
<1>2. PipelineInv /\ [Next]_vars => [StoreNext]_storeVars
  BY NextStores
<1> QED
  BY <1>1, <1>2, PipelineInvariant, PTL DEF Spec, StoreSpec

(* No video ever has two caption fetches, and a claim is held exactly as    *)
(* long as its fetch, through timeouts, failed publishes and crashes        *)
(* (begin, done and their three callers).                                   *)
THEOREM OneFetchPerVideoHolds == Spec => []OneFetchPerVideo
<1>1. PipelineInv => OneFetchPerVideo
  BY DEF PipelineInv
<1> QED
  BY <1>1, PipelineInvariant, PTL

(* What the table guarantees, the running process has: one active job per   *)
(* URL, whatever requests, retries and releases race.                       *)
THEOREM PipelineOneActivePerUrl == Spec => []OneActivePerUrl
BY PipelineImplementsStore, OneActivePerUrlHolds, PTL

-----------------------------------------------------------------------------
(* Success is final.                                                        *)

\* A worker has not seen the end of what it carries, unless it comes from
\* another worker.
CarriedNotSucceeded == \A w \in Worker : worker[w].pc # "idle" => jobs[worker[w].job].state # "SUCCEEDED"

\* A row that succeeded stays so, and no other comes to.
SuccessStays ==
  \A j \in DOMAIN jobs :
    j \in DOMAIN jobs' /\ (jobs'[j].state = "SUCCEEDED" <=> jobs[j].state = "SUCCEEDED")

(* Of the statements only Finish touches a row that succeeded, or makes one. *)
LEMMA RowsOfOthersStay ==
  ASSUME StoreInv, NEW k,
         \/ Claim(k) \/ Heartbeat(k) \/ MarkResolved(k) \/ Cancel(k) \/ Dismiss(k)
         \/ RequeueFailed(k) \/ LeaseLapses(k) \/ BackoffElapses(k)
  PROVE  SuccessStays
<1> SUFFICES ASSUME NEW j \in DOMAIN jobs
             PROVE  j \in DOMAIN jobs' /\ (jobs'[j].state = "SUCCEEDED" <=> jobs[j].state = "SUCCEEDED")
  BY DEF SuccessStays
<1>1. jobs[j] \in Row
  BY DEF StoreInv
<1>2. CASE Claim(k)
  BY <1>1, <1>2 DEF Claim, OldestQueued, Row
<1>3. CASE Dismiss(k) \/ Heartbeat(k) \/ MarkResolved(k)
  BY <1>1, <1>3 DEF Dismiss, CanDismiss, Heartbeat, MarkResolved, Row
<1>4. CASE Cancel(k)
  BY <1>1, <1>4 DEF Cancel, CancelRow, Active, Row
<1>5. CASE RequeueFailed(k) \/ LeaseLapses(k) \/ BackoffElapses(k)
  BY <1>1, <1>5 DEF RequeueFailed, RetryDue, LeaseLapses, BackoffElapses, Row
<1> QED
  BY <1>2, <1>3, <1>4, <1>5

LEMMA TableStays ==
  ASSUME StoreInv,
         \/ UNCHANGED jobs
         \/ ReleaseExpired
         \/ \E s \in {"FAILED", "SUCCEEDED"} : DismissByState(s)
         \/ \E u \in Url : CancelForVideo(u) \/ \E k \in Job : Insert(u, k)
  PROVE  SuccessStays
<1> SUFFICES ASSUME NEW j \in DOMAIN jobs
             PROVE  j \in DOMAIN jobs' /\ (jobs'[j].state = "SUCCEEDED" <=> jobs[j].state = "SUCCEEDED")
  BY DEF SuccessStays
<1>1. jobs[j] \in Row
  BY DEF StoreInv
<1>2. CASE UNCHANGED jobs
  BY <1>2
<1>3. CASE ReleaseExpired
  BY <1>1, <1>3 DEF ReleaseExpired, Release, Row
<1>4. CASE \E s \in {"FAILED", "SUCCEEDED"} : DismissByState(s)
  BY <1>1, <1>4 DEF DismissByState, Row
<1>5. CASE \E u \in Url : CancelForVideo(u)
  BY <1>1, <1>5 DEF CancelForVideo, CancelRow, Active, Row
<1>6. CASE \E u \in Url : \E k \in Job : Insert(u, k)
  BY <1>1, <1>6 DEF Insert, IsNextId
<1> QED
  BY <1>2, <1>3, <1>4, <1>5, <1>6

(* Only a worker with a verdict issues Finish.                              *)
LEMMA SuccessIsAVerdict ==
  ASSUME PipelineInv, [Next]_vars, ~\E w \in Worker : FinishJob(w)
  PROVE  SuccessStays
<1>0. StoreInv
  BY DEF PipelineInv
<1>1. CASE UNCHANGED vars
  BY <1>0, <1>1, TableStays DEF vars, storeVars
<1>2. ASSUME NEW w \in Worker, WorkerStep(w) PROVE SuccessStays
  <2>1. CASE ClaimJob(w) \/ HeartbeatLands(w) \/ Resolve(w)
    BY <1>0, <2>1, RowsOfOthersStay DEF ClaimJob, HeartbeatLands, Resolve
  <2>2. CASE PreviewRefused(w) \/ ReportRefused(w)
    <3>1. UNCHANGED jobs
      BY <2>2 DEF PreviewRefused, ReportRefused, ToldCatalog, MarkUnavailable, MarkUnavailableReported,
                  storeVars
    <3> QED BY <1>0, <3>1, TableStays
  <2>3. CASE \/ PreviewFails(w)  \/ Register(w)      \/ CaptionsFirst(w) \/ HeartbeatMisses(w)
             \/ TransferFails(w) \/ TransferAgain(w) \/ TransferEnds(w)  \/ MarkCancelled(w)
             \/ MarkFailed(w)    \/ Deliver(w)
    <3>1. UNCHANGED jobs
      BY <2>3 DEF PreviewFails, Register, CaptionsFirst, HeartbeatMisses, TransferFails,
                  TransferAgain, TransferEnds, MarkCancelled, MarkFailed, Deliver, storeVars
    <3> QED BY <1>0, <3>1, TableStays
  <2> QED
    BY <1>2, <2>1, <2>2, <2>3 DEF WorkerStep
<1>3. CASE SweepStep
  <2>1. CASE SweepReleases
    BY <1>0, <2>1, TableStays DEF SweepReleases
  <2>2. CASE SweepRetries
    BY <1>0, <2>2, RowsOfOthersStay, TableStays DEF SweepRetries, storeVars
  <2>3. CASE SweepCaptions
    BY <1>0, <2>3, TableStays DEF SweepCaptions, storeVars
  <2> QED BY <1>3, <2>1, <2>2, <2>3 DEF SweepStep
<1>4. CASE \E f \in fetches : FetchProceeds(f)
  BY <1>0, <1>4, TableStays DEF FetchProceeds, storeVars
<1>5. ASSUME NEW r \in requests, RequestStep(r) PROVE SuccessStays
  <2>1. CASE CheckRefusal(r) \/ SelectActive(r)
    BY <1>0, <2>1, TableStays DEF CheckRefusal, SelectActive, storeVars
  <2>2. CASE InsertJob(r)
    <3>1. r.url \in Url
      BY DEF PipelineInv, Request
    <3> QED BY <1>0, <2>2, <3>1, TableStays DEF InsertJob, storeVars
  <2>3. CASE DismissRetried(r)
    BY <1>0, <2>3, RowsOfOthersStay, TableStays DEF DismissRetried, storeVars
  <2> QED BY <1>5, <2>1, <2>2, <2>3 DEF RequestStep
<1>6. CASE UserStep
  <2>1. CASE \E u \in Url : Play(u) \/ PlayStreaming(u) \/ Leave(u) \/ RefusedElsewhere(u)
    BY <1>0, <2>1, TableStays DEF Play, PlayStreaming, Leave, RefusedElsewhere, MarkUnavailable, storeVars
  <2>2. CASE \E j \in Job : RetryJob(j)
    BY <1>0, <2>2, TableStays DEF RetryJob, ClearUnavailable
  <2>3. CASE ActivityPage
    BY <1>0, <2>3, RowsOfOthersStay, TableStays DEF ActivityPage
  <2> QED BY <1>6, <2>1, <2>2, <2>3 DEF UserStep
<1>7. CASE Booted \/ \E u \in Url : Report(u) \/ CopyGone(u)
  <2>1. UNCHANGED jobs
    BY <1>7 DEF Booted, CopyGone, Report, ToldCatalog, MarkUnavailableReported, storeVars
  <2> QED BY <1>0, <2>1, TableStays
<1>8. CASE TimePasses
  BY <1>0, <1>8, RowsOfOthersStay, TableStays DEF TimePasses, Elapse, storeVars
<1>9. CASE Fault
  <2>1. CASE \E u \in Url : LeaveErrs(u)
    BY <1>0, <2>1, TableStays DEF LeaveErrs, storeVars
  <2>2. CASE ~\E u \in Url : LeaveErrs(u)
    <3>1. UNCHANGED jobs
      BY <1>9, <2>2 DEF Fault, Crash, RegisterErrs, CatalogErrs, FinishErrs, FetchErrs, ReportErrs,
                        PlayUnchecked, RequestErrs, RetryUnchecked, SweepErrs, storeVars
    <3> QED BY <1>0, <3>1, TableStays
  <2> QED BY <2>1, <2>2
<1> QED
  BY <1>1, <1>2, <1>3, <1>4, <1>5, <1>6, <1>7, <1>8, <1>9 DEF Next, Step

(* A worker keeps its job until it drops it, or takes one from the queue.   *)
LEMMA JobsAreClaimed ==
  ASSUME PipelineInv, [Next]_vars, NEW w \in Worker, worker'[w].pc # "idle", ~ClaimJob(w)
  PROVE  worker[w].pc # "idle" /\ worker'[w].job = worker[w].job
<1> DEFINE kept == worker[w].pc # "idle" /\ worker'[w].job = worker[w].job
<1>0. worker \in [Worker -> [pc : Pc, job : Job \cup {NoJob}]]
  BY DEF PipelineInv
<1>1. CASE UNCHANGED worker
  BY <1>1
<1>2. ASSUME NEW v \in Worker, WorkerStep(v) PROVE kept
  <2>1. CASE ClaimJob(v)
    BY <1>0, <2>1 DEF ClaimJob
  <2>2. CASE FinishJob(v) \/ MarkCancelled(v)
    BY <1>0, <2>2 DEF FinishJob, MarkCancelled, Idle
  <2>3. CASE \/ PreviewRefused(v) \/ ReportRefused(v) \/ PreviewFails(v) \/ Resolve(v) \/ Register(v)
             \/ CaptionsFirst(v)
    BY <1>0, <2>3 DEF PreviewRefused, ReportRefused, PreviewFails, Resolve, Register, CaptionsFirst, GoTo
  <2>4. CASE \/ HeartbeatMisses(v) \/ TransferFails(v) \/ TransferAgain(v) \/ TransferEnds(v)
             \/ MarkFailed(v) \/ Deliver(v)
    BY <1>0, <2>4 DEF HeartbeatMisses, TransferFails, TransferAgain, TransferEnds, MarkFailed, Deliver, GoTo,
                      Transferring
  <2>5. CASE HeartbeatLands(v)
    BY <1>1, <2>5 DEF HeartbeatLands
  <2> QED BY <1>2, <2>1, <2>2, <2>3, <2>4, <2>5 DEF WorkerStep
<1>3. ASSUME NEW f \in fetches, ResumeCaller(f) PROVE kept
  <2>1. CASE UNCHANGED worker
    BY <1>1, <2>1
  <2>2. CASE f.by \in Worker /\ worker' = [worker EXCEPT ![f.by].pc = "transfer"]
    BY <1>0, <2>2 DEF PipelineInv, FetchersWait
  <2> QED BY <1>3, <2>1, <2>2 DEF ResumeCaller
<1>4. CASE Fault
  <2>1. CASE Crash
    BY <2>1 DEF Crash, Idle
  <2>2. ASSUME NEW v \in Worker, RegisterErrs(v) \/ CatalogErrs(v) \/ FinishErrs(v) PROVE kept
    <3>1. CASE RegisterErrs(v) \/ FinishErrs(v)
      BY <1>0, <3>1 DEF RegisterErrs, FinishErrs, GoTo, Idle
    <3>2. CASE CatalogErrs(v)
      BY <1>0, <3>2 DEF CatalogErrs, MediaTarget, Idle
    <3> QED BY <2>2, <3>1, <3>2
  <2>3. CASE \E f \in fetches : FetchErrs(f)
    BY <1>3, <2>3 DEF FetchErrs
  <2>4. CASE \/ \E u \in Url : ReportErrs(u) \/ PlayUnchecked(u) \/ LeaveErrs(u)
             \/ \E r \in requests : RequestErrs(r) \/ RetryUnchecked(r)
             \/ SweepErrs
    BY <1>1, <2>4 DEF ReportErrs, PlayUnchecked, LeaveErrs, RequestErrs, RetryUnchecked, SweepErrs, RequestLeaves
  <2> QED BY <1>4, <2>1, <2>2, <2>3, <2>4 DEF Fault
<1>5. CASE UNCHANGED vars \/ SweepStep \/ Booted \/ TimePasses
  BY <1>1, <1>5 DEF vars, processVars, SweepStep, SweepReleases, SweepRetries, SweepCaptions, SweepLeaves,
                    Booted, TimePasses
<1>6. CASE \E r \in requests : RequestStep(r)
  BY <1>1, <1>6 DEF RequestStep, CheckRefusal, SelectActive, InsertJob, DismissRetried, RequestLeaves
<1>7. CASE UserStep \/ \E u \in Url : Report(u) \/ CopyGone(u)
  BY <1>1, <1>7 DEF UserStep, Play, PlayStreaming, Leave, RefusedElsewhere, RetryJob, ActivityPage,
                    Report, CopyGone, RequestLeaves, processVars
<1>8. CASE \E f \in fetches : FetchProceeds(f)
  BY <1>3, <1>8 DEF FetchProceeds
<1> QED
  BY <1>2, <1>4, <1>5, <1>6, <1>7, <1>8 DEF Next, Step

LEMMA SuccessStep ==
  ASSUME PipelineInv, CarriedNotSucceeded, [Next]_vars, \A v, w \in Worker : v = w
  PROVE  /\ CarriedNotSucceeded'
         /\ \A j \in DOMAIN jobs : jobs[j].state = "SUCCEEDED" => jobs'[j].state = "SUCCEEDED"
<1>1. CASE \E w \in Worker : FinishJob(w)
  <2> PICK w \in Worker : FinishJob(w)
    BY <1>1
  <2>1. worker[w].pc # "idle" /\ worker'[w].pc = "idle"
    BY DEF FinishJob, Idle, PipelineInv
  <2>2. \A j \in DOMAIN jobs : j # worker[w].job => jobs'[j] = jobs[j]
    BY DEF FinishJob, Finish
  <2>3. jobs[worker[w].job].state # "SUCCEEDED"
    BY <2>1 DEF CarriedNotSucceeded
  <2>4. CarriedNotSucceeded'
    BY <2>1 DEF CarriedNotSucceeded
  <2> QED BY <2>2, <2>3, <2>4
<1>2. CASE ~\E w \in Worker : FinishJob(w)
  <2>1. SuccessStays
    BY <1>2, SuccessIsAVerdict
  <2>2. ASSUME NEW w \in Worker, worker'[w].pc # "idle" PROVE jobs'[worker'[w].job].state # "SUCCEEDED"
    <3>1. CASE ClaimJob(w)
      <4> PICK j \in Job : Claim(j) /\ worker' = [worker EXCEPT ![w] = [pc |-> "preview", job |-> j]]
        BY <3>1 DEF ClaimJob
      <4>1. worker'[w].job = j /\ jobs[j] \in Row /\ j \in DOMAIN jobs
        BY DEF PipelineInv, StoreInv, Claim, OldestQueued
      <4>2. jobs'[j].state = "RUNNING"
        BY <4>1 DEF Claim, Row
      <4> QED BY <4>1, <4>2
    <3>2. CASE ~ClaimJob(w)
      <4>1. worker[w].pc # "idle" /\ worker'[w].job = worker[w].job
        BY <2>2, <3>2, JobsAreClaimed
      <4>2. worker[w].job \in DOMAIN jobs
        BY <4>1, CarriedRow DEF WasClaimed
      <4> QED BY <2>1, <4>1, <4>2 DEF CarriedNotSucceeded, SuccessStays
    <3> QED BY <3>1, <3>2
  <2> QED BY <2>1, <2>2 DEF CarriedNotSucceeded, SuccessStays
<1> QED
  BY <1>1, <1>2

(* A job that succeeded stays so, with the one worker that is deployed,     *)
(* whatever leases lapse, verdicts come late and failures are retried       *)
(* (Finish, ReleaseExpired, RequeueFailed).  The one worker is needed: two  *)
(* may carry one job after its lease lapsed.                                *)
THEOREM SuccessIsFinal ==
  ASSUME \A v, w \in Worker : v = w PROVE Spec => SucceededIsFinal
<1>1. Init => CarriedNotSucceeded
  BY DEF Init, Idle, CarriedNotSucceeded
<1>2. PipelineInv /\ CarriedNotSucceeded /\ [Next]_vars => CarriedNotSucceeded'
  BY SuccessStep
<1>3. PipelineInv /\ CarriedNotSucceeded /\ [Next]_vars
      => [\A j \in DOMAIN jobs : jobs[j].state = "SUCCEEDED" => jobs'[j].state = "SUCCEEDED"]_jobs
  BY SuccessStep
<1> QED
  BY <1>1, <1>2, <1>3, PipelineInvariant, PTL DEF Spec, SucceededIsFinal
=============================================================================
