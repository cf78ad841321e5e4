------------------------- MODULE PipelineProperties -------------------------
(* What the download pipeline should guarantee, and what its comments say.  *)
EXTENDS DownloadPipeline

(* Fairness: Preview, Postgres and the catalog answer in the end, the ticker *)
(* of the sweep and the clock go on, a start gets through, and a transfer    *)
(* whose heartbeat missed is stopped.  What users do, progress reports and   *)
(* faults are never owed.                                                    *)
WorkerMoves(w) ==
  \/ ClaimJob(w)        \/ PreviewRefused(w)  \/ ReportRefused(w)   \/ PreviewFails(w)
  \/ Resolve(w)         \/ Register(w)        \/ CaptionsFirst(w)
  \/ HeartbeatMisses(w) \/ TransferAgain(w)
  \/ MarkCancelled(w)   \/ MarkFailed(w)      \/ Deliver(w)         \/ FinishJob(w)

NoFault(A) == A /\ UNCHANGED faults
Abandoned(j) == /\ j \in DOMAIN jobs
                /\ jobs[j].state = "RUNNING"
                /\ \A w \in Worker : ~Carries(w, j)

UncarriedLeaseLapses(j) ==
  Abandoned(j) /\ LeaseLapses(j) /\ UNCHANGED <<captionVars, media, processVars, watching, bounds>>

Fairness ==
  /\ \A w \in Worker : WF_vars(NoFault(WorkerMoves(w)))
  /\ WF_vars(NoFault(SweepStep))
  /\ \A u \in Url : WF_vars(NoFault(\E f \in fetches : f.url = u /\ FetchProceeds(f)))
  /\ \A u \in Url : WF_vars(NoFault(Report(u)))
  /\ WF_vars(NoFault(Booted))
  /\ \A j \in Job : WF_vars(UncarriedLeaseLapses(j))
  /\ \A u \in Url : WF_vars(RetryWaitElapses(u) /\ UNCHANGED <<storeVars, processVars, watching, bounds>>)

(* A transfer is not owed an end: a livestream has none.                     *)
FairSpec == Spec /\ Fairness

(* No livestreams: every transfer ends, one way or the other.                *)
TransfersEnd ==
  \A w \in Worker : WF_vars(NoFault(TransferFails(w) \/ TransferEnds(w) \/ HeartbeatMisses(w)))
EndingSpec == FairSpec /\ TransfersEnd

-----------------------------------------------------------------------------
(* A job that succeeded stays so: with the one worker that is deployed,     *)
(* neither the verdict on a job that lost its lease nor the retry of        *)
(* failures touches it (Finish, RequeueFailed).                             *)
SucceededIsFinal ==
  [][\A j \in DOMAIN jobs : jobs[j].state = "SUCCEEDED" => jobs'[j].state = "SUCCEEDED"]_jobs

Queued(j) == j \in DOMAIN jobs /\ jobs[j].state = "QUEUED"

(* While transfers end, every queued job is claimed or cancelled in the     *)
(* end, whatever is ahead of it and however often that comes back to the    *)
(* queue (Run, Claim).                                                      *)
QueueDrains == \A j \in Job : Queued(j) ~> ~Queued(j)

(* A job that a dead worker left RUNNING does not stay so: its lease lapses *)
(* and the sweep gives it back or gives it up (ReleaseExpired).             *)
AbandonedJobIsReleased ==
  \A j \in Job : Abandoned(j) ~> ~Abandoned(j)

(* A video whose captions upstream refused is asked about again, until they *)
(* land, it is left, or upstream refuses the video itself                   *)
(* (RetrySubtitlesOnce: "it does not give up").                             *)
RefusedIsAskedAgain ==
  \A u \in Url :
    retries[u] = "waiting" ~> \/ \E f \in fetches : f.url = u
                              \/ retries[u] = "no"
                              \/ refused[u] # "no"

(* worker.go:273-277: cancelling frees the one worker slot even if the      *)
(* transfer would never end by itself.                                      *)
CancelFreesTheSlot ==
  \A w \in Worker :
    (worker[w].pc \in Transferring /\ jobs[worker[w].job].state # "RUNNING")
      ~> worker[w].pc \notin Transferring

-----------------------------------------------------------------------------
(* What comments of the source say, and the code does not keep.             *)

(* subtitles.go:160-163: publishing captions "introduces no state the job   *)
(* was not about to introduce anyway", so a READY video that no job is      *)
(* working on stays READY.                                                  *)
CaptionsKeepReady ==
  [][\A u \in Url :
       media[u] = "READY" /\ ~HasActive(u) => media'[u] # "DOWNLOADING"]_<<jobs, media>>

=============================================================================
