--------------------------- MODULE JobStoreProofs ---------------------------
(***************************************************************************)
(* What the jobs table guarantees for any number of rows, URLs and backoff  *)
(* steps, whoever issues its statements and in whatever order.              *)
(*                                                                          *)
(* The inductive invariant is the conjunction of the invariants the runs    *)
(* check.  A statement changes rows one by one, so the argument is about    *)
(* one row: what it becomes is again a well formed row whose columns agree  *)
(* (RowOK), and it is QUEUED or RUNNING afterwards only if it was before,   *)
(* or if no other row of its URL is.                                        *)
(***************************************************************************)
EXTENDS JobStore, TLAPS

\* One row: its columns have their types and agree with its state.
RowOK(row) ==
  /\ row \in Row
  /\ row.attempts <= Backoff + 1
  /\ row.state = "QUEUED" => row.attempts <= Backoff
  /\ row.state \in Active => ~row.dismissed
  /\ row.state = "RUNNING" => row.lease # "null"
  /\ row.state = "QUEUED" => row.lease = "null"
  /\ (row.finished = "null") <=> (row.state \in Active)

StoreInv ==
  /\ DOMAIN jobs \subseteq Job
  /\ jobs \in [DOMAIN jobs -> Row]
  /\ refused \in [Url -> {"no", "unreported", "reported"}]
  /\ \A j \in DOMAIN jobs : RowOK(jobs[j])
  /\ OneActivePerUrl

-----------------------------------------------------------------------------
(* Every statement that changes one row in place keeps the invariant if the *)
(* new row is well formed, has the old URL, and is active only if the old   *)
(* one was or the URL had no active row.                                    *)
LEMMA OneRowChanges ==
  ASSUME StoreInv,
         NEW j \in DOMAIN jobs, NEW row,
         RowOK(row), row.url = jobs[j].url,
         row.state \in Active => jobs[j].state \in Active \/ ~HasActive(jobs[j].url),
         jobs' = [jobs EXCEPT ![j] = row],
         UNCHANGED refused
  PROVE  StoreInv'
<1>1. DOMAIN jobs' = DOMAIN jobs
  OBVIOUS
<1>2. \A k \in DOMAIN jobs : jobs'[k] = IF k = j THEN row ELSE jobs[k]
  OBVIOUS
<1>3. \A k \in DOMAIN jobs : RowOK(jobs'[k])
  BY <1>2 DEF StoreInv
<1>4. jobs' \in [DOMAIN jobs' -> Row]
  BY <1>1, <1>2, <1>3 DEF StoreInv, RowOK
<1>5. OneActivePerUrl'
  <2> SUFFICES ASSUME NEW k \in DOMAIN jobs, NEW l \in DOMAIN jobs,
                      jobs'[k].url = jobs'[l].url,
                      jobs'[k].state \in Active, jobs'[l].state \in Active
               PROVE  k = l
    BY <1>1 DEF OneActivePerUrl, Active
  <2>1. CASE k # j /\ l # j
    BY <2>1, <1>2 DEF StoreInv, OneActivePerUrl
  <2>2. CASE k = j /\ l # j
    BY <2>2, <1>2 DEF StoreInv, OneActivePerUrl, HasActive
  <2>3. CASE k # j /\ l = j
    BY <2>3, <1>2 DEF StoreInv, OneActivePerUrl, HasActive
  <2> QED BY <2>1, <2>2, <2>3
<1> QED
  BY <1>1, <1>3, <1>4, <1>5 DEF StoreInv, RowOK

(* A statement that changes any number of rows at once keeps the invariant  *)
(* if it makes no row active and leaves every row well formed.              *)
LEMMA ManyRowsChange ==
  ASSUME StoreInv,
         DOMAIN jobs' = DOMAIN jobs,
         jobs' = [j \in DOMAIN jobs |-> jobs'[j]],
         \A j \in DOMAIN jobs :
           /\ RowOK(jobs'[j])
           /\ jobs'[j].url = jobs[j].url
           /\ jobs'[j].state \in Active => jobs[j].state \in Active,
         UNCHANGED refused
  PROVE  StoreInv'
<1>1. jobs' \in [DOMAIN jobs' -> Row]
  BY DEF RowOK
<1>2. OneActivePerUrl'
  BY DEF StoreInv, OneActivePerUrl, Active
<1> QED
  BY <1>1, <1>2 DEF StoreInv, RowOK

-----------------------------------------------------------------------------
LEMMA StoreInvInit == StoreInit => StoreInv
BY DEF StoreInit, StoreInv, OneActivePerUrl

LEMMA InsertKeeps == ASSUME StoreInv, NEW u \in Url, NEW j \in Job, Insert(u, j) PROVE StoreInv'
<1>1. RowOK(NewRow(u)) /\ NewRow(u).url = u
  BY JobStoreAssumption DEF RowOK, NewRow, Row, Active, Terminal
<1>2. /\ DOMAIN jobs' = DOMAIN jobs \cup {j}
      /\ j \notin DOMAIN jobs
      /\ jobs'[j] = NewRow(u)
      /\ \A k \in DOMAIN jobs : jobs'[k] = jobs[k]
  BY DEF Insert, IsNextId
<1>3. \A k \in DOMAIN jobs' : RowOK(jobs'[k])
  BY <1>1, <1>2 DEF StoreInv
<1>4. jobs' \in [DOMAIN jobs' -> Row]
  BY <1>3 DEF RowOK, Insert
<1>5. OneActivePerUrl'
  BY <1>1, <1>2 DEF StoreInv, OneActivePerUrl, Insert, HasActive
<1> QED
  BY <1>2, <1>3, <1>4, <1>5 DEF StoreInv, Insert, RowOK

LEMMA CancelKeeps == ASSUME StoreInv, NEW j, Cancel(j) PROVE StoreInv'
<1>1. RowOK(CancelRow(jobs[j])) /\ CancelRow(jobs[j]).url = jobs[j].url
  BY DEF StoreInv, RowOK, Row, Cancel, CancelRow, Active, Terminal
<1> QED
  BY <1>1, OneRowChanges DEF Cancel

LEMMA DismissKeeps == ASSUME StoreInv, NEW j, Dismiss(j) PROVE StoreInv'
<1> DEFINE row == [jobs[j] EXCEPT !.dismissed = TRUE]
<1>1. RowOK(row) /\ row.url = jobs[j].url /\ row.state = jobs[j].state
  BY DEF StoreInv, RowOK, Row, Dismiss, CanDismiss, Active, Terminal
<1>2. jobs' = [jobs EXCEPT ![j] = row]
  BY DEF Dismiss
<1> QED
  BY <1>1, <1>2, OneRowChanges DEF Dismiss, CanDismiss

LEMMA ClaimKeeps == ASSUME StoreInv, NEW j, Claim(j) PROVE StoreInv'
<1> DEFINE row == [jobs[j] EXCEPT !.state = "RUNNING", !.attempts = @ + 1, !.lease = "live"]
<1>1. RowOK(row) /\ row.url = jobs[j].url /\ jobs[j].state \in Active
  BY JobStoreAssumption DEF StoreInv, RowOK, Row, Claim, OldestQueued, Active, Terminal
<1>2. jobs' = [jobs EXCEPT ![j] = row]
  BY DEF Claim, OldestQueued, StoreInv, Row
<1> QED
  BY <1>1, <1>2, OneRowChanges DEF Claim, OldestQueued

LEMMA HeartbeatKeeps == ASSUME StoreInv, NEW j, Heartbeat(j) PROVE StoreInv'
<1> DEFINE row == [jobs[j] EXCEPT !.lease = "live"]
<1>1. RowOK(row) /\ row.url = jobs[j].url /\ row.state = jobs[j].state
  BY DEF StoreInv, RowOK, Row, Heartbeat, Active, Terminal
<1>2. jobs' = [jobs EXCEPT ![j] = row]
  BY DEF Heartbeat
<1> QED
  BY <1>1, <1>2, OneRowChanges DEF Heartbeat

LEMMA MarkResolvedKeeps == ASSUME StoreInv, NEW j, MarkResolved(j) PROVE StoreInv'
<1> DEFINE row == [jobs[j] EXCEPT !.resolved = TRUE]
<1>1. RowOK(row) /\ row.url = jobs[j].url /\ row.state = jobs[j].state
  BY DEF StoreInv, RowOK, Row, MarkResolved, Active, Terminal
<1>2. jobs' = [jobs EXCEPT ![j] = row]
  BY DEF MarkResolved
<1> QED
  BY <1>1, <1>2, OneRowChanges DEF MarkResolved

LEMMA FinishKeeps == ASSUME StoreInv, NEW j, NEW v, Finish(j, v) PROVE StoreInv'
<1> DEFINE row == [jobs[j] EXCEPT !.state = v, !.finished = "fresh", !.lease = "null"]
<1>1. RowOK(row) /\ row.url = jobs[j].url /\ row.state \notin Active
  BY DEF StoreInv, RowOK, Row, Finish, Active, Terminal
<1>2. jobs' = [jobs EXCEPT ![j] = row]
  BY DEF Finish
<1> QED
  BY <1>1, <1>2, OneRowChanges DEF Finish

LEMMA RequeueFailedKeeps == ASSUME StoreInv, NEW j, RequeueFailed(j) PROVE StoreInv'
<1> DEFINE row == [jobs[j] EXCEPT !.state = "QUEUED", !.finished = "null", !.lease = "null"]
<1>1. RowOK(row) /\ row.url = jobs[j].url
  BY JobStoreAssumption DEF StoreInv, RowOK, Row, RequeueFailed, RetryDue, Active, Terminal
<1>2. jobs' = [jobs EXCEPT ![j] = row]
  BY DEF RequeueFailed
<1> QED
  BY <1>1, <1>2, OneRowChanges DEF RequeueFailed, RetryDue

LEMMA LeaseLapsesKeeps == ASSUME StoreInv, NEW j, LeaseLapses(j) PROVE StoreInv'
<1> DEFINE row == [jobs[j] EXCEPT !.lease = "lapsed"]
<1>1. RowOK(row) /\ row.url = jobs[j].url /\ row.state = jobs[j].state
  BY DEF StoreInv, RowOK, Row, LeaseLapses, Active, Terminal
<1>2. jobs' = [jobs EXCEPT ![j] = row]
  BY DEF LeaseLapses
<1> QED
  BY <1>1, <1>2, OneRowChanges DEF LeaseLapses

LEMMA BackoffElapsesKeeps == ASSUME StoreInv, NEW j, BackoffElapses(j) PROVE StoreInv'
<1> DEFINE row == [jobs[j] EXCEPT !.finished = "due"]
<1>1. RowOK(row) /\ row.url = jobs[j].url /\ row.state = jobs[j].state
  BY DEF StoreInv, RowOK, Row, BackoffElapses, Active, Terminal
<1>2. jobs' = [jobs EXCEPT ![j] = row]
  BY DEF BackoffElapses
<1> QED
  BY <1>1, <1>2, OneRowChanges DEF BackoffElapses

LEMMA CancelForVideoKeeps == ASSUME StoreInv, NEW u, CancelForVideo(u) PROVE StoreInv'
<1>1. \A j \in DOMAIN jobs :
        jobs[j].state \in Active
          => RowOK(CancelRow(jobs[j])) /\ CancelRow(jobs[j]).url = jobs[j].url
                                       /\ CancelRow(jobs[j]).state \notin Active
  BY DEF StoreInv, RowOK, Row, CancelRow, Active, Terminal
<1>2. \A j \in DOMAIN jobs :
        /\ RowOK(jobs'[j]) /\ jobs'[j].url = jobs[j].url
        /\ jobs'[j].state \in Active => jobs[j].state \in Active
  BY <1>1 DEF CancelForVideo, StoreInv
<1> QED
  BY <1>2, ManyRowsChange DEF CancelForVideo

LEMMA DismissByStateKeeps == ASSUME StoreInv, NEW s, DismissByState(s) PROVE StoreInv'
<1> DEFINE row(j) == [jobs[j] EXCEPT !.dismissed = TRUE]
<1>1. \A j \in DOMAIN jobs :
        jobs[j].state = s => RowOK(row(j)) /\ row(j).url = jobs[j].url /\ row(j).state = s
  BY DEF StoreInv, RowOK, Row, DismissByState, Active, Terminal
<1>2. \A j \in DOMAIN jobs :
        /\ RowOK(jobs'[j]) /\ jobs'[j].url = jobs[j].url
        /\ jobs'[j].state \in Active => jobs[j].state \in Active
  BY <1>1 DEF DismissByState, StoreInv
<1> QED
  BY <1>2, ManyRowsChange DEF DismissByState

LEMMA ReleaseExpiredKeeps == ASSUME StoreInv, ReleaseExpired PROVE StoreInv'
<1>1. \A j \in DOMAIN jobs :
        jobs[j].state = "RUNNING"
          => RowOK(Release(jobs[j])) /\ Release(jobs[j]).url = jobs[j].url
  <2> SUFFICES ASSUME NEW j \in DOMAIN jobs, jobs[j].state = "RUNNING"
               PROVE  RowOK(Release(jobs[j])) /\ Release(jobs[j]).url = jobs[j].url
    OBVIOUS
  <2>1. RowOK(jobs[j])
    BY DEF StoreInv
  <2>2. CASE jobs[j].attempts >= GiveUpAfter
    BY <2>1, <2>2 DEF Release, RowOK, Row, Active, Terminal
  <2>3. CASE ~(jobs[j].attempts >= GiveUpAfter)
    <3>1. jobs[j].attempts \in Nat /\ jobs[j].attempts <= Backoff
      BY <2>1, <2>3, JobStoreAssumption DEF RowOK, Row
    <3>2. Release(jobs[j]) =
            [jobs[j] EXCEPT !.state = "QUEUED", !.finished = "null", !.lease = "null"]
      BY <2>3 DEF Release
    <3> QED
      BY <2>1, <3>1, <3>2 DEF RowOK, Row, Active, Terminal
  <2> QED BY <2>2, <2>3
<1>2. \A j \in DOMAIN jobs :
        /\ RowOK(jobs'[j]) /\ jobs'[j].url = jobs[j].url
        /\ jobs'[j].state \in Active => jobs[j].state \in Active
  BY <1>1 DEF ReleaseExpired, StoreInv, Active
<1> QED
  BY <1>2, ManyRowsChange DEF ReleaseExpired

LEMMA RefusalsKeep ==
  ASSUME StoreInv, NEW u \in Url,
         MarkUnavailable(u) \/ ClearUnavailable(u) \/ MarkUnavailableReported(u)
  PROVE  StoreInv'
<1>1. UNCHANGED jobs /\ refused' \in [Url -> {"no", "unreported", "reported"}]
  BY DEF MarkUnavailable, ClearUnavailable, MarkUnavailableReported, StoreInv
<1> QED
  BY <1>1 DEF StoreInv, OneActivePerUrl, RowOK

-----------------------------------------------------------------------------
LEMMA StoreInvStep == ASSUME StoreInv, [StoreNext]_storeVars PROVE StoreInv'
<1>1. CASE UNCHANGED storeVars
  BY <1>1 DEF storeVars, StoreInv, OneActivePerUrl, RowOK
<1>2. CASE \E j \in Job : RowStep(j)
  <2> PICK j \in Job : RowStep(j)
    BY <1>2
  <2> QED
    BY CancelKeeps, DismissKeeps, ClaimKeeps, HeartbeatKeeps, MarkResolvedKeeps, FinishKeeps,
       RequeueFailedKeeps, LeaseLapsesKeeps, BackoffElapsesKeeps DEF RowStep
<1>3. CASE \E u \in Url : UrlStep(u)
  BY <1>3, InsertKeeps, CancelForVideoKeeps, RefusalsKeep DEF UrlStep
<1>4. CASE \E s \in {"FAILED", "SUCCEEDED"} : DismissByState(s)
  BY <1>4, DismissByStateKeeps
<1>5. CASE ReleaseExpired
  BY <1>5, ReleaseExpiredKeeps
<1> QED
  BY <1>1, <1>2, <1>3, <1>4, <1>5 DEF StoreNext

THEOREM StoreInvariant == StoreSpec => []StoreInv
<1>1. StoreInit => StoreInv
  BY StoreInvInit
<1>2. StoreInv /\ [StoreNext]_storeVars => StoreInv'
  BY StoreInvStep
<1> QED
  BY <1>1, <1>2, PTL DEF StoreSpec

(* Whatever callers do, every row is well formed (the schema of jobs and    *)
(* unavailable_sources).                                                    *)
THEOREM StoreIsTyped == StoreSpec => []StoreTypeOK
<1>1. StoreInv => StoreTypeOK
  BY DEF StoreInv, StoreTypeOK
<1> QED
  BY <1>1, StoreInvariant, PTL

(* No URL ever has two jobs queued or running (jobs_active_source_idx).     *)
THEOREM OneActivePerUrlHolds == StoreSpec => []OneActivePerUrl
<1>1. StoreInv => OneActivePerUrl
  BY DEF StoreInv
<1> QED
  BY <1>1, StoreInvariant, PTL

(* No job is claimed more than Backoff + 1 times, and a queued job can      *)
(* always still be claimed (Claim, ReleaseExpired and RequeueFailed count   *)
(* on one column).                                                          *)
THEOREM AttemptsAreBounded == StoreSpec => []AttemptsBounded
<1>1. StoreInv => AttemptsBounded
  BY DEF StoreInv, RowOK, AttemptsBounded
<1> QED
  BY <1>1, StoreInvariant, PTL

(* No queued or running job is hidden from the Activity page (Dismiss,      *)
(* DismissByState and RequeueFailed).                                       *)
THEOREM ActiveIsAlwaysVisible == StoreSpec => []ActiveIsVisible
<1>1. StoreInv => ActiveIsVisible
  BY DEF StoreInv, RowOK, ActiveIsVisible
<1> QED
  BY <1>1, StoreInvariant, PTL

(* The lease and the finish time agree with the state (Claim, Finish,       *)
(* ReleaseExpired, RequeueFailed).                                          *)
THEOREM TimesAlwaysMatchState == StoreSpec => []TimesMatchState
<1>1. StoreInv => TimesMatchState
  BY DEF StoreInv, RowOK, TimesMatchState
<1> QED
  BY <1>1, StoreInvariant, PTL
=============================================================================
