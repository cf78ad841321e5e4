------------------------------ MODULE JobStore ------------------------------
(***************************************************************************)
(* The ingest service's Postgres schema: the jobs table, which is also the  *)
(* download queue, and unavailable_sources, the URLs upstream has refused   *)
(* for good.  Each action is one SQL statement of                           *)
(* services/ingest/internal/adapter/postgres/store.go, so it is atomic.     *)
(* Who issues the statements, and in which order, is the business of the    *)
(* modules that compose this one; on its own this module lets any caller    *)
(* issue any of them at any time.                                           *)
(*                                                                          *)
(* A statement that fails, or that updates no row, is a stuttering step.    *)
(* Timestamps are kept only as far as a WHERE clause reads them: a lease is *)
(* live or lapsed, a finish is fresh (inside the two minute cooldown) or    *)
(* due (its backoff is over).                                               *)
(***************************************************************************)
EXTENDS Integers, SourceUrls

CONSTANTS
  Job,          \* job ids, numbered in the order rows are created
  Backoff,      \* len(retryBackoff): how many waits RequeueFailed knows
  GiveUpAfter   \* the attempt at which an expired lease is given up

ASSUME JobStoreAssumption ==
  /\ Job \subseteq Nat
  /\ Backoff \in Nat
  /\ GiveUpAfter \in Nat
  /\ GiveUpAfter <= Backoff + 1

VARIABLES
  jobs,      \* the rows of the jobs table, by id
  refused    \* unavailable_sources: is there a row for the URL, was it reported

storeVars == <<jobs, refused>>

Active   == {"QUEUED", "RUNNING"}
Terminal == {"SUCCEEDED", "FAILED", "CANCELLED"}

Row == [url       : Url,
        state     : Active \cup Terminal,
        attempts  : Nat,
        resolved  : BOOLEAN,                       \* video_id is filled in
        dismissed : BOOLEAN,                       \* dismissed_at IS NOT NULL
        lease     : {"null", "live", "lapsed"},    \* lease_expires_at
        finished  : {"null", "fresh", "due"}]      \* finished_at

NewRow(u) == [url |-> u, state |-> "QUEUED", attempts |-> 0, resolved |-> FALSE,
              dismissed |-> FALSE, lease |-> "null", finished |-> "null"]

\* The partial unique index jobs_active_source_idx, as a question.
HasActive(u) == \E j \in DOMAIN jobs : jobs[j].url = u /\ jobs[j].state \in Active

\* LastFailureFor: the newest failure of the URL is inside the cooldown.
JustFailed(u) == \E j \in DOMAIN jobs : /\ jobs[j].url = u
                                        /\ jobs[j].state = "FAILED"
                                        /\ jobs[j].finished = "fresh"

IsNextId(j) == /\ j \in Job \ DOMAIN jobs
               /\ \A k \in Job : k < j => k \in DOMAIN jobs
               /\ \A k \in DOMAIN jobs : k < j

StoreInit ==
  /\ jobs = [j \in {} |-> NewRow(CHOOSE u \in Url : TRUE)]
  /\ refused = [u \in Url |-> "no"]

-----------------------------------------------------------------------------
(* Enqueue's INSERT.  Its SELECT is the caller's: between the two another   *)
(* request may have inserted, and then the unique index refuses this row.   *)
Insert(u, j) ==
  /\ IsNextId(j)
  /\ ~HasActive(u)
  /\ jobs' = [k \in DOMAIN jobs \cup {j} |-> IF k = j THEN NewRow(u) ELSE jobs[k]]
  /\ UNCHANGED refused

CancelRow(row) == [row EXCEPT !.state = "CANCELLED", !.finished = "fresh"]

\* Variant: the state left out of the WHERE clause.
CancelAny(j) ==
  /\ j \in DOMAIN jobs
  /\ jobs' = [jobs EXCEPT ![j] = CancelRow(@)]
  /\ UNCHANGED refused

Cancel(j) ==
  /\ j \in DOMAIN jobs
  /\ jobs[j].state \in Active
  /\ jobs' = [jobs EXCEPT ![j] = CancelRow(@)]
  /\ UNCHANGED refused

\* By video id, which a row has only once it is resolved.
CancelForVideo(u) ==
  /\ jobs' = [j \in DOMAIN jobs |->
                IF /\ jobs[j].url = u
                   /\ jobs[j].resolved
                   /\ jobs[j].state \in Active
                THEN CancelRow(jobs[j]) ELSE jobs[j]]
  /\ UNCHANGED refused

CanDismiss(j) == j \in DOMAIN jobs /\ jobs[j].state \notin Active /\ ~jobs[j].dismissed

Dismiss(j) ==
  /\ CanDismiss(j)
  /\ jobs' = [jobs EXCEPT ![j].dismissed = TRUE]
  /\ UNCHANGED refused

\* The Activity page offers it for the two states the RPC names.
DismissByState(s) ==
  /\ s \in {"FAILED", "SUCCEEDED"}
  /\ jobs' = [j \in DOMAIN jobs |->
                IF jobs[j].state = s THEN [jobs[j] EXCEPT !.dismissed = TRUE] ELSE jobs[j]]
  /\ UNCHANGED refused

\* Variant: a claim that passes over rows it has handed out before.
OldestUntried(j) ==
  /\ j \in DOMAIN jobs
  /\ jobs[j].state = "QUEUED"
  /\ jobs[j].attempts = 0

OldestQueued(j) ==
  /\ j \in DOMAIN jobs
  /\ jobs[j].state = "QUEUED"
  /\ \A k \in DOMAIN jobs : jobs[k].state = "QUEUED" => j <= k

\* Variants: attempts counted the wrong way; no lease written.
ClaimCountsDown(j) ==
  /\ OldestQueued(j)
  /\ jobs' = [jobs EXCEPT ![j].state = "RUNNING", ![j].attempts = @ - 1, ![j].lease = "live"]
  /\ UNCHANGED refused

ClaimLeaseless(j) ==
  /\ OldestQueued(j)
  /\ jobs' = [jobs EXCEPT ![j].state = "RUNNING", ![j].attempts = @ + 1]
  /\ UNCHANGED refused

Claim(j) ==
  /\ OldestQueued(j)
  /\ jobs' = [jobs EXCEPT ![j].state = "RUNNING",
                          ![j].attempts = @ + 1,
                          ![j].lease = "live"]
  /\ UNCHANGED refused

\* Progress aside, a heartbeat only moves the lease, and only of a RUNNING row.
Heartbeat(j) ==
  /\ j \in DOMAIN jobs
  /\ jobs[j].state = "RUNNING"
  /\ jobs' = [jobs EXCEPT ![j].lease = "live"]
  /\ UNCHANGED refused

MarkResolved(j) ==
  /\ j \in DOMAIN jobs
  /\ jobs' = [jobs EXCEPT ![j].resolved = TRUE]
  /\ UNCHANGED refused

\* WHERE id = $1 and nothing else: whatever the row says, it is overwritten.
Finish(j, verdict) ==
  /\ j \in DOMAIN jobs
  /\ verdict \in {"SUCCEEDED", "FAILED"}
  /\ jobs' = [jobs EXCEPT ![j].state = verdict,
                          ![j].finished = "fresh",
                          ![j].lease = "null"]
  /\ UNCHANGED refused

\* Variant: the lapsed lease stays in the row.
ReleaseKeepsLease(row) ==
  [row EXCEPT !.state = IF row.attempts >= GiveUpAfter THEN "FAILED" ELSE "QUEUED",
              !.finished = IF row.attempts >= GiveUpAfter THEN "fresh" ELSE "null"]

Release(row) ==
  IF row.attempts >= GiveUpAfter
  THEN [row EXCEPT !.state = "FAILED", !.finished = "fresh", !.lease = "null"]
  ELSE [row EXCEPT !.state = "QUEUED", !.finished = "null", !.lease = "null"]

ReleaseExpired ==
  /\ jobs' = [j \in DOMAIN jobs |->
                IF jobs[j].state = "RUNNING" /\ jobs[j].lease = "lapsed"
                THEN Release(jobs[j]) ELSE jobs[j]]
  /\ UNCHANGED refused

\* Variants: no limit on attempts; dismissed rows retried as well.
RetryDueAlways(j) ==
  /\ j \in DOMAIN jobs
  /\ jobs[j].state = "FAILED" /\ ~jobs[j].dismissed /\ jobs[j].finished = "due"
  /\ refused[jobs[j].url] = "no"

RetryDueDismissed(j) ==
  /\ j \in DOMAIN jobs
  /\ jobs[j].state = "FAILED" /\ jobs[j].attempts <= Backoff /\ jobs[j].finished = "due"
  /\ refused[jobs[j].url] = "no"

RetryDue(j) ==
  /\ j \in DOMAIN jobs
  /\ jobs[j].state = "FAILED"
  /\ ~jobs[j].dismissed
  /\ jobs[j].attempts <= Backoff
  /\ jobs[j].finished = "due"
  /\ refused[jobs[j].url] = "no"

\* Variant: no unique index.
RequeueFailedUnindexed(j) ==
  /\ RetryDue(j)
  /\ jobs' = [jobs EXCEPT ![j].state = "QUEUED", ![j].finished = "null", ![j].lease = "null"]
  /\ UNCHANGED refused

\* One row per statement.  Which of several due rows (the one that finished
\* first) is left open.  A row whose URL has an active job again violates the
\* unique index and the statement changes nothing.
RequeueFailed(j) ==
  /\ RetryDue(j)
  /\ ~HasActive(jobs[j].url)
  /\ jobs' = [jobs EXCEPT ![j].state = "QUEUED", ![j].finished = "null", ![j].lease = "null"]
  /\ UNCHANGED refused

\* The first refusal wins: a second one leaves the row, and its report, alone.
MarkUnavailable(u) ==
  /\ refused' = [refused EXCEPT ![u] = IF @ = "no" THEN "unreported" ELSE @]
  /\ UNCHANGED jobs

ClearUnavailable(u) ==
  /\ refused' = [refused EXCEPT ![u] = "no"]
  /\ UNCHANGED jobs

MarkUnavailableReported(u) ==
  /\ refused[u] # "no"
  /\ refused' = [refused EXCEPT ![u] = "reported"]
  /\ UNCHANGED jobs

-----------------------------------------------------------------------------
(* Time.  A lease nobody renewed lapses; a failure grows old enough.        *)
LeaseLapses(j) ==
  /\ j \in DOMAIN jobs
  /\ jobs[j].state = "RUNNING"
  /\ jobs[j].lease = "live"
  /\ jobs' = [jobs EXCEPT ![j].lease = "lapsed"]
  /\ UNCHANGED refused

BackoffElapses(j) ==
  /\ j \in DOMAIN jobs
  /\ jobs[j].state = "FAILED"
  /\ jobs[j].finished = "fresh"
  /\ jobs' = [jobs EXCEPT ![j].finished = "due"]
  /\ UNCHANGED refused

-----------------------------------------------------------------------------
\* Only a worker that claimed the row reports on it.
WasClaimed(j) == j \in DOMAIN jobs /\ jobs[j].attempts > 0

RowStep(j) ==
  \/ Cancel(j)
  \/ Dismiss(j)
  \/ Claim(j)
  \/ WasClaimed(j) /\ Heartbeat(j)
  \/ WasClaimed(j) /\ MarkResolved(j)
  \/ \E v \in {"SUCCEEDED", "FAILED"} : WasClaimed(j) /\ Finish(j, v)
  \/ RequeueFailed(j)
  \/ LeaseLapses(j)
  \/ BackoffElapses(j)

UrlStep(u) ==
  \/ \E j \in Job : Insert(u, j)
  \/ CancelForVideo(u)
  \/ MarkUnavailable(u)
  \/ ClearUnavailable(u)
  \/ MarkUnavailableReported(u)

StoreNext ==
  \/ \E j \in Job : RowStep(j)
  \/ \E u \in Url : UrlStep(u)
  \/ \E s \in {"FAILED", "SUCCEEDED"} : DismissByState(s)
  \/ ReleaseExpired

StoreSpec == StoreInit /\ [][StoreNext]_storeVars

-----------------------------------------------------------------------------
(* Every row is well formed, whatever the callers do.                       *)
StoreTypeOK ==
  /\ DOMAIN jobs \subseteq Job
  /\ jobs \in [DOMAIN jobs -> Row]
  /\ refused \in [Url -> {"no", "unreported", "reported"}]

(* At most one job per URL is queued or running, through inserts, lease     *)
(* releases and automatic retries alike (jobs_active_source_idx and the     *)
(* statements that would violate it).                                       *)
OneActivePerUrl ==
  \A j, k \in DOMAIN jobs :
    jobs[j].url = jobs[k].url /\ jobs[j].state \in Active /\ jobs[k].state \in Active => j = k

(* The lease sweep and the failure retry count on one column, each with its *)
(* own limit; together they still end: no job is claimed more than          *)
(* Backoff + 1 times, and a queued one can always still be claimed.         *)
AttemptsBounded ==
  \A j \in DOMAIN jobs :
    /\ jobs[j].attempts <= Backoff + 1
    /\ jobs[j].state = "QUEUED" => jobs[j].attempts <= Backoff

(* A job hidden from the Activity page is never one still queued or         *)
(* running: what somebody dealt with does not come back to work unseen.     *)
ActiveIsVisible ==
  \A j \in DOMAIN jobs : jobs[j].state \in Active => ~jobs[j].dismissed

(* Only a RUNNING row carries a lease that can lapse, and only a row that   *)
(* is over carries a finish time: otherwise the sweep would requeue a       *)
(* queued row, or the retry would read the finish of an earlier life.       *)
TimesMatchState ==
  \A j \in DOMAIN jobs :
    /\ jobs[j].state = "RUNNING" => jobs[j].lease # "null"
    /\ jobs[j].state = "QUEUED" => jobs[j].lease = "null"
    /\ (jobs[j].finished = "null") <=> (jobs[j].state \in Active)
=============================================================================
