# Mytube: formal models

TLA+ models of the parts of this household video server that are hard to get
right: the download queue and its worker, caption fetches, the shelf, the
eviction sweep, the cast service, the mirror of the members' accounts, the
caches of signed URLs, the order of the Home feed and the narration of a video.
TLC checks the models on
small instances; TLAPS proves the most important invariants for every value of
the constants.

Paths below are relative to the repository; `ING` is `services/ingest/internal`,
`CAT` is `services/catalog/internal`, `GW` is `services/gateway/internal/api`,
`CAST` is `services/cast/internal`, `REC` is `services/recsys/internal`.

## 1. Inventory of the system

| Component | State it keeps | Operations | What is hard about it |
|---|---|---|---|
| Job table, `ING/adapter/postgres/store.go` | `jobs` (the queue), `unavailable_sources` | Enqueue, Claim, Heartbeat, MarkResolved, Finish, Cancel*, Dismiss*, ReleaseExpired, RequeueFailed, Mark/ClearUnavailable | statements of several callers interleave; two limits count on one column |
| Download worker and sweep, `ING/usecase/worker.go` | which job it carries | runOnce/process; every tick: release leases, requeue a failure, retry captions | leases, crashes, cancels during a transfer, a transfer that never ends |
| Requests, `ING/usecase/ingest.go` | none of its own | Submit, RetryJob, CancelVideoDownload, Activity page, refusals met outside a job, ReconcileUnavailable at start | several statements per request, each one stale for the next |
| Caption fetches, `ING/usecase/subtitles.go` | claims in memory, `subtitle_retries`, `.vtt` files | background fetch, worker's fetch, sweep's retry | three callers, one claim; deadlines; results later than the job |
| Catalog, `CAT/adapter/postgres/repository.go` | videos, saved, playlists, subscriptions, history | UpsertVideo, SetMediaState, SetPinned, DeleteUserData, imports, ... | `pinned` derived from `saved` under READ COMMITTED |
| Eviction sweep, `CAT/usecase/evict.go` | the media directory | SweepOnce, hourly | decides from rows read once; files and rows change apart |
| Narration, `GW/narration_manifest.go`, `narrated_stream.go`, `narrated_audio.go` | one pass per video in memory, the mixes on disk | start, move, stop a pass; stream a song with its lines; prepare the narrated file | a pass is moved and replaced under goroutines that still work for it; several streams and mixes read it |
| Gateway, `GW` | small settings files, narration cache | one route per page and control | side effects of the watch page |
| Scanner, live scan, backfill, `ING/usecase` | cursors, scan history | one pass at a time | interrupted passes, quotas, upstream refusals |
| Account mirror, `ING/usecase/accounts.go` | status of the pass | mirror subscriptions, playlists, watch later | pruning after partial failures; an unsynchronised flag |
| URL caches and HLS/remux, `ING/usecase/resolvecache.go`, `ING/adapter/httpapi` | signed URLs until they expire or are refused | get, put, forget, resolve once | a resolution under way when an entry is forgotten |
| Cast, `services/cast` | sessions (one per device), what the speaker does | start, follow every tick, commands, hand-off | a speaker with buttons of its own; load, save and crash in between |
| Recommendations, `services/recsys` | watch signals, feed snapshots | rank, quotas, rotation, missed | rounding, stable pages |
| Log viewer, `services/logview` | open files, subscribers | follow, publish | files rotated while followed |
| Web client, `web/src` | play queue, narration schedule | player, narration, pages | timers against media events |

How they interact. The gateway calls ingest, catalog, cast and recsys over RPC.
Ingest owns the job table and calls the catalog (`UpsertVideo`,
`SetMediaState`, the imports of mirrored lists); the cast service asks the
gateway for narrated sound and tells recsys how far a song was heard; recsys
keeps a projection of the catalog's library. The catalog owns `videos`, and its eviction sweep deletes the
files that ingest wrote. The services share nothing but the media directory: no
transaction spans two of them, so any call may fail between two writes and any
two of them may be out of step.

What makes the modelled parts correct:

* job table: at most one active job per URL, a bounded number of attempts,
  leases and finish times that belong to the state the row is in, nothing
  hidden that still runs;
* worker and sweep: no job stranded by a crash, none starved, success final, a
  cancel that frees the worker;
* captions: never two fetches of one video, no claim leaked, asked again until
  they land or nobody wants them;
* shelf: `pinned` says what the shelf says;
* eviction: over budget means swept, whatever cuts a sweep short;
* cast: one session per speaker, which ends once and for a reason; what the row
  says is loaded is what the speaker was handed, unless the write of it was lost,
  which is noticed; nobody's history is credited with what was not heard; no song
  is loading for ever;
* mirror: what a read did not cover is never removed, and the mirror catches up;
* signed URLs: a retry is on another URL, and a dead one does not stay;
* narration: a pass that says it runs will report; a listener hears the lines as they
  are; of a finished pass the cast service is told ready in the end;
* Home: pages continue one ordering, which has what was ranked before it was
  stamped, and the turn of every video that may be shown comes.

`PROJECT.json` lists the components one by one with what is modelled of each,
and the hazards with the line where they bite.

## 2. The modules

```
SourceUrls ---- JobStore ------------------+
     |                                     |
     +--- CatalogMedia --- Captions --- DownloadPipeline --- PipelineProperties
                                                                    |
JobStoreProofs (EXTENDS JobStore)               PipelineProofs, MCDownloadPipeline

SavedPins --- SavedPinsProofs, MCSavedPins          Eviction --- MCEviction

CastDomain --- CastEngine --- CastProperties --- MCCast, CastProofs
                                  | INSTANCE (refinement)
                             CastSessions

AccountMirror --- AccountProperties --- MCAccounts, AccountProofs

StreamUrls --- StreamProperties --- MCStreams, StreamProofs

FeedMix --- Feed --- FeedProperties --- MCFeed, FeedProofs

Narration --- NarrationProperties --- MCNarration, NarrationProofs
```

**JobStore** is the abstract specification of the queue: the two tables, and
one action per SQL statement of `store.go`, issued by anybody at any time.
A `jobs` row keeps its URL, state, attempts, whether `video_id` is filled in,
whether it is dismissed, and its two timestamps as far as a WHERE clause can tell
them apart: a lease is `null`, `live` or `lapsed`; a finish is `null`, `fresh`
(inside the two minute cooldown) or `due` (its backoff is over). `LeaseLapses`
and `BackoffElapses` are time passing. A statement that fails or matches no row
is a stutter. `Insert` and `RequeueFailed` carry the partial unique index
`jobs_active_source_idx` as a guard. `RequeueFailed` leaves open which of several
due rows it picks (the code: the one that finished first).

**CatalogMedia** is `videos.media_state`: `SetMediaState` writes any state over
any other, and `UpsertVideo` leaves an existing row's state alone, as its
ON CONFLICT clause does.

**Captions** is `subtitles.go` with `subtitle_retries`: the in-memory claim per
video, a fetch that is asking and then publishing, the retry row, the tracks on
disk and the tracks the catalog lists. Each outcome of a fetch is an action.

**DownloadPipeline** composes the three into the ingest process. `worker[w]`
says where `process()` is and with which job; one step is one statement or
call, so everything that takes time lies between two steps:

| `pc` | `worker.go` |
|---|---|
| `idle` | waiting in `Run` |
| `preview` | `Preview` is running (219) |
| `refused` | refusal recorded, catalog not told yet (229) |
| `register` | `MarkResolved` done, upserts to come (249-258) |
| `captions`, `fetching` | `fetchSubtitlesOnce` (268) |
| `transfer`, `waiting`, `transferAgain` | `Download`, the wait, the second try (293-335) |
| `evict`, `fail`, `deliver` | the three ways a transfer ends (337-365) |
| `finishFailed`, `finishSucceeded` | `Finish` in `runOnce` (187-212) |

`sweep` is the tick: release, retry one failure, retry one video's captions.
`requests` are submits between two of their statements (refusal check, SELECT,
INSERT, and the dismissal that ends a Retry). The automatic submit's refusal
check and cooldown are one step with the press, which loses nothing: what they
read can be stale by the next step either way. `Fault` collects what goes wrong:
a crash between any two steps, and each call that may fail, with what the code
does about it. After a crash `booting` holds everything back until
`ReconcileUnavailable` is through.

**SavedPins** is `SetPinned` and the part of `DeleteUserData` that recomputes
`pinned`, one statement per step under READ COMMITTED: a statement sees what
was committed when it began and its own transaction's writes; an UPDATE that
meets a locked row waits, reads that row again and re-evaluates its WHERE, but its
subquery still works from the old snapshot. That is PostgreSQL's documented
behaviour and the one thing here taken from outside the repository.

**Eviction** is `SweepOnce` (measure, list candidates, per candidate remove the
file and mark the row) among everybody who writes what it reads: members saving
and watching, the worker's copies, other writes of `media_state`, deletion by
hand, the page that finds a file missing, a drive that is unplugged. `SetPinned`
is one step here; SavedPins has it in detail.

**CastDomain** translates `CAST/domain` function by function: a session and what
it becomes (`LoadAt`, `Advance`, `SkipFailed`, `ReplaceQueue`, `Reconcile` in its
loading, playing and unanswered forms) as operators that return a decision, the
new session and the list of calls to make, as the code's `Decision` does.

**CastEngine** is `CAST/usecase/engine.go` around it, one speaker at a time. The
holder of the speaker's lock has a `job`: a decision whose calls (load, stop,
record progress) are made one per step, and what comes after the last of them in
`job.then` - `save` for a tick or a command, `create` for a new session, `narrate`
and `ahead` for the narrated sound of this song and the next. Between two of these
steps the speaker moves on, is stopped or paused by hand, is taken by another app or
drops off, and the service may die. `ready` and `spoken` are what the process
remembers of narrated songs, in maps that all speakers share: `AskedElsewhere` is
what the loop or a remote of another speaker is told, which adds to them or, for an
answer that went back, takes from them. Ghosts are `heard` (how far a song sounded),
`handed` (what the speaker was last given, whatever became of the row), `unsaved`
(the write of that row was lost) and `flips` (reloads by the loop itself).

**CastSessions** is the abstract specification: the rows of one speaker as a
household sees them, begun, moved on and finished. CastProperties instantiates it
with the public part of CastEngine's rows (`Sessions`), and `SessionsSpec` is the
refinement.

**AccountMirror** is a pass of `ING/usecase/accounts.go`, started by the hourly
ticker or the Scan now button, both of which may be under way at once because the
`running` flag is read and set apart. `pass[p].pc` goes through the requests of one
account:

| `pc` | `accounts.go` |
|---|---|
| `checked` | the flag was read, not yet set |
| `members`, `channels` | which accounts, and what each follows |
| `playlists`, `lists` | `ListPlaylists` answered, then `ImportPlaylists` |
| `feeds`, `later` | likes and Watch later |
| `record` | the registry is told whether the session worked |
| `due`, `read`, `import` | playlists to reread: picked, read, imported |

The catalog's part is one transaction per call (`ImportPlaylists`,
`ImportPlaylistItems`, `ImportWatchLater`), with the rule about what an incomplete
read may remove.

**StreamUrls** is one video at one height: `hlsCache` with its shared resolve and its
cooldown, `cachedRemuxURLs`, and `resolveCache` behind the gateway's `fetchInstant`.
A request goes `look`, `shared` or `check`/`resolve`, `note` (a refusal to be
recorded), `open`, and for a mux `copying`.

**FeedMix** has the quota of a page (`applyDiscoveryQuota`: the rounds of `Cut`s, the
`Placeless`, the rest) and the diversity of its channels (`applyChannelDiversity`:
`Placing`, one video after the other, with `Drain` before each) as operators. **Feed** is the store of frozen
orderings: a request for a page reads the projection, finds or makes an ordering,
appends what is new to the library, stamps it and cuts its page, one step per lock;
orderings expire, and the library changes behind the projection. What a ranking
leaves out (`scoreVideo`'s exclusions: disliked, watched, failed, suppressed, too old,
of another topic or language; and shares switched off) is the set `excluded`, which
changes at any time and is read by the next ranking only. The ghost `leftOut` of an
ordering is what of the library of its stamp the ranking was not given, or excluded.

**Narration** is one recorded video: `pass` is its entry in `narration.passes`, and
`run[g]` the goroutines of `runNarration`, those of replaced passes included, which
know their pass by its object and the generation they were begun with:

| `pc` | `narration_manifest.go` |
|---|---|
| `begin` | the goroutine starts: are there captions, which voice |
| `translating` | a batch of lines is being translated |
| `speaking` | a line is being spoken |
| `spoken` | its clip is in the manifest, the line not yet marked as done |
| `end`, `stopped` | over all lines, or its context is cancelled; to be reported |

A listener's stream (`streamNarrated`, `linesUntil`) sends a block at a time, waits for
its lines as long as it is patient, asks for a pass where it is, and takes the lines
anew when the pass or its revision differs from what it has `seen`. `asker` is
`prepareNarrated`, asked every second by the cast service until it is `told` ready,
which it forgets only with its process (`CastRestarts`); `mixing`, `failed` and
`files` are the mixes under way, refused for a while, and on disk. What is cached of
translations and clips only saves calls that may fail, and is left out with them.

The `MC*` modules only give the constants values. Operators introduced by
"Variant" are not used by the specifications: each is a definition with one
plausible mistake in it, and the property it is paired with in `PROJECT.json`
("mutants") fails when it takes the place of the original.

## 3. What is checked

| Run | Properties | Shows |
|---|---|---|
| `pipe_safety` | StoreSpec, SucceededIsFinal; StoreTypeOK, OneActivePerUrl, AttemptsBounded, ActiveIsVisible, TimesMatchState | the pipeline implements JobStore, and the table is sound under it; success is final with one worker |
| `pipe_liveness` | AbandonedJobIsReleased, RefusedIsAskedAgain, CancelFreesTheSlot; OneFetchPerVideo | a crash strands nothing, even while a transfer never ends; a cancel frees the worker; one caption fetch per video and no leaked claim |
| `pipe_queue` | QueueDrains | two URLs, one worker: every queued job is claimed or cancelled |
| `pipe_captions_ready` | CaptionsKeepReady (violated) | a comment of the source that the code does not keep (section 6) |
| `pins` | PinsTypeOK, SavesKeepPins | overlapping saves keep `pinned` right until a profile is deleted; no row lock is leaked |
| `evict_budget` | OverBudgetIsSwept | rows over the high watermark are swept below it unless the rest is saved |
| `cast_safety` | SessionsSpec; LoadedIsCurrent, HistoryWasHeard, OneLiveSession | the loop and the commands implement CastSessions against a speaker with buttons of its own; the row says what the speaker was handed, unless that write was lost |
| `cast_liveness` | NarrationSettles, LoadingIsResolved, WrongSongIsNoticed, LostSpeakerIsGivenUp | a load leads on or ends; a speaker on another song than the row's, after a lost write too, is not followed for long; one that is gone keeps no session; narration does not flip a song for ever |
| `accounts` | AccountsTypeOK, RemovedOnlyIfUnseen, MirrorCatchesUp, DeadSessionIsGivenUp | overlapping and failing passes remove nothing unread and leave nothing behind |
| `streams` | StreamsTypeOK, RetriesOnAnother, DeadUrlIsReplaced | what is cached, forgotten and resolved at once does not serve a refused URL twice or for ever |
| `feed` | ScrollIsWhole, StampedHasCaughtUp, StayingVideoIsOffered; PagesReorderOnly, PagesShareFairly, PagesKeepChannelsApart | a scrolled ordering is whole, a stamped one has what was ranked for the stamp, a video that stays and is not excluded is offered again and again; quota and diversity lose and double nothing, give every bucket its places and keep channels apart |
| `narration` | NarrationTypeOK, RunningIsRun, BlockHasTheLines, ReadyIsToldInTheEnd | a pass that is moved, stopped and replaced still reports, what is streamed of it is what it says, and once it stays done its file is ready for the cast service at some time, whatever older mixes take with them |

### Bounds, and why they are enough

* `pipe_*`: one worker, as `main.go` starts one. `Backoff = 1`, `GiveUpAfter = 2`
  keep the order of the two limits that matters (a job can be given back, given
  up and retried) with fewer attempts; the proofs cover all values. `Job` bounds
  the rows ever created: one for what a single job can meet, two where a retry or
  a second URL needs a successor. `MaxPresses = 2` (things users do) allows play
  and cancel, play and leave, play and retry; `MaxFaults = 1` allows one crash
  or failed call at any point. `MaxRequests = 1` still lets a request race the
  sweep, the worker and caption fetches; two racing requests are covered by
  the refinement proof, which has no such bound.
  `CaptionAnswers` narrows what upstream answers in runs that are not about
  captions: `pipe_liveness` has tracks that land and refusals, "none" is met in
  `pipe_safety` and `pipe_queue`, and the proof covers all.
* `pins`: two members, two videos, two overlapping transactions, one
  deletion; two transactions are what a race needs, and a deletion is the only
  transaction that touches more than one video.
* `evict_budget`: three videos, one of double size, so that the watermarks
  (`High = 2`, `Low = 1`) are crossed in different ways, every order of last
  access, two outside events and one fault per behaviour.
* `cast_safety`: a Google speaker (the kind that shows what it plays), two sessions
  so that one replaces the other, a queue of three songs of which the first is a
  broadcast that is left out, three events (`MaxEvents`: commands, buttons, apps,
  drops of the network) any of which may be a setback (a failed save or a crash). A
  takeover, its answer and one thing in between are three. `cast_liveness`: an R1,
  which has a narrated form to reload, one session, a song whose length the
  catalogue does not know (`Untimed`), two events, and other speakers that ask about
  one of its songs (`AskedFor`). No lock or row is shared between speakers, only
  what is remembered of narrated songs; so one speaker, with `AskedElsewhere`, stands
  for all.
* `accounts`: one member, whose rows, file and feeds are separate from any other's;
  two playlists, one of which upstream names and refuses to hand over; lists of two
  and of four videos with a cap of three, so that reads end before, and stop at,
  the cap; one change by the member and one fault, anywhere in two passes.
  `FailureLimit = 2` is the deployed one.
* `streams`: two requests, of kinds that share a cache or race for it (`Together`),
  eight names of URLs, which is more than can be held at once. Two deaths, so that the
  second URL may die as well, one of which may be upstream refusing the video
  for good; one fault, a lapse, a crash or a refusal lifted.
* `feed`: two screens, of which one is scrolled; two videos, any of them excluded at
  first, and one change of the library or of what is excluded; one video per page, so that every append lands before, at and after the
  reader's place; six names of orderings, more than are held at once. The three
  properties of pages are about operators: all orders of all subsets of six videos of
  two channels and of none, in a bucket with more videos than places, in one that
  has as many, in one without places, in one switched off and in none.
* `narration`: two lines, so that a pass can begin behind what was said and come
  back to it, and any move is a far one (`Far = 1`); batches of one and two; two
  voices, so that a line spoken again differs; two goroutines, one of which may be of
  a pass that was replaced; one stream or the requests for the file (`Together`),
  which meet only in the pass; five names, more than are held at once; two events
  (start, stop, seek, settings, captions that arrive, eviction) and one failed call
  or crash. The proofs have no bound on any of these.

Deadlock is checked everywhere but in Eviction, whose sweep rests when the rows
are under the watermark and nobody does anything, and in the cast and narration
runs, where sessions, listeners and events run out.

### Fairness

`FairSpec` of the pipeline assumes: each call of the worker except the transfer
returns in the end (they have timeouts or are local); the sweep's ticker fires; a
caption fetch ends (its context has a deadline, or yt-dlp exits); reports and the
boot reconciliation end; a lease nobody renews lapses and a caption wait elapses
(time passes). A running transfer is owed nothing but that a heartbeat that finds
its row no longer RUNNING stops it: `HeartbeatMisses` follows progress output,
which a livestream gives for ever. `EndingSpec`, for `QueueDrains` alone, adds
that transfers end: with a livestream in the one slot nothing behind it runs, and
the code accepts that. User actions, progress heartbeats and faults are never
fair. All fairness of the pipeline is weak: no action of it depends on winning a race
again and again. Eviction assumes the hourly ticker and that ingest reports a transfer
that ended.

The cast service assumes that `Run` ticks while the process lives and that each
call returns within its timeout (weak), and that time passes for a session
between two jobs (strong, since the model counts it only while the lock is free:
the clock does not stop for a busy loop). Nothing is owed by speakers and
remotes. The mirror assumes the ticker fires and requests return. The URL
caches assume that calls end (every one has a timeout, a copy ends when its
listener leaves) and that people go on watching: one more segment, mux or
progressive piece is asked for in the end (strong, since both requests may be
busy for a while each time). Home assumes that somebody opens it now and then,
that its calls return, that the projection is refreshed and that orderings
expire. Narration assumes that translating, speaking and mixing return (each has a
timeout), that a stream is read, that the cast service, while a speaker has the song,
asks each second until it is told ready and no longer, and that a refused mix may be
tried again after `narratedRetryAfter`; starts, stops, restarts and failures are owed
nothing.

## 4. What is proved

Every invariant and every action property of section 3, and both refinements, are
theorems: for every set of URLs, jobs, workers, members, songs, sessions, playlists,
videos, lines and screens, every limit and every bound, from the named assumptions
`JobStoreAssumption` (naturals, and `GiveUpAfter <= Backoff + 1`),
`PipelineAssumption` (the callers of caption fetches are the workers, the requests'
URLs and the sweep, all distinct), `PinsAssumption` (`NoTx` is no transaction),
`CastDomainAssumption` (a song lasts a while, `EndSlack` is no longer than that,
the names of what is not there are no names), `CastEngineAssumption` (queues are of
videos, start positions within a song, speakers of the two kinds),
`AccountMirrorAssumption` (a list names a video once, limits are positive, each
list is one member's), `StreamUrlsAssumption` (more names of URLs than can be held at
once, so that a new one exists), `FeedMixAssumption` (finitely many videos, each in
a bucket or in none, shares in percent), `FeedAssumption` (finitely many videos and
screens, a page is not empty) and `NarrationAssumption` (more names of passes than
can be held at once, batches are not empty). One theorem has a hypothesis of its own:
`SuccessIsFinal` is of one worker, as `main.go` starts one, because of two it is
not true.

| Module | Theorem | Property |
|---|---|---|
| JobStoreProofs | StoreIsTyped, OneActivePerUrlHolds, AttemptsAreBounded, ActiveIsAlwaysVisible, TimesAlwaysMatchState | the five invariants of the table in `pipe_safety` |
| PipelineProofs | PipelineImplementsStore | `Spec => StoreSpec`: what the pipeline does to the table is allowed by JobStore |
| PipelineProofs | OneFetchPerVideoHolds | the claim works, with any number of workers |
| PipelineProofs | PipelineOneActivePerUrl | JobStore's theorem carried over by the refinement |
| PipelineProofs | SuccessIsFinal | `SucceededIsFinal`, with one worker |
| SavedPinsProofs | SavesAloneKeepPins | `pinned` agrees with the shelf until a profile is deleted |
| SavedPinsProofs | NoLockIsLeaked | `PinsTypeOK`: a row lock is held by an open transaction, deletions included |
| CastProofs | CastImplementsSessions | `Spec => SessionsSpec`: the loop, the commands, the speaker and a crash do to the rows what CastSessions allows |
| CastProofs | OneSessionIsLive | `OneLiveSession`: one session has the speaker |
| CastProofs | LoadedStaysCurrent | `LoadedIsCurrent`: what was handed over last is what the row says and its current song, unless that write was lost |
| CastProofs | NotesWereHeard | `HistoryWasHeard`: no note says more than was heard |
| CastProofs | NarrationComesToRest | `NarrationSettles`: two reloads by itself at most, three more per setback |
| AccountProofs | AccountsAreTyped | `AccountsTypeOK`: places differ, failures are bounded |
| AccountProofs | OnlyUnseenAreRemoved | `RemovedOnlyIfUnseen`, for lists and reads of any length |
| StreamProofs | StreamsAreTyped | `StreamsTypeOK`: a waiting request has a resolve to wait for |
| StreamProofs | RetriesAreOnAnother | no request is given the URL it was refused on |
| FeedProofs | OrderingsCatchUp | `StampedHasCaughtUp`, with any number of screens and orderings |
| FeedProofs | ScrollStaysWhole | `ScrollIsWhole`, with any number of screens, orderings and pages |
| FeedProofs | EveryPageIsAnOrdering | `PagesReorderOnly`: what FeedMix computes is one of the orderings Feed chooses from |
| FeedProofs | BucketsHaveTheirPlaces | `PagesShareFairly`, for any shares and any number of videos |
| FeedProofs | ChannelsAreKeptApart | `PagesKeepChannelsApart`, for any window, gap and number of videos |
| NarrationProofs | NarrationIsTyped | `NarrationTypeOK`: passes, goroutines and streams are well formed |
| NarrationProofs | RunningAlwaysRuns | `RunningIsRun`: a pass that says it runs has a goroutine of its own that will report |
| NarrationProofs | BlocksHaveTheLines | `BlockHasTheLines`, with any number of streams, goroutines and lines |

The arguments:

* **JobStore.** The conjunction of the five invariants is inductive: `StoreInv` is
  a condition on each row alone (`RowOK`) and `OneActivePerUrl`. No one of them
  carries itself: `AttemptsBounded` needs the limit on QUEUED rows, which the
  lease sweep keeps only because `GiveUpAfter <= Backoff + 1` - otherwise an
  expired lease would requeue a row past the retry's limit. Two lemmas
  (`OneRowChanges`, `ManyRowsChange`) reduce each statement to what it does to
  one row.
* **Pipeline.** `Finish`, `Heartbeat` and `MarkResolved` are allowed by JobStore
  only for a row that was claimed. `PipelineInv` therefore adds to `StoreInv`
  that every busy worker carries an existing row with at least one attempt
  (`CarriedWasClaimed`), which survives because attempts never go down and rows
  are never deleted (`ClaimedStays`). Every step is then one step of JobStore or
  leaves the tables alone. For the captions it adds that claims are exactly the
  videos of the fetches, and that a worker waits while its fetch runs
  (`FetchersWait`): the end of a fetch moves its worker on, and moving one that was
  doing something else would take it out of its job. For `SuccessIsFinal` one more:
  nobody carries a row that has succeeded (`CarriedNotSucceeded`). The worker that
  finishes a row has let go of it by then, and with one worker nobody else can have
  it in hand; a second one could, after a lease that lapsed during Preview.
* **Shelf.** The argument is the row lock: from its FOR UPDATE to its commit
  nobody else commits a change to its video's column of `saved`, so what a
  transaction's UPDATE saw is still so when it commits (`IsCurrent`).
  `DeleteUserData` takes no such lock before it changes `saved`; `SavesInv`
  therefore promises this only while `deletes = 0`; it could not promise more
  (section 6). That a lock's holder is a transaction which is open, wants that video
  and will end does not depend on what it read, and holds with deletions too.
* **Cast.** `CastInv` has a part for each piece of state. Of a live row: it is well
  formed, and what it has as loaded is its current song, which was heard as far as
  the row says (`OnSong`). Of the speaker: it is no further in a song than was heard of
  it. Of the job: the calls still to be made, and the row it will save, lead back to a
  row of that kind. Each function of the domain is first shown to decide well by
  itself (`Decided`: the new session stays well formed, its notes were heard, and it
  loads only what it makes current); a step of the engine then only hands on what was
  decided, and the same case split shows that it is a step of CastSessions or leaves
  the rows alone. `QueueFor`, the queue without what cannot be played, is a recursive
  function over the ids asked for, and its range is found by induction.
  What the speaker was really handed is not in any row. `HandedInv` follows it from
  the call through the job to the write: unless a write was lost, it is what a job
  past its load is about to save, and what every live row has, except while a session
  is being created, when the old row has yet to give way. A takeover ends the
  other row in the same step (`OnlyTheNewIsLive`), and a refused load leads on to the
  next or ends the session.
  `FlipsInv` counts down: `Left` is how often the loop may yet reload the current
  song by itself, given what it knows of that song, and every reload uses one up.
  Only a setback (a crash, a lost write, an answer to another speaker that makes the
  process forget) gives some back, three at most.
  Proving `HistoryWasHeard` showed that it was stated too sharply: the slack
  `EndSlack` grants an R1 at the end of a song, any speaker is granted that
  ends without giving a reason. With no slack in the run nothing had told the two
  apart; the property now says so.
* **Mirror.** `AccountInv` follows a pass from its read to the write: what an import
  has in hand is a read of one content of that list (`RecordOK`), so what a whole
  read lacks, the list lacked then. Rows are kept well formed by a lemma about the
  write (`ImportIsPlaced`): places of an import are distinct among themselves and
  from those of what stays. Of an account it counts the passes that hold its session
  (`Counted`): the failures so far and those still to come are at most one more
  than the limit, since a session given up is taken by no further pass, though both
  may hold it when it is.
* **Signed URLs.** `StreamsInv` says where a URL may be: in one cache at most
  (`OneCache`), and for each request, in no cache if it failed on it and in none but
  its own otherwise (`Linked`). A URL comes into a cache only as the answer of a
  resolve, which is one that nobody holds (`HeldIsFew` counts that there is one), and
  a request that fails on a URL empties the one cache it could be in. The property
  alone does not carry `Hit`, which may read what another request has put there.
* **Home.** `FeedInv` says of a request that is about to stamp an ordering that all
  it found to rank is in that ordering (`Stage`), whoever appended, stamped, expired
  or invalidated in between; and of each ordering that its stamp is settled
  (`AllSettled`): of the library it names it lacks what its own ranking was not given
  or excluded, and nothing else. The property alone does not carry the step that
  stamps, which reads nothing but what the request has in hand. `ScrollInv` says that orderings repeat nothing, that the screen
  shows a stretch of its ordering, and that what a request of the scrolling screen
  has found is a part of what the ordering has by now: others may have appended to
  it in between, and never anything else.
* **The order of a page.** `Lists(q, S)` says that a sequence has each video of a
  set once. A bucket, a cut of it and a round list what they should, and what lists
  disjoint sets lists their union when it is put one behind the other (`Joined`,
  `AllJoined`). The k-th video of a bucket with places belongs to exactly one round
  (`OneRound`, `ARoundComes`), so the rounds list all of these buckets, and the quota
  everything that is not switched off. For `PagesShareFairly` the rounds are also in
  turn (`RoundsInTurn`): where a video of round r stands, its own bucket has no
  more than r rounds' worth before it, and every other all of the rounds before r;
  the two counts are compared by injections. For the diversity of channels, `Standing`
  is kept by every video that is placed or held back: both lists together have
  each video once, what is placed is spaced, and what is held back is in the order
  it came in. A page that crowds therefore does so only behind what was placed.
* **Narration.** `NarrationInv` links what a stream has seen to the pass (`Links`): of
  the object it has seen, the revision was not later than the pass's, and at the same
  revision its lines are the manifest's. A revision only grows, lines change only
  with it, and a new object gets a name that no stream holds, so that an equal
  (object, revision) always means equal lines. `RunningIsRun` carries itself: a move
  launches its goroutine in the step that raises the generation, and only a goroutine
  of the current generation can end the pass it would have to report for.

Recursion is written as functions, and induction over them is done with sets: the
library's induction theorems take a predicate as a parameter, which the provers
cannot instantiate, but `SetInduction` and `Climb`, proved from the well-foundedness of
the naturals, take the set of numbers for which a claim holds. That a recursive
definition has a function at all is `StepsExist`.

Only model-checked: liveness, which is reasoning about fairness and ENABLED and so
out of the provers' reach. That is thirteen properties: AbandonedJobIsReleased,
RefusedIsAskedAgain, CancelFreesTheSlot, QueueDrains, OverBudgetIsSwept,
LoadingIsResolved, WrongSongIsNoticed, LostSpeakerIsGivenUp, MirrorCatchesUp, DeadSessionIsGivenUp,
DeadUrlIsReplaced, StayingVideoIsOffered and ReadyIsToldInTheEnd. Eviction has nothing
but such a property, so there is nothing proved about it.

## 5. Not modelled, and why

* Text, progress figures, errors' wording, sizes and heights of media, logging.
* yt-dlp, ffmpeg, HTTP clients and parsers: their possible answers are the
  environment of the modules.
* The gateway's `askedRecently` window: it only drops requests, and every drop
  is a behaviour in which nobody pressed.
* `SetMediaState`'s path and size: a READY row always has its path.
* The real order of finish times, see `RequeueFailed` above. Therefore a due row
  whose URL is active again and blocks those behind it is not visible here.
* Which of several databases' clocks is right: services on one machine.
* Which of a speaker's own menus or apps took it: any takeover is one event.
* Scores, affinity and the noise of rotation (floating point): FeedMix holds for
  every order they may give.
* The bytes of media: ranges, playlists' text, ffmpeg's arguments, codecs.
* The generated code under `gen/`, the wire messages and the generated clients.
* Statements of one actor that nothing races with (search, history, playlists made
  by hand, the settings files of the gateway) and conversions of one answer
  (parsers, formats, storyboards).
* What the plan still lists.

## 6. Divergences

Where a comment promises more than the code does. One has a run,
`pipe_captions_ready`: subtitles.go:160-163 says that publishing captions
introduces no state the job would not; captions that land after the copy turn
READY into DOWNLOADING, and no job turns it back.

Four more can be had from the models, by stating the negation of the comment as a
property of the module named:

| Module | The source says | What happens |
|---|---|---|
| DownloadPipeline | worker.go:199-201, a cancelled row is never written over with FAILED | a cancel during Preview or captions is not noticed; `Finish` has no state in its WHERE |
| DownloadPipeline | worker.go:338, a stopped transfer "was asked for" | the lease is not renewed before the transfer; it lapses, the sweep requeues the row, and the live worker takes that for a cancel |
| SavedPins | repository.go:1107-1112, `pinned` and the shelf "can never drift" | `DeleteUserData`'s UPDATE (1887) overwrites a save that committed while it waited for the row lock |
| Eviction | media_presence.go:31-35, one loose cable must not mark the catalog evicted | on an unplugged drive `os.Remove` says "not exist", which the sweep (evict.go:89) counts as removed |

Others that reading the code for the models brought up.

Downloads, captions, shelf and eviction:

* store.go:399 says a job stays FAILED at `attempts >= len(backoff)`; the WHERE
  says `attempts <= len(backoff)`, so it is tried once more.
* ingest.go:605-612, leaving a page stops its transfer: `CancelForVideo` matches
  `video_id`, which is empty until the job is resolved.
* ingest.go:627-639, leaving forgets the caption retry: a fetch under way
  writes the row back when it is refused.
* ingest.go:517-520, Retry makes a new job: not if the sweep has just
  requeued the old one, which Enqueue then answers with.
* worker.go:217, the video is "marked as downloading": `UpsertVideo` keeps the
  state of a row that exists.
* worker.go:356, upstream is never touched again: an older FAILED row of the
  URL is still requeued after a newer job succeeded.
* store.go:177-179, no job is handed to two workers: with a second worker it is,
  once its lease has lapsed during Preview.
* downloader.go:533-537, tracks found on disk have been published: not if that
  publish failed.
* evict.go:17, the directory stays under its budget: files whose row is not
  READY are neither counted nor removed.
* evict.go:62-64, the sweep stops at the low watermark: a file removed whose row
  could not be marked is not counted, so one more goes.
* 0014_saved.sql:18-20, a saved video is never removed: one saved after the
  candidates were listed is.

Cast:

* Two Next (or Jump) in quick succession, while the speaker still shows the song
  before last: its key is neither loaded nor previous, and the session ends as
  taken over though nobody took it.
* engine.go:369, a failed save is only logged: a command answers with a version
  the row does not have, and until the next tick the speaker plays what the row does
  not say. That tick may take our own song for a stranger's and end the session, or
  wait for it until the load times out (`WrongSongIsNoticed`).
* `SkipFailed` of the last song ends the session without stopping the speaker.
* engine.go:444-447, the start position is dropped whenever an earlier item was left
  out, also when the item asked for is there.
* `ReplaceQueue` counts `currentIndex` in the ids sent, the queue is what is left of
  them: a broadcast at the head makes the edit be refused.
* A narrated reload is decided on a status read before it: a speaker paused by hand
  in between plays on.
* After a restart the gateway's "none" for a song the process forgot takes its
  narrated sound off.

Account mirror:

* repository.go, `ImportPlaylistItems` "matches upstream exactly" after a whole read:
  videos new to the playlist are put behind those it has.
* accounts.go:114 and 207: `running` is read and set without a lock.
* `syncPlaylistItems` takes a refused session for an ordinary failure.
* Scan now for one member reads the due playlists of everybody.
* A video whose upsert failed is missing from a list sent as whole, and is removed.
* A pass whose calls failed for other reasons than the session clears its failures;
  a pass begun before a session was pasted counts against the new one; `Record` after
  `Remove` brings the entry back.
* Unfollowing here, or taking back a like, is undone by the next pass.
* Lists that cannot be read are not stamped: those of a dead account are always the
  oldest and take the four rereads of each pass.

Signed URLs:

* `/start` asks upstream without looking at what was refused, and the media handlers
  do not record a refusal met when they ask again.
* hls.go:166, those who lose `mayResolve` are told 502 while the winner's answer is
  on its way to the cache.
* hls.go:413, a caller that missed the cache may start a second run just after the
  first has ended.
* A resolve that fails after the cooldown leaves the cache empty, so every request
  behind it resolves.
* A late forget drops whatever is cached by then.
* The caches "kept bounded" drop only what has expired, and `resolvedAt` nothing.

Home:

* snapshot.go:200-202, an ordering must not believe "it had caught up with a library
  it never read". The stamp is a fingerprint read before ranking, which reads the
  projection again, and the projection may have gone back: after a restart two first
  loads overlap (features.go:80-96), and the older answer lands over the newer. The
  ordering is then stamped with a library that has a video its ranking never saw, and
  while the library stays so it is not ranked again before it expires. So
  `StampedHasCaughtUp` is about what the ranking was given, and `StayingVideoIsOffered`
  says that expiry mends it.
* An ordering ranked while a watch is recorded is stored after `InvalidateUser` and
  served for its time; `DeleteUserData` invalidates before it deletes.
* snapshot.go:110, a refetch is "idempotent": two first pages at once make two orderings.
* A page whose ordering was invalidated between `Put` and `Get` is empty.
* The fresh share at 0 % still gets one place of every window; shares of the other
  sliders at 0 get none.
* The fingerprint is of ids alone: a video that becomes playable joins no stored
  ordering.

Narration:

* narration_manifest.go:753: a pass object made anew counts its generations from 1
  again, and a goroutine knows its pass by the generation alone: one of the pass before,
  stopped but still in a call, reports "idle", or marks lines, over the new one. What
  then follows is a goroutine that goes on under a pass that says it is idle;
  `RunningIsRun` holds because the reverse does not happen.
* A start pressed right after a stop finds the pass still "running" near by, does
  nothing, and the pass then goes idle.
* A pass that failed is answered "failed" to the cast service until somebody starts it
  by hand; one that went through an outage of the translator is "done" without
  lines, which is answered "none" for the life of the process.
* narrated_audio.go:226, "the mix before this one, made from an earlier set of lines":
  a mix that ends removes every other, newer ones included, and two that end together
  may leave none. Until the cast service is told ready it asks, and it is mixed again;
  afterwards "ready is final" (engine.go:298), nobody asks, and the speaker that is
  sent to the file finds none.

Live scan and backlog passes (read, not modelled):

* narration_live.go: a caption segment that failed is skipped for good when a later
  one of the same poll was read; the comment says the next poll tries it again.
* live_scan.go: while upstream blocks the household's address, each recheck puts up to
  five good rows into the set that is skipped until a restart; 80 skipped rows at the
  head of the list starve those behind them.
* shorts.go, backfill.go "continues where it stopped": 15 rows at the head that upstream
  cannot answer end every pass at the same place.

## 7. Plan

1. *Done*: job table, pipeline, captions, shelf and eviction; the cast service and
   its refinement; the account mirror; the caches of signed URLs; Home's orderings
   and quota; narration's passes, streams and mixes; the proofs of section 4.
2. **Scans** (`scanner.go`, `live_scan.go`, `backfill.go`): one pass at a time,
   cursors, quotas and refusals.
3. **Tail** of the log viewer; the web client's play queue and narration scheduler.
4. Proofs: with the scans, their cursors and quotas; of Eviction, that a sweep
   stops at the low watermark but for rows it could not mark, which needs sums over
   its candidates.
