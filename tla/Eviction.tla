------------------------------ MODULE Eviction ------------------------------
(***************************************************************************)
(* The catalog's eviction sweep (usecase/evict.go): once an hour, when the  *)
(* READY rows add up to more than the high watermark, it removes unpinned   *)
(* media files, least recently accessed first, down to the low watermark.   *)
(* It decides from rows it read once; meanwhile members save and watch,     *)
(* the ingest service writes media_state, and the drive may be unplugged.   *)
(*                                                                          *)
(* Of media_state only READY or not is kept.  A READY row always has its    *)
(* path, so the sweep's skip of a row without one never fires.  A file here *)
(* is the media file with the sound cut from it, which goes with it.        *)
(***************************************************************************)
EXTENDS Integers, Sequences, FiniteSetsExt

CONSTANTS
  Video,
  Size,          \* size_bytes of each video's file
  High, Low,     \* the watermarks
  MaxPresses,    \* bound: what members, the page and the ingest service do
  MaxFaults      \* bound: crashes, failed calls, unplugged drives

ASSUME EvictionAssumption ==
  /\ Size \in [Video -> Nat \ {0}]
  /\ Low \in Nat /\ High \in Nat /\ Low <= High
  /\ MaxPresses \in Nat /\ MaxFaults \in Nat

VARIABLES
  ready,      \* rows with media_state READY
  pinned,     \* rows somebody has saved
  accessed,   \* the videos by last_accessed_at, oldest first
  file,       \* files on the drive
  plugged,    \* is the drive mounted
  landed,     \* transferred, its row not yet READY
  sweep,      \* the sweep: where it is, what it read, what it freed
  presses, faults

bounds  == <<presses, faults>>
library == <<ready, pinned, accessed>>
disk    == <<file, plugged, landed>>
vars    == <<library, disk, sweep, bounds>>

NoSweep == [pc |-> "wait", used |-> 0, freed |-> 0, todo |-> <<>>]

Bytes(videos) == MapThenSumSet(LAMBDA v : Size[v], videos)

IsOrder(s) == {s[i] : i \in DOMAIN s} = Video /\ \A i, j \in DOMAIN s : s[i] = s[j] => i = j

Orders == {s \in [1..Cardinality(Video) -> Video] : IsOrder(s)}

\* A library that has been in use: what is READY is there, in any order.
Init ==
  /\ ready \in SUBSET Video /\ file = ready
  /\ pinned \in SUBSET Video
  /\ accessed \in Orders
  /\ plugged = TRUE /\ landed = {}
  /\ sweep = NoSweep
  /\ presses = 0 /\ faults = 0

-----------------------------------------------------------------------------
(* SweepOnce.                                                               *)

\* UsedBytes: what the rows say, not what the drive holds.
Measure ==
  /\ sweep.pc = "wait"
  /\ Bytes(ready) > High
  /\ sweep' = [NoSweep EXCEPT !.pc = "list", !.used = Bytes(ready)]
  /\ UNCHANGED <<library, disk, bounds>>

\* Variant: the saved ones, instead of the ones nobody saved.
EvictablePinned(v) == v \in ready /\ v \in pinned

Evictable(v) == v \in ready /\ v \notin pinned

ListEvictionCandidates ==
  /\ sweep.pc = "list"
  /\ sweep' = [sweep EXCEPT !.pc = "remove", !.todo = SelectSeq(accessed, Evictable)]
  /\ UNCHANGED <<library, disk, bounds>>

Enough == sweep.todo = <<>> \/ sweep.used - sweep.freed <= Low

SweepEnds ==
  /\ sweep.pc = "remove"
  /\ Enough
  /\ sweep' = NoSweep
  /\ UNCHANGED <<library, disk, bounds>>

\* A file that is not there counts as removed, and so does every file of a
\* drive that is not mounted.
RemoveFile ==
  /\ sweep.pc = "remove"
  /\ ~Enough
  /\ file' = IF plugged THEN file \ {Head(sweep.todo)} ELSE file
  /\ sweep' = [sweep EXCEPT !.pc = "mark"]
  /\ UNCHANGED <<library, plugged, landed, bounds>>

MarkEvicted ==
  /\ sweep.pc = "mark"
  /\ ready' = ready \ {Head(sweep.todo)}
  /\ sweep' = [sweep EXCEPT !.pc = "remove", !.todo = Tail(@),
                            !.freed = @ + Size[Head(sweep.todo)]]
  /\ UNCHANGED <<pinned, accessed, disk, bounds>>

SweepStep == Measure \/ ListEvictionCandidates \/ SweepEnds \/ RemoveFile \/ MarkEvicted

-----------------------------------------------------------------------------
(* Everybody else.                                                          *)

Touch(v) == accessed' = Append(SelectSeq(accessed, LAMBDA w : w # v), v)

\* SetPinned, as SavedPins has it in detail.
SetPinned(v) ==
  /\ pinned' \in {pinned \cup {v}, pinned \ {v}}
  /\ UNCHANGED <<ready, accessed, disk, sweep>>

RecordWatchProgress(v) ==
  /\ Touch(v)
  /\ UNCHANGED <<ready, pinned, disk, sweep>>

\* The worker's transfer writes the file; its READY follows in Deliver.
TransferEnds(v) ==
  /\ plugged
  /\ v \notin landed
  /\ file' = file \cup {v}
  /\ landed' = landed \cup {v}
  /\ UNCHANGED <<library, plugged, sweep>>

\* Any other write of media_state by the ingest service: captions published,
\* a second transfer that failed, a cancelled one.
SetMediaState(v) ==
  /\ ready' = ready \ {v}
  /\ Touch(v)
  /\ UNCHANGED <<pinned, disk, sweep>>

DeleteByHand(v) ==
  /\ plugged
  /\ file' = file \ {v}
  /\ UNCHANGED <<library, plugged, landed, sweep>>

\* The page finds no file behind a READY row, on a drive that answers.
FoundMissing(v) ==
  /\ v \in ready \ file
  /\ plugged
  /\ ready' = ready \ {v}
  /\ Touch(v)
  /\ UNCHANGED <<pinned, disk, sweep>>

Press ==
  /\ presses < MaxPresses
  /\ presses' = presses + 1
  /\ UNCHANGED faults
  /\ \E v \in Video :
       \/ SetPinned(v)     \/ RecordWatchProgress(v) \/ TransferEnds(v)
       \/ SetMediaState(v) \/ DeleteByHand(v)        \/ FoundMissing(v)

Deliver(v) ==
  /\ v \in landed
  /\ landed' = landed \ {v}
  /\ ready' = ready \cup {v}
  /\ Touch(v)
  /\ UNCHANGED <<pinned, file, plugged, sweep, bounds>>

PlugIn ==
  /\ ~plugged
  /\ plugged' = TRUE
  /\ UNCHANGED <<library, file, landed, sweep, bounds>>

-----------------------------------------------------------------------------
Unplug ==
  /\ plugged
  /\ plugged' = FALSE
  /\ UNCHANGED <<library, file, landed, sweep>>

\* Both are logged and passed over.
RemoveErrs ==
  /\ sweep.pc = "remove"
  /\ ~Enough
  /\ sweep' = [sweep EXCEPT !.todo = Tail(@)]
  /\ UNCHANGED <<library, disk>>

MarkErrs ==
  /\ sweep.pc = "mark"
  /\ ready' \in {ready, ready \ {Head(sweep.todo)}}
  /\ sweep' = [sweep EXCEPT !.pc = "remove", !.todo = Tail(@)]
  /\ UNCHANGED <<pinned, accessed, disk>>

Crash ==
  /\ sweep' = NoSweep
  /\ UNCHANGED <<library, disk>>

\* The ingest service dies after a transfer; the row does not hear of it.
IngestCrash ==
  /\ landed # {}
  /\ landed' = {}
  /\ UNCHANGED <<library, file, plugged, sweep>>

Fault ==
  /\ faults < MaxFaults
  /\ faults' = faults + 1
  /\ UNCHANGED presses
  /\ Unplug \/ RemoveErrs \/ MarkErrs \/ Crash \/ IngestCrash

Next ==
  \/ SweepStep
  \/ Press
  \/ \E v \in Video : Deliver(v)
  \/ PlugIn
  \/ Fault

Spec == Init /\ [][Next]_vars

\* The ticker goes on, a transfer that ended is reported.
FairSpec == Spec /\ WF_vars(SweepStep) /\ \A v \in Video : WF_vars(Deliver(v))

-----------------------------------------------------------------------------
(* However sweeps are cut short by crashes and failed calls, and whatever   *)
(* the others do meanwhile, rows over the high watermark are swept below it *)
(* in the end, unless what is left is all saved.                            *)
OverBudgetIsSwept ==
  Bytes(ready) > High ~> Bytes(ready) <= High \/ ready \subseteq pinned
=============================================================================
