----------------------------- MODULE CastDomain -----------------------------
(***************************************************************************)
(* What a cast session is and how it follows its speaker: the functions of  *)
(* services/cast/internal/domain, which touch neither the database nor the  *)
(* speaker.  Each returns a decision: the session as it is to be, and what  *)
(* must be done for it, in order.                                           *)
(*                                                                          *)
(* A queue holds playable songs of one length, which the catalogue may not  *)
(* know, nor the speaker say: it is 0 then.  Clocks are kept as             *)
(* far as a comparison reads them: silent, the speaker has not answered for *)
(* more than OfflineAfter; late, the song was asked for more than           *)
(* LoadTimeout ago; whether progress is due is left open.  The name, kind   *)
(* and volume of the speaker are copied, never decided on, and are left     *)
(* out, as are the words an item is drawn with.                             *)
(***************************************************************************)
EXTENDS Integers, Sequences, FiniteSetsExt

CONSTANTS
  Video,
  Duration,     \* how long a song is, in steps of what a speaker reports
  Untimed,      \* songs the catalogue does not know the length of
  EndSlack,     \* how near its end an R1 song counts as finished
  NoKey,        \* nothing loaded
  OtherKey,     \* "app:<id>", or a song that is not ours
  NoVideo       \* no song is forced

\* What a driver hands the speaker, and what the speaker names it by.
Key == [video : Video, narrated : BOOLEAN]
Loadable == Key \cup {NoKey}

ASSUME CastDomainAssumption ==
  /\ Duration \in Nat \ {0} /\ EndSlack \in 0..Duration /\ Untimed \subseteq Video
  /\ NoVideo \notin Video /\ NoKey # OtherKey /\ {NoKey, OtherKey} \cap Key = {}

Active == {"loading", "playing", "paused"}
EndedReason == {"queue_finished", "stopped", "replaced", "taken_over",
                "stopped_on_device", "device_offline", "handoff", "failed"}
NoReason == ""

Current(s) == s.queue[s.index]

\* Item.DurationS.
Length(v) == IF v \in Untimed THEN 0 ELSE Duration

\* Action: what is to be done; a load is of the current item, from s.pos.
LoadIt == [do |-> "load"]
StopIt == [do |-> "stop"]
RecordProgress(v, pos) == [do |-> "record", video |-> v, pos |-> pos]

Decide(s, todo) == [s |-> s, todo |-> todo]

End(s, reason) ==
  IF s.state = "ended" THEN s ELSE [s EXCEPT !.state = "ended", !.reason = reason]

\* Variant: the version left as it is.
LoadAtUnversioned(s, index, start) ==
  Decide([s EXCEPT !.index = index, !.state = "loading", !.pos = start,
                   !.duration = Length(s.queue[index]), !.acked = FALSE, !.late = FALSE],
         <<LoadIt>>)

LoadAt(s, index, start) ==
  Decide([s EXCEPT !.index = index, !.state = "loading", !.pos = start,
                   !.duration = Length(s.queue[index]), !.acked = FALSE, !.late = FALSE,
                   !.version = @ + 1],
         <<LoadIt>>)

\* The same item in its other form: the queue has not moved.
Reload(s) ==
  LET d == LoadAt(s, s.index, s.pos)
  IN  [d EXCEPT !.s.version = s.version]

Advance(s) ==
  IF s.index < Len(s.queue)
  THEN LoadAt(s, s.index + 1, 0)
  ELSE Decide(End(s, "queue_finished"), <<StopIt>>)

\* Variant: the song refused is asked for again.
SkipFailedAgain(s) == Reload(s)

SkipFailed(s) ==
  IF s.index < Len(s.queue) THEN Advance(s) ELSE Decide(End(s, "failed"), <<>>)

\* Loaded: what the driver handed over for the current item.
Loaded(s, key) == [s EXCEPT !.prev = s.loaded, !.loaded = key]

Clamp(i, lo, hi) == IF i < lo THEN lo ELSE IF i > hi THEN hi ELSE i

\* Variant: the index of the song playing is left where it was.
ReplaceQueueInPlace(s, items, at) ==
  LET next == [s EXCEPT !.queue = items, !.version = @ + 1]
  IN  IF \E i \in DOMAIN items : items[i] = Current(s)
      THEN Decide([next EXCEPT !.index = Clamp(@, 1, Len(items))], <<>>)
      ELSE LoadAt(next, Clamp(at, 1, Len(items)), 0)

\* The song playing goes on if the new queue still has it.
ReplaceQueue(s, items, at) ==
  LET kept == {i \in DOMAIN items : items[i] = Current(s)}
      next == [s EXCEPT !.queue = items, !.version = @ + 1]
  IN  IF kept # {}
      THEN Decide([next EXCEPT !.index = IF at \in kept THEN at ELSE Min(kept)], <<>>)
      ELSE LoadAt(next, Clamp(at, 1, Len(items)), 0)

-----------------------------------------------------------------------------
(* Reconcile: the session against one answer st of its speaker.  due: its   *)
(* progress has not been written for ten seconds, or not at all.            *)

Follow(s, st, due) ==
  LET heard == [s EXCEPT !.state = IF st.state \in {"playing", "paused"}
                                   THEN st.state ELSE @,
                         !.pos = st.pos,
                         !.duration = IF st.duration > 0 THEN st.duration ELSE @]
  IN  Decide(heard, IF due THEN <<RecordProgress(Current(s), st.pos)>> ELSE <<>>)

\* A Nest says why it is idle; an R1 is judged by where it was last seen.
Finished(s, st) ==
  IF st.reason # NoReason THEN st.reason = "FINISHED"
  ELSE s.duration > 0 /\ s.pos >= s.duration - EndSlack

\* Variant: whatever sounds while the song loads is followed.
ReconcileLoadingAnything(s, st, ours, due) ==
  IF st.state \in {"playing", "paused"}
  THEN Follow([s EXCEPT !.acked = TRUE, !.late = FALSE], st, due)
  ELSE IF (st.state = "idle" /\ (s.acked \/ st.reason = "ERROR")) \/ s.late
       THEN SkipFailed(s) ELSE Decide(s, <<>>)

ReconcileLoading(s, st, ours, due) ==
  LET acked == s.acked \/ (ours /\ st.state = "loading")
  IN  IF ours /\ st.state \in {"playing", "paused"}
      THEN Follow([s EXCEPT !.acked = TRUE, !.late = FALSE], st, due)
      ELSE IF (st.state = "idle" /\ (acked \/ st.reason = "ERROR")) \/ s.late
           THEN SkipFailed([s EXCEPT !.acked = acked])
           ELSE Decide([s EXCEPT !.acked = acked], <<>>)

ReconcileIdle(s, st) ==
  IF st.reason = "ERROR" THEN SkipFailed(s)
  ELSE IF Finished(s, st)
  THEN LET d == Advance(s)
       IN  [d EXCEPT !.todo = <<RecordProgress(Current(s), s.duration)>> \o @]
  ELSE Decide(End(s, "stopped_on_device"), <<>>)

\* Variant: only a song that sounded can be lost.
UnansweredSounding(s) ==
  Decide(IF s.silent /\ s.state = "playing" THEN End(s, "device_offline") ELSE s, <<>>)

Unanswered(s) == Decide(IF s.silent THEN End(s, "device_offline") ELSE s, <<>>)

\* Variant: any song of the household's is taken for the one loaded.
ReconcileAnySong(s, st, due) ==
  LET seen == [s EXCEPT !.silent = FALSE]
      ours == st.key \in Key
  IN  IF st.key # NoKey /\ ~ours THEN Decide(End(seen, "taken_over"), <<>>)
      ELSE IF s.state = "loading" THEN ReconcileLoading(seen, st, ours, due)
      ELSE IF st.state = "idle" THEN ReconcileIdle(seen, st)
      ELSE Follow(seen, st, due)

Reconcile(s, st, due) ==
  LET seen  == [s EXCEPT !.silent = FALSE]
      ours  == st.key # NoKey /\ st.key = s.loaded
      still == s.state = "loading" /\ st.key # NoKey /\ st.key = s.prev
  IN  IF st.key # NoKey /\ ~ours /\ ~still THEN Decide(End(seen, "taken_over"), <<>>)
      ELSE IF s.state = "loading" THEN ReconcileLoading(seen, st, ours, due)
      ELSE IF st.state = "idle" THEN ReconcileIdle(seen, st)
      ELSE Follow(seen, st, due)
=============================================================================
