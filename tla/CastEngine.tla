----------------------------- MODULE CastEngine -----------------------------
(***************************************************************************)
(* One speaker of the cast service (services/cast/internal/usecase): the    *)
(* loop that follows it and the commands of the remotes, all under the      *)
(* speaker's lock, against a speaker that is slow to show what it was       *)
(* handed, has buttons of its own and other people's apps, and drops off    *)
(* the network.  Locks and rows of different speakers have nothing in       *)
(* common; what the gateway answered they share, so what another speaker's  *)
(* loop and remotes make of that is an action here (AskedElsewhere).        *)
(*                                                                          *)
(* The holder of the lock works through a job: a decision, then the calls   *)
(* it asks for one by one; the save comes with the last of them.  Between   *)
(* two steps of a job the speaker may change or the service may die; dying  *)
(* between the last call and the save is a save that fails and a crash.     *)
(* The gateway is asked in the step that uses its answer.  The clocks are   *)
(* read when a decision is made and never during a job, so time that passes *)
(* meanwhile is counted after it.                                           *)
(* A call or a request that fails and changes nothing is a stuttering step. *)
(* Volume is never read by a decision and is left out.                      *)
(***************************************************************************)
EXTENDS CastDomain, SequencesExt

CONSTANTS
  Kinds,         \* of speaker: "r1", "google"
  SessionId,     \* numbered in the order they start
  Asked,         \* what remotes ask to be played: sequences of videos
  Edits,         \* what they make of a queue
  Offsets,       \* where in the first song they start, and seek to
  Unplayable,    \* broadcasts, which are not queued
  Refused,       \* what upstream has refused for good, neither
  Vietnamese,    \* songs that speak the language of the narration
  Narrations,    \* with narration or without
  AskedFor,      \* songs other speakers have in their queues too
  MaxEvents      \* bound: sessions started, commands pressed, what the speaker and
                 \* the house do besides playing on, crashes, database calls that fail

ASSUME CastEngineAssumption ==
  /\ Kinds \subseteq {"r1", "google"}
  /\ SessionId \subseteq Nat
  /\ \A q \in Asked \cup Edits : q \in Seq(Video)
  /\ Offsets \subseteq 0..Duration
  /\ Unplayable \subseteq Video /\ Refused \subseteq Video /\ Vietnamese \subseteq Video
  /\ Narrations \subseteq BOOLEAN /\ AskedFor \subseteq Video
  /\ MaxEvents \in Nat

VARIABLES
  sessions,    \* the speaker's rows of cast.sessions, by id
  speaker,     \* what the speaker does
  job,         \* what the holder of the lock has still to do, NoJob when free
  ready,       \* e.narrated: songs whose narrated sound is known to be ready
  spoken,      \* e.spoken: songs known to be Vietnamese
  heard,       \* ghost: how far the speaker was in each song, or was sent
  handed,      \* ghost: what the speaker was handed last
  unsaved,     \* ghost: and that the write of the row behind it was lost
  flips,       \* ghost: reloads of the current song the loop made by itself
  events,      \* bound: events so far
  setbacks     \* bound: and what the service lost: writes, its life, an answer

memory == <<job, ready, spoken>>
given  == <<handed, unsaved>>
ghosts == <<heard, given, flips>>
bounds == <<events, setbacks>>
vars   == <<sessions, speaker, memory, ghosts, bounds>>

Words == {"preparing", "ready", "none"}

Session == [state : Active \cup {"ended"}, reason : EndedReason \cup {NoReason},
            queue : Seq(Video), index : Nat, pos : 0..Duration, duration : {0, Duration},
            narration : BOOLEAN, forced : Video \cup {NoVideo},
            loaded : Loadable, prev : Loadable, acked : BOOLEAN,
            silent : BOOLEAN, late : BOOLEAN, version : Nat]

NoJob == [then |-> "free"]
Work(then, id, d) == [then |-> then, id |-> id, s |-> d.s, todo |-> d.todo]

Live(id) == id \in DOMAIN sessions /\ sessions[id].state \in Active

Init ==
  /\ sessions = [id \in {} |-> NoJob]
  /\ speaker \in [kind : Kinds, online : {TRUE}, key : {NoKey},
                  state : {"idle"}, pos : {0}, reason : {NoReason}, next : {NoKey}, from : {0}]
  /\ job = NoJob /\ ready = {} /\ spoken = {}
  /\ heard = [v \in Video |-> 0] /\ handed = NoKey /\ unsaved = FALSE /\ flips = 0
  /\ events = 0 /\ setbacks = 0

Event == events + setbacks < MaxEvents /\ events' = events + 1
Fails == events + setbacks < MaxEvents /\ setbacks' = setbacks + 1

-----------------------------------------------------------------------------
(* The speaker and the house around it: external.  A load shows after a     *)
(* while; a speaker out of reach goes on doing what it did.                 *)

HeardTo(v, pos) == [heard EXCEPT ![v] = IF pos > @ THEN pos ELSE @]

Why(reason) == IF speaker.kind = "google" THEN reason ELSE NoReason

Idle(reason) == [speaker EXCEPT !.state = "idle", !.reason = Why(reason),
                                !.key = IF speaker.kind = "google" THEN @ ELSE NoKey]

Sounding == speaker.state \in {"playing", "paused", "loading"}

Shows ==
  /\ speaker.next # NoKey
  /\ \E state \in {"loading", "playing"} :
       speaker' = [speaker EXCEPT !.key = speaker.next, !.pos = speaker.from, !.state = state,
                                  !.reason = NoReason, !.next = NoKey, !.from = 0]
  /\ UNCHANGED heard

PlaysOn ==
  /\ speaker.key \in Key
  /\ \/ /\ speaker.state = "loading"
        /\ speaker' = [speaker EXCEPT !.state = "playing"]
        /\ UNCHANGED heard
     \/ /\ speaker.state = "playing" /\ speaker.pos < Duration
        /\ speaker' = [speaker EXCEPT !.pos = @ + 1]
        /\ heard' = HeardTo(speaker.key.video, speaker.pos + 1)
     \/ /\ speaker.state = "playing" /\ speaker.pos = Duration
        /\ speaker' = Idle("FINISHED")
        /\ UNCHANGED heard

GivesUp ==
  /\ speaker.key \in Key /\ Sounding
  /\ speaker' = Idle("ERROR")
  /\ UNCHANGED heard

OwnButtons ==
  /\ \/ speaker.state = "playing" /\ speaker' = [speaker EXCEPT !.state = "paused"]
     \/ speaker.state = "paused" /\ speaker' = [speaker EXCEPT !.state = "playing"]
     \/ Sounding /\ speaker' = Idle("CANCELLED")
  /\ UNCHANGED heard

OtherApp ==
  /\ \/ /\ speaker.key # OtherKey
        /\ speaker' = [speaker EXCEPT !.key = OtherKey, !.state = "playing", !.pos = 0,
                                      !.reason = NoReason, !.next = NoKey, !.from = 0]
     \/ /\ speaker.key = OtherKey
        /\ speaker' = [speaker EXCEPT !.key = NoKey, !.state = "idle"]
  /\ UNCHANGED heard

Network ==
  /\ speaker' = [speaker EXCEPT !.online = ~@]
  /\ UNCHANGED heard

\* A speaker nobody follows is left as it is until the next session.
Followed == job # NoJob \/ \E id \in DOMAIN sessions : Live(id)

SpeakerMoves ==
  /\ Followed
  /\ \/ (Shows \/ PlaysOn) /\ UNCHANGED events
     \/ /\ GivesUp \/ OwnButtons \/ OtherApp \/ Network
        /\ Event
  /\ UNCHANGED <<sessions, memory, given, flips, setbacks>>

\* What a call makes the speaker do, once it was answered.
Handed(key, from) == [speaker EXCEPT !.next = key, !.from = from]
Stopped == [Idle("CANCELLED") EXCEPT !.next = NoKey, !.from = 0]

\* A stop may not be heard.
MayStop == \/ speaker.online /\ speaker' = Stopped
           \/ UNCHANGED speaker

-----------------------------------------------------------------------------
(* Asking the gateway about a song: which language it speaks (lang: it says *)
(* so now), and where its narrated sound is.  Ready is not asked about      *)
(* again for this speaker, anything else is.                                *)

Covers(s, v, known) == s.narration /\ (v \in known => s.forced = v)

\* Variant: what was ready is asked for again like the rest.
FormUnremembered(v, word) == word

Form(v, word) == IF v \in ready THEN "ready" ELSE word

Asks(s, v, lang, word) ==
  /\ spoken' = IF s.narration /\ lang THEN spoken \cup ({v} \cap Vietnamese) ELSE spoken
  /\ ready'  = IF Covers(s, v, spoken') /\ word = "ready" THEN ready \cup {v} ELSE ready

\* narrationSwitch: only while playing; a gateway unsure leaves the song as it is.
Switch(s, word) ==
  LET v    == Current(s)
      want == /\ Covers(s, v, spoken')
              /\ \/ Form(v, word) = "ready"
                 \/ Form(v, word) = "preparing" /\ s.loaded.narrated
  IN  IF s.state = "playing" /\ want # s.loaded.narrated THEN Reload(s) ELSE Decide(s, <<>>)

SwitchAsks(s, lang, word) ==
  IF s.state = "playing" THEN Asks(s, Current(s), lang, word) ELSE UNCHANGED <<ready, spoken>>

-----------------------------------------------------------------------------
(* The steps of whoever holds the lock.                                     *)

Doing(do) == job # NoJob /\ job.todo # <<>> /\ Head(job.todo).do = do
At(step)  == job # NoJob /\ job.todo = <<>> /\ job.then = step

\* Of an ended row nothing else is read again.
Public(s) == [state |-> s.state, reason |-> s.reason,
              queue |-> s.queue, index |-> s.index, version |-> s.version]

Stored(s) == IF s.state = "ended" THEN Public(s) ELSE s

\* Save writes over a row that has not ended; a failure is only logged.
Save(id, s, reloads) ==
  /\ \/ /\ sessions' = IF Live(id) THEN [sessions EXCEPT ![id] = Stored(s)] ELSE sessions
        /\ flips' = reloads
        /\ UNCHANGED setbacks
     \/ Fails /\ flips' = reloads /\ UNCHANGED sessions
  /\ job' = NoJob

\* What is left to do after a step: more calls, a look at the narration, the
\* row of a new session, or the save.
Proceed(then, id, d, reloads) ==
  IF d.todo # <<>> \/ then = "create" \/ (then = "narrate" /\ d.s.state = "playing")
  THEN /\ job' = Work(then, id, d)
       /\ flips' = reloads
       /\ UNCHANGED <<sessions, setbacks>>
  ELSE Save(id, d.s, reloads)

Rest(s) == Decide(s, Tail(job.todo))

\* What a tick finds out from the speaker, which may say how long a song is.
Answer(duration) ==
  [key |-> speaker.key, state |-> speaker.state, pos |-> speaker.pos, duration |-> duration,
   reason |-> IF speaker.state = "idle" THEN speaker.reason ELSE NoReason]

FollowSession(id) ==
  /\ job = NoJob /\ Live(id)
  /\ \E due \in BOOLEAN, duration \in {0, Duration} :
       LET s == sessions[id]
           d == IF speaker.online THEN Reconcile(s, Answer(duration), due) ELSE Unanswered(s)
       IN  Proceed("narrate", id, d, IF d.s.version # s.version THEN 0 ELSE flips)
  /\ UNCHANGED <<speaker, ready, spoken, heard, given, events>>

\* A song the speaker refuses is skipped; a session that has not begun is not.
LoadSong ==
  /\ Doing("load")
  /\ LET s == job.s
         v == Current(s)
     IN  \E lang \in BOOLEAN, word \in Words :
           /\ Asks(s, v, lang, word)
           /\ LET key == [video    |-> v,
                          narrated |-> Covers(s, v, spoken') /\ Form(v, word) = "ready"]
                  d   == SkipFailed(s)
              IN  \/ /\ speaker.online
                     /\ speaker' = Handed(key, s.pos) /\ handed' = key
                     /\ heard' = HeardTo(v, s.pos)
                     /\ Proceed(job.then, job.id, Rest(Loaded(s, key)), flips)
                     /\ unsaved' = (setbacks' # setbacks)
                  \/ /\ job.then # "create"
                     /\ Proceed(job.then, job.id, Decide(d.s, Tail(job.todo) \o d.todo), 0)
                     /\ UNCHANGED <<speaker, heard, given>>
                  \/ /\ job.then = "create" /\ job' = NoJob
                     /\ UNCHANGED <<sessions, speaker, ghosts, setbacks>>
  /\ UNCHANGED events

StopSpeaker ==
  /\ Doing("stop")
  /\ MayStop
  /\ Proceed(job.then, job.id, Rest(job.s), flips)
  /\ UNCHANGED <<ready, spoken, heard, given, events>>

\* The history is the catalogue's; nothing here reads it back.
Record ==
  /\ Doing("record")
  /\ Proceed(job.then, job.id, Rest(job.s), flips)
  /\ UNCHANGED <<speaker, ready, spoken, heard, given, events>>

AheadIsNarrated(s) == s.loaded.narrated /\ s.index < Len(s.queue)

\* A tick reloads the song in the form narration asks for, or is done; with
\* the narrated song playing the next one is asked for too.
FollowNarration ==
  /\ At("narrate")
  /\ \E lang \in BOOLEAN, word \in Words :
       /\ SwitchAsks(job.s, lang, word)
       /\ LET d == Switch(job.s, word)
          IN  IF d.todo = <<>> /\ AheadIsNarrated(d.s)
              THEN /\ job' = [job EXCEPT !.then = "ahead"]
                   /\ UNCHANGED <<sessions, flips, setbacks>>
              ELSE Proceed("save", job.id, d, IF d.todo = <<>> THEN flips ELSE flips + 1)
  /\ UNCHANGED <<speaker, heard, given, events>>

AskAhead ==
  /\ At("ahead")
  /\ \E lang \in BOOLEAN, word \in Words :
       Asks(job.s, job.s.queue[job.s.index + 1], lang, word)
  /\ Save(job.id, job.s, flips)
  /\ UNCHANGED <<speaker, heard, given, events>>

\* Variant: the session that has the speaker is left to itself.
CreateBeside ==
  /\ At("create")
  /\ sessions' = [id \in DOMAIN sessions \cup {job.id} |->
                    IF id = job.id THEN job.s ELSE sessions[id]]
  /\ job' = NoJob
  /\ UNCHANGED <<speaker, ready, spoken, ghosts, bounds>>

\* One transaction; when it fails the speaker is told to stop again.
Create ==
  /\ At("create")
  /\ \/ /\ sessions' = [id \in DOMAIN sessions \cup {job.id} |->
                          IF id = job.id THEN job.s
                          ELSE IF Live(id) THEN Stored(End(sessions[id], "replaced"))
                          ELSE sessions[id]]
        /\ UNCHANGED <<speaker, unsaved, setbacks>>
     \/ Fails /\ MayStop /\ unsaved' = TRUE /\ UNCHANGED sessions
  /\ job' = NoJob
  /\ UNCHANGED <<ready, spoken, heard, handed, flips, events>>

-----------------------------------------------------------------------------
(* The commands.  Each reads the row again under the lock and is refused on *)
(* a session that has ended.                                                *)

Playable(v) == v \notin Unplayable \cup Refused

QueueFor(ids) ==
  LET upTo[n \in 0..Len(ids)] ==
        IF n = 0 THEN <<>>
        ELSE IF Playable(ids[n]) THEN Append(upTo[n - 1], ids[n]) ELSE upTo[n - 1]
  IN  upTo[Len(ids)]

\* A broadcast asked for by name is refused, any other left out.
MayQueue(ids, at) == ids[at] \notin Unplayable /\ QueueFor(ids) # <<>>

StartOf(ids, at) ==
  LET before == Len(QueueFor(SubSeq(ids, 1, at - 1)))
  IN  Clamp(before + 1, 1, Len(QueueFor(ids)))

\* The catalogue tells the language of the songs it knows.
CatalogTells(ids) ==
  \E told \in SUBSET (Vietnamese \cap Range(QueueFor(ids))) : spoken' = spoken \cup told

IsNextId(id) ==
  /\ id \in SessionId \ DOMAIN sessions
  /\ \A k \in SessionId : k < id => k \in DOMAIN sessions

NewSession(queue, narration) ==
  [state |-> "loading", reason |-> NoReason, queue |-> queue, index |-> 1, pos |-> 0,
   narration |-> narration, forced |-> NoVideo, loaded |-> NoKey, prev |-> NoKey,
   duration |-> 0, acked |-> FALSE, silent |-> FALSE, late |-> FALSE, version |-> 0]

StartSession(id, ids, at, start, narration) ==
  /\ job = NoJob /\ IsNextId(id)
  /\ speaker.online /\ MayQueue(ids, at)
  /\ CatalogTells(ids)
  /\ LET from == IF StartOf(ids, at) # at THEN 0 ELSE start
     IN  job' = Work("create", id,
                     LoadAt(NewSession(QueueFor(ids), narration), StartOf(ids, at), from))
  /\ flips' = 0
  /\ Event
  /\ UNCHANGED <<sessions, speaker, ready, heard, given, setbacks>>

Command(id, d) ==
  /\ job = NoJob /\ Live(id)
  /\ Event
  /\ Proceed("save", id, d, 0)

Pause(id) ==
  /\ speaker.online
  /\ speaker' = IF speaker.state = "playing" THEN [speaker EXCEPT !.state = "paused"] ELSE speaker
  /\ LET s == sessions[id]
     IN  Command(id, Decide(IF s.state = "playing" THEN [s EXCEPT !.state = "paused"] ELSE s, <<>>))
  /\ UNCHANGED <<ready, spoken, heard, given>>

Resume(id) ==
  /\ speaker.online
  /\ speaker' = IF speaker.state = "paused" THEN [speaker EXCEPT !.state = "playing"] ELSE speaker
  /\ LET s == sessions[id]
     IN  Command(id, Decide(IF s.state = "paused" THEN [s EXCEPT !.state = "playing"] ELSE s, <<>>))
  /\ UNCHANGED <<ready, spoken, heard, given>>

Seek(id, pos) ==
  /\ speaker.online
  /\ speaker' = IF speaker.key \in Key /\ Sounding THEN [speaker EXCEPT !.pos = pos] ELSE speaker
  /\ heard' = IF speaker.key \in Key /\ Sounding
              THEN [HeardTo(speaker.key.video, pos) EXCEPT
                      ![Current(sessions[id])] = IF pos > @ THEN pos ELSE @]
              ELSE HeardTo(Current(sessions[id]), pos)
  /\ Command(id, Decide([sessions[id] EXCEPT !.pos = pos], <<>>))
  /\ UNCHANGED <<ready, spoken, given>>

NextSong(id) ==
  /\ Command(id, Advance(sessions[id]))
  /\ UNCHANGED <<speaker, ready, spoken, heard, given>>

Jump(id, index) ==
  /\ index \in DOMAIN sessions[id].queue
  /\ Command(id, LoadAt(sessions[id], index, 0))
  /\ UNCHANGED <<speaker, ready, spoken, heard, given>>

\* Over whether or not the speaker heard.
Stop(id) ==
  /\ MayStop
  /\ Command(id, Decide(End(sessions[id], "stopped"), <<>>))
  /\ UNCHANGED <<ready, spoken, heard, given>>

Handoff(id) ==
  /\ MayStop
  /\ LET s == sessions[id]
     IN  Command(id, Decide(End(s, "handoff"), <<RecordProgress(Current(s), s.pos)>>))
  /\ UNCHANGED <<ready, spoken, heard, given>>

\* An edit whose version is not the row's is refused (ErrStaleVersion).
EditQueue(id, version, ids, at) ==
  /\ version = sessions[id].version
  /\ MayQueue(ids, 1)
  /\ CatalogTells(ids)
  /\ Command(id, ReplaceQueue(sessions[id], QueueFor(ids), at))
  /\ UNCHANGED <<speaker, ready, heard, given>>

SetNarration(id, on) ==
  LET s == [sessions[id] EXCEPT !.narration = on,
                                !.forced = IF on THEN Current(sessions[id]) ELSE NoVideo]
  IN  /\ \E lang \in BOOLEAN, word \in Words :
           SwitchAsks(s, lang, word) /\ Command(id, Switch(s, word))
      /\ UNCHANGED <<speaker, heard, given>>

-----------------------------------------------------------------------------
(* Time and death.                                                          *)

\* The loop asks every second, so only a speaker out of reach grows silent.
TimePasses(id) ==
  /\ job = NoJob /\ Live(id)
  /\ \/ /\ ~sessions[id].silent /\ ~speaker.online
        /\ sessions' = [sessions EXCEPT ![id].silent = TRUE]
     \/ /\ ~sessions[id].late /\ sessions[id].state = "loading"
        /\ sessions' = [sessions EXCEPT ![id].late = TRUE]
  /\ UNCHANGED <<speaker, memory, ghosts, bounds>>

\* What another speaker's loop or remote is told of a song is written over what
\* was known of it: the answer to narratedForm for this form too, whatever that
\* is now, and an ask for the language that failed as "not known".
AskedElsewhere ==
  /\ \E v \in AskedFor :
       \/ /\ Event /\ UNCHANGED setbacks
          /\ \/ ready' = ready \cup {v} /\ UNCHANGED spoken
             \/ spoken' = spoken \cup ({v} \cap Vietnamese) /\ UNCHANGED ready
       \/ /\ Fails /\ UNCHANGED events
          /\ \/ v \in ready /\ ready' = ready \ {v} /\ UNCHANGED spoken
             \/ v \in spoken /\ spoken' = spoken \ {v} /\ UNCHANGED ready
  /\ UNCHANGED <<sessions, speaker, job, ghosts>>

\* The service is down for a moment, or for longer than the speaker's silence.
Crash ==
  /\ Fails
  /\ job' = NoJob /\ ready' = {} /\ spoken' = {}
  /\ unsaved' = (unsaved \/ At("create"))
  /\ \E long \in BOOLEAN :
       sessions' = [id \in DOMAIN sessions |->
                      IF long /\ Live(id) THEN [sessions[id] EXCEPT !.silent = TRUE]
                      ELSE sessions[id]]
  /\ UNCHANGED <<speaker, heard, handed, flips, events>>

HolderSteps == LoadSong \/ StopSpeaker \/ Record \/ FollowNarration \/ AskAhead \/ Create

Commands(id) ==
  \/ Pause(id) \/ Resume(id) \/ NextSong(id) \/ Stop(id) \/ Handoff(id)
  \/ \E pos \in Offsets : Seek(id, pos)
  \/ \E index \in 1..Len(sessions[id].queue) : Jump(id, index)
  \/ \E ids \in Edits : \E at \in DOMAIN ids :
       EditQueue(id, sessions[id].version, ids, at)
  \/ \E on \in BOOLEAN : SetNarration(id, on)

Starts(id) ==
  \E ids \in Asked, start \in Offsets, narration \in Narrations :
    \E at \in DOMAIN ids : StartSession(id, ids, at, start, narration)

Next ==
  \/ SpeakerMoves \/ AskedElsewhere \/ Crash \/ HolderSteps
  \/ \E id \in SessionId : FollowSession(id) \/ TimePasses(id) \/ Starts(id) \/ (Live(id) /\ Commands(id))

Spec == Init /\ [][Next]_vars
=============================================================================
