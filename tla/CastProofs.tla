----------------------------- MODULE CastProofs -----------------------------
(***************************************************************************)
(* What the cast service keeps of one speaker, for any number of songs,     *)
(* sessions, commands, setbacks and moves of the speaker, and songs of any  *)
(* length; and that the service implements the sessions of the household.   *)
(*                                                                          *)
(* The invariant CastInv says of every live row that it is well formed and  *)
(* that what it has as loaded is its current song, heard as far as it says; *)
(* of the speaker that it is no further in a song than was heard of it; and *)
(* of a job that what is left to be done leads back to a row of that kind.  *)
(* Each function of the domain is shown to decide well (Decided) by itself; *)
(* a step of the loop, a command and a call then only has to hand on what   *)
(* was decided.  Every step is shown to keep CastInv and to be a step of    *)
(* the sessions, or none (Steps).                                           *)
(*                                                                          *)
(* HandedInv adds that what the row has as loaded is what the speaker was   *)
(* really handed last, or is about to be written, unless that write was     *)
(* lost.  FlipsInv adds, of the reloads the loop makes by itself, how many  *)
(* may be left (Left): with what is known of the song this only falls, and  *)
(* what a setback makes the service forget gives three back at most.        *)
(***************************************************************************)
EXTENDS CastProperties, SequenceTheorems, WellFoundedInduction, TLAPS

-----------------------------------------------------------------------------
(* The queue of what can be played.                                         *)

\* Induction, with a set in the place of the predicate.
LEMMA SetInduction ==
  ASSUME NEW S, 0 \in S, \A n \in Nat : n \in S => n + 1 \in S
  PROVE  Nat \subseteq S
<1> DEFINE T == Nat \ S
           Less == OpToRel(<, Nat)
<1>1. \A m, n \in Nat : m < n => <<m, n>> \in Less
  BY Zenon DEF OpToRel
<1>2. IsWellFoundedOn(Less, Nat)
  BY NatLessThanWellFounded, Zenon
<1> HIDE DEF Less
<1> SUFFICES ASSUME T # {} PROVE FALSE
  OBVIOUS
<1>3. PICK x \in T : \A y \in T : ~(<<y, x>> \in Less)
  BY <1>2, WFMin, Zenon
<1>4. x \in Nat /\ x # 0
  OBVIOUS
<1>5. x - 1 \in Nat /\ x - 1 < x /\ x = (x - 1) + 1
  BY <1>4
<1>6. x - 1 \notin S
  BY <1>5
<1>7. x - 1 \in T
  BY <1>5, <1>6
<1> QED
  BY <1>1, <1>3, <1>4, <1>5, <1>7

\* By induction on how much of the request was looked at.
LEMMA QueueForType == ASSUME NEW ids \in Seq(Video) PROVE QueueFor(ids) \in Seq(Video)
<1> DEFINE len == Len(ids)
           Extended(f, n) == IF n = 0 THEN <<>>
                          ELSE IF Playable(ids[n]) THEN Append(f[n - 1], ids[n]) ELSE f[n - 1]
           Built(k) == \E f \in [0..k -> Seq(Video)] : \A n \in 0..k : f[n] = Extended(f, n)
           Done == {k \in Nat : k <= len => Built(k)}
<1>0. len \in Nat /\ \A n \in 1..len : ids[n] \in Video
  OBVIOUS
<1>1. 0 \in Done
  <2>1. Built(0)
    <3> DEFINE f == [n \in 0..0 |-> <<>>]
    <3>1. f \in [0..0 -> Seq(Video)] /\ \A n \in 0..0 : f[n] = Extended(f, n)
      OBVIOUS
    <3> QED BY <3>1
  <2> HIDE DEF Built
  <2> QED BY <2>1
<1>2. ASSUME NEW k \in Nat, k \in Done PROVE k + 1 \in Done
  <2> HIDE DEF Built
  <2> SUFFICES ASSUME k + 1 <= len PROVE Built(k + 1)
    OBVIOUS
  <2>1. Built(k)
    BY <1>0, <1>2
  <2> USE DEF Built
  <2>2. PICK f \in [0..k -> Seq(Video)] : \A n \in 0..k : f[n] = Extended(f, n)
    BY <2>1
  <2> DEFINE g == [n \in 0..(k + 1) |-> IF n <= k THEN f[n] ELSE Extended(f, k + 1)]
  <2>3. Extended(f, k + 1) \in Seq(Video)
    <3>1. k + 1 \in 1..len /\ f[k] \in Seq(Video) /\ (k + 1) - 1 = k /\ k + 1 # 0
      BY <1>0
    <3>2. ids[k + 1] \in Video
      BY <1>0, <3>1
    <3> QED BY <3>1, <3>2
  <2> HIDE DEF Extended
  <2>4. g \in [0..(k + 1) -> Seq(Video)]
    BY <2>3
  <2>5. \A n \in 0..k : g[n] = f[n]
    OBVIOUS
  <2>6. g[k + 1] = Extended(f, k + 1)
    OBVIOUS
  <2> HIDE DEF g
  <2>7. \A n \in 0..(k + 1) : g[n] = Extended(g, n)
    <3> TAKE n \in 0..(k + 1)
    <3>1. n = 0 \/ n - 1 \in 0..k
      OBVIOUS
    <3>2. Extended(g, n) = Extended(f, n)
      BY <2>5, <3>1 DEF Extended
    <3> QED BY <2>2, <2>5, <2>6, <3>2
  <2> QED BY <2>4, <2>7
<1>3. Built(len)
  <2> HIDE DEF Built
  <2>1. Nat \subseteq Done
    BY <1>1, <1>2, SetInduction
  <2> QED BY <1>0, <2>1
<1> DEFINE Fills(f) == f = [n \in 0..len |-> Extended(f, n)]
           upTo == CHOOSE f : Fills(f)
<1>4. Fills(upTo)
  <2>1. PICK f \in [0..len -> Seq(Video)] : \A n \in 0..len : f[n] = Extended(f, n)
    BY <1>3
  <2>2. Fills(f)
    <3> HIDE DEF Extended
    <3> QED BY <2>1
  <2> HIDE DEF Fills
  <2> QED BY <2>2
<1>5. QueueFor(ids) = upTo[len]
  BY DEF QueueFor
<1> DEFINE Typed == {k \in Nat : k <= len => upTo[k] \in Seq(Video)}
<1> HIDE DEF upTo
<1>6. \A n \in 0..len : upTo[n] = Extended(upTo, n)
  <2> HIDE DEF Extended
  <2> QED BY <1>4
<1>7. 0 \in Typed
  <2>1. 0 \in 0..len
    BY <1>0
  <2>2. upTo[0] = <<>>
    BY <1>6, <2>1
  <2>3. upTo[0] \in Seq(Video)
    BY <2>2
  <2> QED BY <2>3
<1>8. ASSUME NEW k \in Nat, k \in Typed, k + 1 <= len PROVE upTo[k + 1] \in Seq(Video)
  <2>1. k + 1 \in 1..len /\ k + 1 \in 0..len /\ (k + 1) - 1 = k /\ k + 1 # 0 /\ upTo[k] \in Seq(Video)
    BY <1>0, <1>8
  <2>2. ids[k + 1] \in Video
    BY <1>0, <2>1
  <2>3. upTo[k + 1] = IF Playable(ids[k + 1]) THEN Append(upTo[k], ids[k + 1]) ELSE upTo[k]
    BY <1>6, <2>1
  <2> QED BY <2>1, <2>2, <2>3
<1>9. Nat \subseteq Typed
  <2>1. \A k \in Nat : k \in Typed => k + 1 \in Typed
    BY <1>8
  <2> HIDE DEF Typed
  <2> QED BY <1>7, <2>1, SetInduction
<1> QED
  BY <1>0, <1>5, <1>9

-----------------------------------------------------------------------------
(* The invariant.                                                           *)

Queues == {QueueFor(ids) : ids \in Asked \cup Edits} \ {<<>>}

\* A session as the service holds it.
WellFormed(s) ==
  /\ s \in Session
  /\ s.queue \in Queues
  /\ s.index \in DOMAIN s.queue
  /\ s.state = "ended" <=> s.reason # NoReason

\* What is left of an ended row.
EndedRow == [state : {"ended"}, reason : EndedReason, queue : Queues, index : Nat, version : Nat]

\* What the speaker was last handed for s is its current song, which sounded,
\* or was started, as far as s says; h is how far each song did.
OnSong(s, h) ==
  /\ s.loaded \in Key
  /\ s.loaded.video = Current(s)
  /\ s.pos <= h[Current(s)]

Onward(old, new) == Sessions!Moved(old, new) \/ Sessions!Stays(old, new)

Note   == [do : {"record"}, video : Video, pos : 0..Duration]
Noted  == {<<n>> : n \in Note}
Loads  == {<<LoadIt>>} \cup {<<n, LoadIt>> : n \in Note}
Stops  == {<<StopIt>>} \cup {<<n, StopIt>> : n \in Note}
Todo   == {<<>>} \cup Noted \cup Loads \cup Stops

WasHeard(note, h) == note.pos <= h[note.video] + EndSlack

Sound(d, h) ==
  /\ WellFormed(d.s)
  /\ d.todo \in Todo
  /\ d.todo \in Loads => d.s.state = "loading"
  /\ d.todo \notin Loads /\ d.s.state # "ended" => OnSong(d.s, h)
  /\ d.todo # <<>> /\ Head(d.todo).do = "record" => WasHeard(Head(d.todo), h)

SpeakerState == [kind : Kinds, online : BOOLEAN, key : Loadable \cup {OtherKey},
                 state : {"idle", "loading", "playing", "paused"}, pos : 0..Duration,
                 reason : {NoReason, "FINISHED", "ERROR", "CANCELLED"},
                 next : Loadable, from : 0..Duration]

\* A speaker to whom h was heard.
SpeakerOK(sp, h) ==
  /\ sp \in SpeakerState
  /\ sp.key = NoKey => sp.state = "idle"
  /\ sp.key \in Key /\ sp.state # "idle" => sp.pos <= h[sp.key.video]
  /\ sp.next \in Key => sp.from <= h[sp.next.video]
  /\ sp.reason = "FINISHED" => sp.key \in Key /\ h[sp.key.video] >= Duration

SpeakerInv == SpeakerOK(speaker, heard)

RowOK(row, h) ==
  IF row.state \in Active THEN WellFormed(row) /\ OnSong(row, h)
  ELSE row \in EndedRow /\ row.index \in DOMAIN row.queue

RowsInv ==
  /\ DOMAIN sessions \subseteq SessionId
  /\ \A id \in DOMAIN sessions : RowOK(sessions[id], heard)
  /\ \A k, l \in SessionId : Live(k) /\ Live(l) => k = l

JobInv ==
  \/ job = NoJob
  \/ /\ job \in [then : {"narrate", "save", "ahead"}, id : SessionId, s : Session, todo : Todo]
     /\ Sound(job, heard)
     /\ Live(job.id)
     /\ Onward(sessions[job.id], job.s)
     /\ job.then = "ahead" => job.todo = <<>> /\ job.s.index < Len(job.s.queue)
  \/ /\ job \in [then : {"create"}, id : SessionId, s : Session, todo : {<<>>, <<LoadIt>>}]
     /\ Sound(job, heard)
     /\ job.id \notin DOMAIN sessions
     /\ job.s.state = "loading" /\ job.s.version = 1

Hearing == [Video -> 0..Duration]

\* The song goes on as it is: the same one, in the same form.
SameSong(s, t) ==
  /\ Current(t) = Current(s) /\ t.loaded = s.loaded
  /\ t.narration = s.narration /\ t.forced = s.forced

\* What the loop and the commands decide of a live session s.
Decided(s, d, h) ==
  /\ Sound(d, h) /\ Onward(s, d.s)
  /\ d.todo \in Loads \/ d.s.state = "ended" \/ SameSong(s, d.s)

MemoryInv == heard \in Hearing /\ ready \subseteq Video /\ spoken \subseteq Video

CastInv == SpeakerInv /\ RowsInv /\ JobInv /\ MemoryInv

-----------------------------------------------------------------------------
(* What the speaker was handed last.                                        *)

\* Unless it was lost, it is what the row says, or what the holder of the lock
\* is about to write; while a session is being created the rows have yet to go.
HandedInv ==
  /\ setbacks \in Nat
  /\ \/ unsaved
     \/ /\ job # NoJob /\ job.todo \notin Loads /\ job.s.state # "ended" => job.s.loaded = handed
        /\ At("create") \/ \A id \in SessionId : Live(id) => sessions[id].loaded = handed

-----------------------------------------------------------------------------
(* How often the loop reloads a song by itself.                             *)

Bound(k) == 2 + 3 * k

\* How often it may yet reload s, todo to be done: rd is known to be ready, sp
\* to be Vietnamese.
Left(s, todo, rd, sp) ==
  LET v == Current(s)
  IN  IF s.state = "ended" THEN 0
      ELSE IF todo \in Loads
      THEN IF ~Covers(s, v, sp) THEN 0 ELSE IF v \in rd THEN 1 ELSE 2
      ELSE IF s.loaded.narrated
      THEN IF Covers(s, v, sp) /\ v \notin rd THEN 3 ELSE 1
      ELSE IF Covers(s, v, sp) THEN 2 ELSE 0

\* Before the first setback, k of them, a song that sounds narrated is known to
\* be ready.
Remembered(s, todo, rd, k) ==
  k = 0 /\ s.state # "ended" /\ todo \notin Loads /\ s.loaded.narrated => Current(s) \in rd

Within(s, todo, n, rd, sp, k) == Remembered(s, todo, rd, k) /\ n + Left(s, todo, rd, sp) <= Bound(k)

FlipsInv ==
  /\ flips \in Nat /\ setbacks \in Nat /\ flips <= Bound(setbacks)
  /\ \A id \in SessionId : Live(id) =>
       /\ Remembered(sessions[id], <<>>, ready, setbacks)
       /\ job = NoJob => Within(sessions[id], <<>>, flips, ready, spoken, setbacks)
  /\ job # NoJob => /\ Within(job.s, job.todo, flips, ready, spoken, setbacks)
                    /\ job.then = "create" => flips = 0

-----------------------------------------------------------------------------
(* What the functions of the domain return, field by field.                 *)

LEMMA LoadAtFields ==
  ASSUME NEW s \in Session, NEW i \in Nat, NEW from \in 0..Duration
  PROVE  LET d == LoadAt(s, i, from)
         IN  /\ d.s \in Session /\ d.todo = <<LoadIt>>
             /\ d.s.state = "loading" /\ d.s.index = i /\ d.s.pos = from
             /\ d.s.version = s.version + 1
             /\ d.s.queue = s.queue /\ d.s.reason = s.reason
             /\ d.s.narration = s.narration /\ d.s.forced = s.forced /\ d.s.loaded = s.loaded
<1> DEFINE len == Length(s.queue[i])
           to == [s EXCEPT !.index = i, !.state = "loading", !.pos = from, !.duration = len,
                           !.acked = FALSE, !.late = FALSE, !.version = s.version + 1]
<1>0. len \in {0, Duration}
  BY DEF Length
<1> HIDE DEF len
<1>1. LoadAt(s, i, from) = [s |-> to, todo |-> <<LoadIt>>]
  BY Zenon DEF LoadAt, Decide, len
<1>2. /\ to.state = "loading" /\ to.index = i /\ to.pos = from
      /\ to.version = s.version + 1
      /\ to.queue = s.queue /\ to.reason = s.reason
      /\ to.narration = s.narration /\ to.forced = s.forced /\ to.loaded = s.loaded
  BY DEF Session
<1>3. to \in Session
  <2>0. s.version \in Nat
    BY DEF Session
  <2>1. s.version + 1 \in Nat
    BY <2>0
  <2>2. \A v \in Nat : [s EXCEPT !.index = i, !.state = "loading", !.pos = from, !.duration = len,
                         !.acked = FALSE, !.late = FALSE, !.version = v] \in Session
    BY <1>0 DEF Session, Active
  <2> QED BY <2>1, <2>2
<1> HIDE DEF to
<1> QED BY <1>1, <1>2, <1>3

LEMMA EndFields ==
  ASSUME NEW s \in Session, s.state # "ended", NEW reason \in EndedReason
  PROVE  /\ End(s, reason) \in Session
         /\ End(s, reason).state = "ended" /\ End(s, reason).reason = reason
         /\ End(s, reason).queue = s.queue /\ End(s, reason).index = s.index
         /\ End(s, reason).version = s.version
BY DEF End, Session, Active

LEMMA FollowFields ==
  ASSUME NEW s \in Session, NEW st, st.pos \in 0..Duration, st.duration \in {0, Duration},
         NEW due \in BOOLEAN
  PROVE  LET d == Follow(s, st, due)
         IN  /\ d.s \in Session
             /\ d.s.state = IF st.state \in {"playing", "paused"} THEN st.state ELSE s.state
             /\ d.s.pos = st.pos
             /\ d.s.version = s.version /\ d.s.index = s.index
             /\ d.s.queue = s.queue /\ d.s.reason = s.reason
             /\ d.s.narration = s.narration /\ d.s.forced = s.forced /\ d.s.loaded = s.loaded
             /\ d.todo = IF due THEN <<RecordProgress(Current(s), st.pos)>> ELSE <<>>
BY DEF Follow, Decide, Session, Active

LEMMA MinIsLeast == ASSUME NEW S \in SUBSET Nat, S # {} PROVE Min(S) \in S
<1> DEFINE Up == {n \in Nat : \A k \in S : n <= k}
<1>1. \E n \in Nat : n \in Up /\ n + 1 \notin Up
  <2>1. 0 \in Up
    OBVIOUS
  <2>2. PICK k \in S : TRUE
    OBVIOUS
  <2>3. k + 1 \notin Up /\ k + 1 \in Nat
    BY <2>2
  <2> HIDE DEF Up
  <2> QED BY <2>1, <2>3, SetInduction
<1>2. PICK n \in Nat : n \in Up /\ n + 1 \notin Up
  BY <1>1
<1>3. n \in S /\ \A y \in S : n <= y
  BY <1>2
<1> HIDE DEF Up
<1> QED
  BY <1>3, Zenon DEF Min

-----------------------------------------------------------------------------
(* What is to be done: a note for the history, perhaps, then a load, a stop *)
(* or nothing.                                                              *)

LEMMA NoteFields ==
  ASSUME NEW v \in Video, NEW pos \in 0..Duration
  PROVE  LET n == RecordProgress(v, pos)
         IN n \in Note /\ n.do = "record" /\ n.video = v /\ n.pos = pos
BY DEF RecordProgress, Note

LEMMA ShortTodos ==
  /\ <<>> \in Todo /\ <<>> \notin Loads
  /\ <<LoadIt>> \in Todo /\ <<LoadIt>> \in Loads /\ <<LoadIt>> # <<>>
  /\ Head(<<LoadIt>>).do = "load" /\ Tail(<<LoadIt>>) = <<>>
  /\ <<StopIt>> \in Todo /\ <<StopIt>> \notin Loads /\ <<StopIt>> # <<>>
  /\ Head(<<StopIt>>).do = "stop" /\ Tail(<<StopIt>>) = <<>>
<1>1. LoadIt.do = "load" /\ StopIt.do = "stop"
  BY DEF LoadIt, StopIt
<1>2. \A n \in Note : <<n, LoadIt>> # <<StopIt>> /\ <<n, LoadIt>> # <<>>
  BY DEF Note
<1>3. <<StopIt>> # <<LoadIt>>
  BY <1>1
<1> QED
  BY <1>1, <1>2, <1>3 DEF Todo, Loads, Stops

LEMMA OneThenOne ==
  ASSUME NEW S, NEW a \in S, NEW b \in S PROVE <<a>> \o <<b>> = <<a, b>>
<1>1. <<a>> \in Seq(S) /\ <<b>> \in Seq(S) /\ <<a, b>> \in Seq(S) /\ <<a>> \o <<b>> \in Seq(S)
  OBVIOUS
<1>2. Len(<<a>> \o <<b>>) = 2 /\ Len(<<a, b>>) = 2
  BY <1>1
<1>3. (<<a>> \o <<b>>)[1] = a /\ (<<a>> \o <<b>>)[2] = b
  BY <1>1
<1>4. \A i \in 1..2 : (<<a>> \o <<b>>)[i] = <<a, b>>[i]
  BY <1>3
<1> QED
  BY <1>1, <1>2, <1>4, SeqEqual

LEMMA NotedTodos ==
  ASSUME NEW n \in Note
  PROVE  /\ <<n>> \in Todo /\ <<n>> \notin Loads /\ <<n>> # <<>>
         /\ Head(<<n>>) = n /\ Tail(<<n>>) = <<>>
         /\ <<n>> \o <<LoadIt>> \in Todo /\ <<n>> \o <<LoadIt>> \in Loads /\ <<n>> \o <<LoadIt>> # <<>>
         /\ Head(<<n>> \o <<LoadIt>>) = n /\ Tail(<<n>> \o <<LoadIt>>) = <<LoadIt>>
         /\ <<n>> \o <<StopIt>> \in Todo /\ <<n>> \o <<StopIt>> \notin Loads /\ <<n>> \o <<StopIt>> # <<>>
         /\ Head(<<n>> \o <<StopIt>>) = n /\ Tail(<<n>> \o <<StopIt>>) = <<StopIt>>
<1>1. <<n>> \o <<LoadIt>> = <<n, LoadIt>> /\ <<n>> \o <<StopIt>> = <<n, StopIt>>
  <2> DEFINE S == {n, LoadIt, StopIt}
  <2>1. n \in S /\ LoadIt \in S /\ StopIt \in S
    OBVIOUS
  <2> HIDE DEF S
  <2> QED BY <2>1, OneThenOne
<1>2. n.do = "record" /\ LoadIt.do = "load" /\ StopIt.do = "stop"
  BY DEF Note, LoadIt, StopIt
<1>3. /\ Head(<<n>>) = n /\ Tail(<<n>>) = <<>>
      /\ Head(<<n, LoadIt>>) = n /\ Tail(<<n, LoadIt>>) = <<LoadIt>>
      /\ Head(<<n, StopIt>>) = n /\ Tail(<<n, StopIt>>) = <<StopIt>>
  OBVIOUS
<1>4. <<n>> \in Todo /\ <<n>> \notin Loads /\ <<n>> # <<>>
  BY <1>2 DEF Todo, Noted, Loads
<1>5. <<n, LoadIt>> \in Todo /\ <<n, LoadIt>> \in Loads /\ <<n, LoadIt>> # <<>>
  BY DEF Todo, Loads
<1>6. <<n, StopIt>> \in Todo /\ <<n, StopIt>> # <<>>
  BY DEF Todo, Stops
<1>7. <<n, StopIt>> \notin Loads
  BY <1>2 DEF Loads
<1> QED
  BY <1>1, <1>3, <1>4, <1>5, <1>6, <1>7

\* After the first of it has been done.
LEMMA TodoGoesOn ==
  ASSUME NEW todo \in Todo, todo # <<>>
  PROVE  /\ Head(todo).do = "load" => todo = <<LoadIt>>
         /\ Head(todo).do # "load" => (Tail(todo) \in Loads <=> todo \in Loads)
         /\ Tail(todo) \in Todo
         /\ Tail(todo) # <<>> => Head(Tail(todo)).do # "record"
<1>1. CASE todo \in {<<LoadIt>>, <<StopIt>>}
  BY <1>1, ShortTodos
<1>2. ASSUME NEW n \in Note, todo \in {<<n>>, <<n, LoadIt>>, <<n, StopIt>>}
      PROVE  /\ Head(todo).do = "record"
             /\ Tail(todo) \in Loads <=> todo \in Loads
             /\ Tail(todo) \in Todo
             /\ Tail(todo) # <<>> => Head(Tail(todo)).do # "record"
  <2>1. <<n>> \o <<LoadIt>> = <<n, LoadIt>> /\ <<n>> \o <<StopIt>> = <<n, StopIt>>
    <3> DEFINE S == {n, LoadIt, StopIt}
    <3>1. n \in S /\ LoadIt \in S /\ StopIt \in S
      OBVIOUS
    <3> HIDE DEF S
    <3> QED BY <3>1, OneThenOne
  <2>2. n.do = "record"
    BY DEF Note
  <2> QED BY <1>2, <2>1, <2>2, NotedTodos, ShortTodos
<1> QED
  BY <1>1, <1>2, ShortTodos DEF Todo, Noted, Loads, Stops

LEMMA QueuesAreSeqs ==
  ASSUME NEW q \in Queues
  PROVE  q \in Seq(Video) /\ q # <<>> /\ Len(q) \in Nat \ {0} /\ DOMAIN q = 1..Len(q)
<1>1. PICK ids \in Asked \cup Edits : q = QueueFor(ids) /\ q # <<>>
  BY DEF Queues
<1>2. q \in Seq(Video)
  BY <1>1, QueueForType, CastEngineAssumption
<1> QED
  BY <1>1, <1>2, EmptySeq, LenProperties

-----------------------------------------------------------------------------
(* Decisions about a session that has not ended.                            *)

LEMMA WellFormedFields ==
  ASSUME NEW s, WellFormed(s)
  PROVE  /\ s.queue \in Seq(Video) /\ s.queue # <<>> /\ Len(s.queue) \in Nat \ {0}
         /\ DOMAIN s.queue = 1..Len(s.queue)
         /\ s.index \in 1..Len(s.queue) /\ s.version \in Nat
         /\ s.pos \in 0..Duration /\ s.duration \in {0, Duration}
         /\ Current(s) \in Video
         /\ s.state \in Active \cup {"ended"} /\ s.reason \in EndedReason \cup {NoReason}
<1>1. s \in Session /\ s.queue \in Queues /\ s.index \in DOMAIN s.queue
  BY DEF WellFormed
<1>2. /\ s.queue \in Seq(Video) /\ s.queue # <<>> /\ Len(s.queue) \in Nat \ {0}
      /\ DOMAIN s.queue = 1..Len(s.queue)
  BY <1>1, QueuesAreSeqs
<1>3. s.version \in Nat /\ s.pos \in 0..Duration /\ s.duration \in {0, Duration}
      /\ s.state \in Active \cup {"ended"} /\ s.reason \in EndedReason \cup {NoReason}
  BY <1>1 DEF Session
<1>4. Current(s) \in Video
  BY <1>1, <1>2 DEF Current
<1> QED
  BY <1>1, <1>2, <1>3, <1>4

LEMMA LoadAtDecides ==
  ASSUME NEW s, WellFormed(s), s.state # "ended", NEW h \in Hearing,
         NEW i \in 1..Len(s.queue), NEW from \in 0..Duration
  PROVE  /\ Decided(s, LoadAt(s, i, from), h)
         /\ LoadAt(s, i, from).todo = <<LoadIt>> /\ LoadAt(s, i, from).s.state = "loading"
         /\ LoadAt(s, i, from).s.version = s.version + 1
<1> DEFINE d == LoadAt(s, i, from)
<1>a. Len(s.queue) \in Nat \ {0} /\ DOMAIN s.queue = 1..Len(s.queue) /\ s.version \in Nat
  BY WellFormedFields
<1>b. s \in Session /\ s.queue \in Queues /\ s.reason = NoReason
  BY DEF WellFormed
<1>c. i \in DOMAIN s.queue
  BY <1>a, Zenon
<1>d. i \in Nat
  BY <1>a
<1>0. s \in Session /\ i \in Nat /\ s.version \in Nat /\ i \in DOMAIN s.queue /\ s.queue \in Queues /\ s.reason = NoReason
  BY <1>a, <1>b, <1>c, <1>d, Zenon
<1>1. /\ d.s \in Session /\ d.todo = <<LoadIt>>
      /\ d.s.state = "loading" /\ d.s.index = i
      /\ d.s.version = s.version + 1
      /\ d.s.queue = s.queue /\ d.s.reason = s.reason
  BY <1>0, LoadAtFields
<1> HIDE DEF d
<1>2. WellFormed(d.s)
  <2>1. "loading" # "ended"
    OBVIOUS
  <2> QED BY <1>0, <1>1, <2>1, Zenon DEF WellFormed
<1>3. Sound(d, h)
  <2>1. d.s.state # "ended" /\ d.todo \in Todo /\ d.todo \in Loads /\ Head(d.todo).do # "record"
    BY <1>1, ShortTodos
  <2> QED BY <1>1, <1>2, <2>1, Zenon DEF Sound
<1>4. Sessions!Moved(s, d.s)
  <2>1. d.s.version > s.version
    BY <1>0, <1>1
  <2> QED BY <1>0, <1>1, <2>1, Zenon DEF Sessions!Moved
<1> QED
  BY <1>1, <1>3, <1>4, ShortTodos DEF Decided, Onward, d

LEMMA EndDecides ==
  ASSUME NEW s, WellFormed(s), s.state # "ended", NEW h \in Hearing,
         NEW reason \in EndedReason, NEW todo \in {<<>>, <<StopIt>>}
  PROVE  /\ Decided(s, Decide(End(s, reason), todo), h)
         /\ End(s, reason).state = "ended" /\ End(s, reason).version = s.version
<1> DEFINE t == End(s, reason)
<1>0. s \in Session /\ s.index \in DOMAIN s.queue /\ s.queue \in Queues /\ NoReason \notin EndedReason
  BY Zenon DEF WellFormed, EndedReason, NoReason
<1>1. /\ t \in Session /\ t.state = "ended" /\ t.reason = reason
      /\ t.queue = s.queue /\ t.index = s.index /\ t.version = s.version
  BY <1>0, EndFields
<1> HIDE DEF t
<1>2. WellFormed(t)
  BY <1>0, <1>1 DEF WellFormed
<1>3. Decide(t, todo).s = t /\ Decide(t, todo).todo = todo
  BY DEF Decide
<1> DEFINE d == Decide(t, todo)
<1> HIDE DEF d
<1>4. Sound(d, h)
  BY <1>1, <1>2, <1>3, ShortTodos DEF Sound, d
<1>5. Onward(s, d.s)
  BY <1>1, <1>3 DEF Onward, Sessions!Stays, d
<1> QED
  BY <1>1, <1>3, <1>4, <1>5 DEF Decided, d, t

LEMMA AdvanceDecides ==
  ASSUME NEW s, WellFormed(s), s.state # "ended", NEW h \in Hearing
  PROVE  /\ Decided(s, Advance(s), h)
         /\ Advance(s).todo \in {<<LoadIt>>, <<StopIt>>}
         /\ Advance(s).s.version # s.version \/ Advance(s).s.state = "ended"
<1>1. CASE s.index < Len(s.queue)
  <2>0. Len(s.queue) \in Nat \ {0} /\ s.index \in 1..Len(s.queue) /\ s.version \in Nat
    BY WellFormedFields
  <2>1. s.index + 1 \in 1..Len(s.queue) /\ 0 \in 0..Duration /\ s.version \in Nat
    BY <1>1, <2>0, CastDomainAssumption
  <2>2. Advance(s) = LoadAt(s, s.index + 1, 0)
    BY <1>1 DEF Advance
  <2>3. s.version + 1 # s.version
    BY <2>1
  <2> QED BY <2>1, <2>2, <2>3, LoadAtDecides
<1>2. CASE ~(s.index < Len(s.queue))
  <2>1. Advance(s) = Decide(End(s, "queue_finished"), <<StopIt>>)
    BY <1>2 DEF Advance
  <2>2. "queue_finished" \in EndedReason
    BY DEF EndedReason
  <2>3. Decided(s, Advance(s), h) /\ End(s, "queue_finished").state = "ended"
    BY <2>1, <2>2, EndDecides
  <2> QED BY <2>1, <2>3 DEF Decide
<1> QED
  BY <1>1, <1>2

LEMMA SkipFailedDecides ==
  ASSUME NEW s, WellFormed(s), s.state # "ended", NEW h \in Hearing
  PROVE  /\ Decided(s, SkipFailed(s), h)
         /\ SkipFailed(s).todo \in {<<LoadIt>>, <<>>}
         /\ SkipFailed(s).s.version # s.version \/ SkipFailed(s).s.state = "ended"
<1>1. CASE s.index < Len(s.queue)
  <2>0. Len(s.queue) \in Nat \ {0} /\ s.index \in 1..Len(s.queue) /\ s.version \in Nat
    BY WellFormedFields
  <2>1. s.index + 1 \in 1..Len(s.queue) /\ 0 \in 0..Duration /\ s.version \in Nat
    BY <1>1, <2>0, CastDomainAssumption
  <2>2. SkipFailed(s) = LoadAt(s, s.index + 1, 0)
    BY <1>1 DEF SkipFailed, Advance
  <2>3. s.version + 1 # s.version
    BY <2>1
  <2> QED BY <2>1, <2>2, <2>3, LoadAtDecides
<1>2. CASE ~(s.index < Len(s.queue))
  <2>1. SkipFailed(s) = Decide(End(s, "failed"), <<>>)
    BY <1>2 DEF SkipFailed
  <2>2. "failed" \in EndedReason
    BY DEF EndedReason
  <2>3. Decided(s, SkipFailed(s), h) /\ End(s, "failed").state = "ended"
    BY <2>1, <2>2, EndDecides
  <2> QED BY <2>1, <2>3 DEF Decide
<1> QED
  BY <1>1, <1>2

\* A load the loop asks for because the song is over, not its form.
Moves(s, d) == d.todo \in Loads => d.s.version # s.version

\* t is s but for what nothing decided here reads.
Alike(s, t) ==
  /\ WellFormed(t)
  /\ t.state = s.state /\ t.queue = s.queue /\ t.index = s.index /\ t.version = s.version
  /\ t.pos = s.pos /\ t.loaded = s.loaded /\ t.narration = s.narration /\ t.forced = s.forced

LEMMA AlikeIsAlike ==
  ASSUME NEW s, NEW t, Alike(s, t), NEW h
  PROVE  /\ Current(t) = Current(s)
         /\ OnSong(s, h) => OnSong(t, h)
         /\ \A d : Decided(t, d, h) => Decided(s, d, h)
         /\ \A d : Moves(t, d) => Moves(s, d)
<1>1. Current(t) = Current(s)
  BY Zenon DEF Alike, Current
<1>2. OnSong(s, h) => OnSong(t, h)
  BY <1>1, Zenon DEF Alike, OnSong
<1>3. ASSUME NEW d, Decided(t, d, h) PROVE Decided(s, d, h)
  <2>1. Onward(s, d.s)
    BY <1>3, Zenon DEF Decided, Alike, Onward, Sessions!Moved, Sessions!Stays
  <2>2. SameSong(t, d.s) => SameSong(s, d.s)
    BY <1>1, Zenon DEF Alike, SameSong
  <2> QED BY <1>3, <2>1, <2>2, Zenon DEF Decided
<1>4. \A d : Moves(t, d) => Moves(s, d)
  BY Zenon DEF Alike, Moves
<1> QED
  BY <1>1, <1>2, <1>3, <1>4, Zenon

LEMMA TouchedIsAlike ==
  ASSUME NEW s, WellFormed(s), NEW a \in BOOLEAN, NEW l \in BOOLEAN
  PROVE  /\ Alike(s, [s EXCEPT !.silent = a])
         /\ Alike(s, [s EXCEPT !.acked = a])
         /\ Alike(s, [s EXCEPT !.late = a])
         /\ Alike(s, [s EXCEPT !.acked = a, !.late = l])
<1>1. s \in Session
  BY DEF WellFormed
<1>2. ASSUME NEW t \in {[s EXCEPT !.silent = a], [s EXCEPT !.acked = a], [s EXCEPT !.late = a],
                        [s EXCEPT !.acked = a, !.late = l]}
      PROVE  Alike(s, t)
  <2>1. t \in Session
    <3>1. CASE t \in {[s EXCEPT !.silent = a], [s EXCEPT !.late = a]}
      BY <1>1, <3>1 DEF Session
    <3>2. CASE t \in {[s EXCEPT !.acked = a], [s EXCEPT !.acked = a, !.late = l]}
      BY <1>1, <3>2 DEF Session
    <3> QED BY <1>2, <3>1, <3>2
  <2>2. /\ t.state = s.state /\ t.queue = s.queue /\ t.index = s.index /\ t.version = s.version
        /\ t.pos = s.pos /\ t.loaded = s.loaded /\ t.narration = s.narration /\ t.forced = s.forced
        /\ t.reason = s.reason
    BY <1>1, <1>2 DEF Session
  <2>3. WellFormed(t)
    BY <2>1, <2>2, Zenon DEF WellFormed
  <2> QED BY <2>2, <2>3, Zenon DEF Alike
<1> QED
  BY <1>2

LEMMA NothingDecides ==
  ASSUME NEW s, WellFormed(s), s.state # "ended", NEW h \in Hearing, OnSong(s, h)
  PROVE  Decided(s, Decide(s, <<>>), h) /\ Moves(s, Decide(s, <<>>))
<1> DEFINE d == Decide(s, <<>>)
<1>1. d.s = s /\ d.todo = <<>>
  BY DEF Decide
<1> HIDE DEF d
<1>2. d.todo \in Todo /\ d.todo \notin Loads
  BY <1>1, ShortTodos
<1>3. Sound(d, h)
  BY <1>1, <1>2, Zenon DEF Sound
<1>4. Onward(s, d.s) /\ SameSong(s, d.s)
  BY <1>1, Zenon DEF Onward, Sessions!Stays, SameSong
<1> QED
  BY <1>2, <1>3, <1>4, Zenon DEF Decided, Moves, d

LEMMA UnansweredDecides ==
  ASSUME NEW s, WellFormed(s), s.state # "ended", NEW h \in Hearing, OnSong(s, h)
  PROVE  Decided(s, Unanswered(s), h) /\ Moves(s, Unanswered(s))
<1>1. CASE s.silent
  <2>1. Unanswered(s) = Decide(End(s, "device_offline"), <<>>)
    BY <1>1, Zenon DEF Unanswered
  <2>2. "device_offline" \in EndedReason
    BY Zenon DEF EndedReason
  <2>3. Decided(s, Unanswered(s), h)
    BY <2>1, <2>2, EndDecides
  <2>4. Unanswered(s).todo = <<>>
    BY <2>1 DEF Decide
  <2> QED BY <2>3, <2>4, ShortTodos DEF Moves
<1>2. CASE ~s.silent
  <2>1. Unanswered(s) = Decide(s, <<>>)
    BY <1>2, Zenon DEF Unanswered
  <2> QED BY <2>1, NothingDecides
<1> QED
  BY <1>1, <1>2

\* An answer of the speaker, to whom h was heard.
Answered(st, h) ==
  /\ st.key \in Loadable \cup {OtherKey}
  /\ st.state \in {"idle", "loading", "playing", "paused"}
  /\ st.pos \in 0..Duration /\ st.duration \in {0, Duration}
  /\ st.key = NoKey => st.state = "idle"
  /\ st.key \in Key /\ st.state # "idle" => st.pos <= h[st.key.video]
  /\ st.reason = "FINISHED" => st.key \in Key /\ h[st.key.video] >= Duration

LEMMA FollowDecides ==
  ASSUME NEW s, WellFormed(s), s.state # "ended", NEW h \in Hearing, OnSong(s, h),
         NEW st, st.pos \in 0..Duration, st.duration \in {0, Duration},
         st.pos <= h[Current(s)], NEW due \in BOOLEAN
  PROVE  Decided(s, Follow(s, st, due), h) /\ Moves(s, Follow(s, st, due))
<1> DEFINE d == Follow(s, st, due)
           note == RecordProgress(Current(s), st.pos)
<1>0. s \in Session /\ Current(s) \in Video /\ s.queue \in Queues /\ s.index \in DOMAIN s.queue
      /\ h[Current(s)] \in 0..Duration /\ EndSlack \in Nat /\ s.reason = NoReason
  <2>1. s \in Session /\ s.queue \in Queues /\ s.index \in DOMAIN s.queue /\ s.reason = NoReason
    BY Zenon DEF WellFormed
  <2>2. Current(s) \in Video
    BY WellFormedFields
  <2>3. h[Current(s)] \in 0..Duration
    BY <2>2 DEF Hearing
  <2>4. EndSlack \in Nat
    BY CastDomainAssumption
  <2> QED BY <2>1, <2>2, <2>3, <2>4
<1>1. /\ d.s \in Session
      /\ d.s.state = IF st.state \in {"playing", "paused"} THEN st.state ELSE s.state
      /\ d.s.pos = st.pos
      /\ d.s.version = s.version /\ d.s.index = s.index
      /\ d.s.queue = s.queue /\ d.s.reason = s.reason
      /\ d.s.narration = s.narration /\ d.s.forced = s.forced /\ d.s.loaded = s.loaded
      /\ d.todo = IF due THEN <<note>> ELSE <<>>
  BY <1>0, FollowFields
<1>2. note \in Note /\ note.do = "record" /\ note.video = Current(s) /\ note.pos = st.pos
  BY <1>0, NoteFields
<1> HIDE DEF d, note
<1>3. d.s.state # "ended" /\ WellFormed(d.s)
  <2>1. d.s.state # "ended"
    BY <1>1
  <2> QED BY <1>0, <1>1, <2>1, Zenon DEF WellFormed
<1>4. Current(d.s) = Current(s)
  BY <1>1, Zenon DEF Current
<1>5. OnSong(d.s, h) /\ SameSong(s, d.s) /\ Onward(s, d.s)
  BY <1>1, <1>4, Zenon DEF OnSong, SameSong, Onward, Sessions!Stays
<1>6. WasHeard(note, h)
  <2>1. note.pos <= h[note.video] + EndSlack
    BY <1>0, <1>2
  <2> QED BY <2>1 DEF WasHeard
<1>7. d.todo \in Todo /\ d.todo \notin Loads /\ (d.todo # <<>> => Head(d.todo) = note)
  BY <1>1, <1>2, ShortTodos, NotedTodos
<1>8. Sound(d, h)
  BY <1>3, <1>5, <1>6, <1>7, Zenon DEF Sound
<1> QED
  BY <1>5, <1>7, <1>8, Zenon DEF Decided, Moves, d

\* Skipping a song that was refused, or that nobody could play.
LEMMA SkipFailedMoves ==
  ASSUME NEW s, WellFormed(s), s.state # "ended", NEW h \in Hearing
  PROVE  Moves(s, SkipFailed(s))
<1>1. SkipFailed(s).todo \in Loads => SkipFailed(s).s.state = "loading"
  BY SkipFailedDecides, Zenon DEF Decided, Sound
<1> QED
  BY <1>1, SkipFailedDecides DEF Moves

LEMMA ReconcileLoadingDecides ==
  ASSUME NEW s, WellFormed(s), s.state = "loading", NEW h \in Hearing, OnSong(s, h),
         NEW st, Answered(st, h), NEW due \in BOOLEAN, NEW ours \in BOOLEAN,
         ours => st.key = s.loaded
  PROVE  LET d == ReconcileLoading(s, st, ours, due) IN Decided(s, d, h) /\ Moves(s, d)
<1> DEFINE acked == s.acked \/ (ours /\ st.state = "loading")
           begun == [s EXCEPT !.acked = TRUE, !.late = FALSE]
           shown == [s EXCEPT !.acked = acked]
           d == ReconcileLoading(s, st, ours, due)
<1>0. s.acked \in BOOLEAN /\ acked \in BOOLEAN
  BY DEF WellFormed, Session
<1>1. Alike(s, begun) /\ Alike(s, shown)
  BY <1>0, TouchedIsAlike
<1> HIDE DEF acked
<1>2. CASE ours /\ st.state \in {"playing", "paused"}
  <2>1. d = Follow(begun, st, due)
    BY <1>2, Zenon DEF ReconcileLoading
  <2>2. st.pos \in 0..Duration /\ st.duration \in {0, Duration} /\ st.pos <= h[Current(s)]
    <3>1. st.state # "idle"
      BY <1>2
    <3> QED BY <1>2, <3>1, Zenon DEF Answered, OnSong
  <2> HIDE DEF begun
  <2>3. /\ WellFormed(begun) /\ begun.state # "ended" /\ OnSong(begun, h)
        /\ Current(begun) = Current(s)
    <3>1. WellFormed(begun) /\ begun.state = "loading"
      BY <1>1, Zenon DEF Alike
    <3>2. OnSong(begun, h) /\ Current(begun) = Current(s)
      BY <1>1, AlikeIsAlike, Zenon
    <3> QED BY <3>1, <3>2
  <2>4. Decided(begun, Follow(begun, st, due), h) /\ Moves(begun, Follow(begun, st, due))
    BY <2>2, <2>3, FollowDecides
  <2> HIDE DEF d
  <2>5. Decided(s, d, h) /\ Moves(s, d)
    BY <1>1, <2>1, <2>4, AlikeIsAlike, Zenon
  <2> QED BY <2>5 DEF d
<1>3. CASE ~(ours /\ st.state \in {"playing", "paused"})
  <2>1. d \in {SkipFailed(shown), Decide(shown, <<>>)}
    BY <1>3, Zenon DEF ReconcileLoading, acked
  <2> HIDE DEF shown, d
  <2>2. WellFormed(shown) /\ shown.state # "ended" /\ OnSong(shown, h)
    <3>1. WellFormed(shown) /\ shown.state = "loading"
      BY <1>1, Zenon DEF Alike
    <3>2. OnSong(shown, h)
      BY <1>1, AlikeIsAlike, Zenon
    <3> QED BY <3>1, <3>2
  <2>3. Decided(shown, d, h) /\ Moves(shown, d)
    BY <2>1, <2>2, SkipFailedDecides, SkipFailedMoves, NothingDecides, Zenon
  <2>4. Decided(s, d, h) /\ Moves(s, d)
    BY <1>1, <2>3, AlikeIsAlike, Zenon
  <2> QED BY <2>4 DEF d
<1> QED
  BY <1>2, <1>3

LEMMA ReconcileIdleDecides ==
  ASSUME NEW s, WellFormed(s), s.state # "ended", NEW h \in Hearing, OnSong(s, h),
         NEW st, Answered(st, h), st.key \in {NoKey, s.loaded}
  PROVE  Decided(s, ReconcileIdle(s, st), h) /\ Moves(s, ReconcileIdle(s, st))
<1> DEFINE d == ReconcileIdle(s, st)
<1>1. CASE st.reason = "ERROR"
  <2>1. d = SkipFailed(s)
    BY <1>1, Zenon DEF ReconcileIdle
  <2> QED BY <2>1, SkipFailedDecides, SkipFailedMoves
<1>2. CASE st.reason # "ERROR" /\ Finished(s, st)
  <2> DEFINE note == RecordProgress(Current(s), s.duration)
             a == Advance(s)
  <2>1. d = [a EXCEPT !.todo = <<note>> \o a.todo]
    BY <1>2, Zenon DEF ReconcileIdle
  <2>2. note \in Note /\ note.do = "record" /\ note.video = Current(s) /\ note.pos = s.duration
    <3>1. Current(s) \in Video /\ s.duration \in {0, Duration} /\ Duration \in Nat
      BY WellFormedFields, CastDomainAssumption
    <3>2. s.duration \in 0..Duration
      BY <3>1
    <3> QED BY <3>1, <3>2, NoteFields
  <2>3. WasHeard(note, h)
    <3>1. /\ Current(s) \in Video /\ h[Current(s)] \in 0..Duration /\ EndSlack \in Nat /\ Duration \in Nat
          /\ s.pos \in 0..Duration /\ s.duration \in {0, Duration}
      <4>1. Current(s) \in Video /\ s.pos \in 0..Duration /\ s.duration \in {0, Duration}
        BY WellFormedFields
      <4> QED BY <4>1, CastDomainAssumption DEF Hearing
    <3>2. CASE st.reason # NoReason
      <4>1. st.reason = "FINISHED"
        BY <1>2, <3>2, Zenon DEF Finished
      <4>2. st.key \in Key /\ h[st.key.video] >= Duration
        BY <4>1, Zenon DEF Answered
      <4>3. st.key = s.loaded
        BY <4>2, CastDomainAssumption
      <4>4. h[Current(s)] >= Duration
        BY <4>2, <4>3, Zenon DEF OnSong
      <4>5. s.duration <= h[Current(s)] + EndSlack
        BY <3>1, <4>4
      <4> QED BY <2>2, <4>5, Zenon DEF WasHeard
    <3>3. CASE st.reason = NoReason
      <4>1. s.duration > 0 /\ s.pos >= s.duration - EndSlack
        BY <1>2, <3>3, Zenon DEF Finished
      <4>2. s.pos <= h[Current(s)]
        BY Zenon DEF OnSong
      <4>3. s.duration <= h[Current(s)] + EndSlack
        BY <3>1, <4>1, <4>2
      <4> QED BY <2>2, <4>3, Zenon DEF WasHeard
    <3> QED BY <3>2, <3>3
  <2>4. /\ Decided(s, a, h) /\ a.todo \in {<<LoadIt>>, <<StopIt>>}
        /\ a.s.version # s.version \/ a.s.state = "ended"
    BY AdvanceDecides
  <2>5. d.s = a.s /\ d.todo = <<note>> \o a.todo
    <3>1. a = Decide(a.s, a.todo)
      BY DEF Advance, LoadAt, Decide
    <3> HIDE DEF a
    <3>2. a = [s |-> a.s, todo |-> a.todo]
      BY <3>1, Zenon DEF Decide
    <3> QED BY <2>1, <3>2
  <2> HIDE DEF note, a, d
  <2>6. d.todo \in Todo /\ d.todo # <<>> /\ Head(d.todo) = note /\ (d.todo \in Loads <=> a.todo \in Loads)
    BY <2>2, <2>4, <2>5, NotedTodos, ShortTodos
  <2>7. a.todo # <<>> /\ Head(a.todo).do # "record"
    BY <2>4, ShortTodos
  <2>8. Sound(a, h)
    BY <2>4, Zenon DEF Decided
  <2>9. Sound(d, h)
    BY <2>3, <2>5, <2>6, <2>8, Zenon DEF Sound
  <2>10. Decided(s, d, h)
    BY <2>4, <2>5, <2>6, <2>9, Zenon DEF Decided
  <2>11. Moves(s, d)
    <3>1. a.todo \in Loads => a.s.state = "loading"
      BY <2>8, Zenon DEF Sound
    <3> QED BY <2>4, <2>5, <2>6, <3>1 DEF Moves
  <2> QED BY <2>10, <2>11 DEF d
<1>3. CASE st.reason # "ERROR" /\ ~Finished(s, st)
  <2>1. d = Decide(End(s, "stopped_on_device"), <<>>)
    BY <1>3, Zenon DEF ReconcileIdle
  <2>2. "stopped_on_device" \in EndedReason
    BY Zenon DEF EndedReason
  <2>3. Decided(s, d, h)
    BY <2>1, <2>2, EndDecides
  <2>4. d.todo = <<>>
    BY <2>1 DEF Decide
  <2> QED BY <2>3, <2>4, ShortTodos DEF Moves
<1> QED
  BY <1>1, <1>2, <1>3

LEMMA ReconcileDecides ==
  ASSUME NEW s, WellFormed(s), s.state # "ended", NEW h \in Hearing, OnSong(s, h),
         NEW st, Answered(st, h), NEW due \in BOOLEAN
  PROVE  Decided(s, Reconcile(s, st, due), h) /\ Moves(s, Reconcile(s, st, due))
<1> DEFINE seen  == [s EXCEPT !.silent = FALSE]
           ours  == st.key # NoKey /\ st.key = s.loaded
           still == s.state = "loading" /\ st.key # NoKey /\ st.key = s.prev
           d == Reconcile(s, st, due)
<1>1. Alike(s, seen)
  BY TouchedIsAlike
<1>2. WellFormed(seen) /\ seen.state # "ended" /\ OnSong(seen, h) /\ Current(seen) = Current(s)
      /\ seen.loaded = s.loaded /\ seen.state = s.state
  <2> HIDE DEF seen
  <2>1. WellFormed(seen) /\ seen.state = s.state /\ seen.loaded = s.loaded
    BY <1>1, Zenon DEF Alike
  <2>2. OnSong(seen, h) /\ Current(seen) = Current(s)
    BY <1>1, AlikeIsAlike, Zenon
  <2> QED BY <2>1, <2>2
<1>3. Decided(seen, d, h) /\ Moves(seen, d)
  <2>1. CASE st.key # NoKey /\ ~ours /\ ~still
    <3>1. d = Decide(End(seen, "taken_over"), <<>>)
      BY <2>1, Zenon DEF Reconcile
    <3>2. "taken_over" \in EndedReason
      BY Zenon DEF EndedReason
    <3> HIDE DEF seen, d
    <3>3. Decided(seen, d, h)
      BY <1>2, <3>1, <3>2, EndDecides
    <3>4. d.todo = <<>>
      BY <3>1 DEF Decide
    <3> QED BY <3>3, <3>4, ShortTodos DEF Moves
  <2>2. CASE ~(st.key # NoKey /\ ~ours /\ ~still) /\ s.state = "loading"
    <3>1. d = ReconcileLoading(seen, st, ours, due)
      BY <2>2, Zenon DEF Reconcile
    <3>2. ours \in BOOLEAN /\ (ours => st.key = seen.loaded)
      BY <1>2
    <3> HIDE DEF seen, d, ours
    <3> QED BY <1>2, <2>2, <3>1, <3>2, ReconcileLoadingDecides
  <2>3. CASE ~(st.key # NoKey /\ ~ours /\ ~still) /\ s.state # "loading" /\ st.state = "idle"
    <3>1. d = ReconcileIdle(seen, st)
      BY <2>3, Zenon DEF Reconcile
    <3>2. st.key \in {NoKey, seen.loaded}
      BY <1>2, <2>3
    <3> HIDE DEF seen, d
    <3> QED BY <1>2, <3>1, <3>2, ReconcileIdleDecides
  <2>4. CASE ~(st.key # NoKey /\ ~ours /\ ~still) /\ s.state # "loading" /\ st.state # "idle"
    <3>1. d = Follow(seen, st, due)
      BY <2>4, Zenon DEF Reconcile
    <3>2. st.key = s.loaded /\ st.key \in Key
      BY <2>4, Zenon DEF Answered, OnSong
    <3>3. st.pos \in 0..Duration /\ st.duration \in {0, Duration} /\ st.pos <= h[Current(seen)]
      <4>1. st.pos \in 0..Duration /\ st.duration \in {0, Duration} /\ st.pos <= h[st.key.video]
        BY <2>4, <3>2, Zenon DEF Answered
      <4>2. Current(seen) = st.key.video
        BY <1>2, <3>2, Zenon DEF OnSong
      <4> QED BY <4>1, <4>2
    <3> HIDE DEF seen, d
    <3> QED BY <1>2, <3>1, <3>3, FollowDecides
  <2> QED BY <2>1, <2>2, <2>3, <2>4
<1> HIDE DEF seen, d
<1>4. Decided(s, d, h) /\ Moves(s, d)
  BY <1>1, <1>3, AlikeIsAlike, Zenon
<1> QED
  BY <1>4 DEF d

LEMMA ReloadDecides ==
  ASSUME NEW s, WellFormed(s), s.state # "ended", NEW h \in Hearing
  PROVE  LET d == Reload(s)
         IN  /\ Decided(s, d, h) /\ d.todo = <<LoadIt>> /\ d.s.state = "loading"
             /\ Current(d.s) = Current(s) /\ d.s.loaded = s.loaded
             /\ d.s.narration = s.narration /\ d.s.forced = s.forced
<1> DEFINE a == LoadAt(s, s.index, s.pos)
           t == [a.s EXCEPT !.version = s.version]
           d == Reload(s)
<1>0. /\ s \in Session /\ s.index \in Nat /\ s.pos \in 0..Duration /\ s.version \in Nat
      /\ s.queue \in Queues /\ s.index \in DOMAIN s.queue /\ s.reason = NoReason
  <2>1. s \in Session /\ s.queue \in Queues /\ s.index \in DOMAIN s.queue /\ s.reason = NoReason
    BY Zenon DEF WellFormed
  <2>2. s.index \in Nat /\ s.pos \in 0..Duration /\ s.version \in Nat
    BY <2>1 DEF Session
  <2> QED BY <2>1, <2>2
<1>1. /\ a.s \in Session /\ a.todo = <<LoadIt>>
      /\ a.s.state = "loading" /\ a.s.index = s.index
      /\ a.s.queue = s.queue /\ a.s.reason = s.reason
      /\ a.s.narration = s.narration /\ a.s.forced = s.forced /\ a.s.loaded = s.loaded
  BY <1>0, LoadAtFields
<1>2. a = [s |-> a.s, todo |-> a.todo]
  BY DEF LoadAt, Decide
<1>3. d = [a EXCEPT !.s.version = s.version]
  BY Zenon DEF Reload
<1> HIDE DEF a, d
<1>4. d.s = t /\ d.todo = a.todo
  BY <1>2, <1>3
<1>5. /\ t \in Session /\ t.state = "loading" /\ t.index = s.index
      /\ t.queue = s.queue /\ t.reason = s.reason /\ t.version = s.version
      /\ t.narration = s.narration /\ t.forced = s.forced /\ t.loaded = s.loaded
  BY <1>0, <1>1 DEF Session
<1> HIDE DEF t
<1>6. WellFormed(t) /\ t.state # "ended"
  <2>1. t.state # "ended"
    BY <1>5
  <2> QED BY <1>0, <1>5, <2>1, Zenon DEF WellFormed
<1>7. d.todo \in Todo /\ d.todo \in Loads /\ Head(d.todo).do # "record"
  BY <1>1, <1>4, ShortTodos
<1>8. Sound(d, h)
  BY <1>4, <1>5, <1>6, <1>7, Zenon DEF Sound
<1>9. Onward(s, d.s) /\ Current(d.s) = Current(s)
  BY <1>4, <1>5, Zenon DEF Onward, Sessions!Stays, Current
<1>10. Decided(s, d, h)
  BY <1>7, <1>8, <1>9, Zenon DEF Decided
<1> QED
  BY <1>1, <1>4, <1>5, <1>9, <1>10 DEF d

LEMMA ClampIsWithin ==
  ASSUME NEW i \in Int, NEW hi \in Nat \ {0}
  PROVE  Clamp(i, 1, hi) \in 1..hi
BY DEF Clamp

LEMMA ReplaceQueueDecides ==
  ASSUME NEW s, WellFormed(s), s.state # "ended", NEW h \in Hearing, OnSong(s, h),
         NEW items \in Queues, NEW at \in Int
  PROVE  Decided(s, ReplaceQueue(s, items, at), h)
<1> DEFINE kept == {i \in DOMAIN items : items[i] = Current(s)}
           next == [s EXCEPT !.queue = items, !.version = s.version + 1]
           d == ReplaceQueue(s, items, at)
<1>0. /\ s \in Session /\ s.version \in Nat /\ s.reason = NoReason
      /\ items \in Seq(Video) /\ Len(items) \in Nat \ {0} /\ DOMAIN items = 1..Len(items)
  <2>1. s \in Session /\ s.reason = NoReason
    BY Zenon DEF WellFormed
  <2>2. s.version \in Nat
    BY WellFormedFields
  <2> QED BY <2>1, <2>2, QueuesAreSeqs
<1>1. s.version + 1 \in Nat
  BY <1>0
<1>2. /\ next \in Session /\ next.queue = items /\ next.version = s.version + 1
      /\ next.reason = s.reason /\ next.state = s.state /\ next.pos = s.pos
      /\ next.loaded = s.loaded /\ next.narration = s.narration /\ next.forced = s.forced
  <2>1. \A v \in Nat, q \in Seq(Video) : [s EXCEPT !.queue = q, !.version = v] \in Session
    BY <1>0 DEF Session
  <2>2. next \in Session
    BY <1>0, <1>1, <2>1
  <2> QED BY <1>0, <2>2 DEF Session
<1> HIDE DEF next
<1>3. CASE kept # {}
  <2> DEFINE i == IF at \in kept THEN at ELSE Min(kept)
             t == [next EXCEPT !.index = i]
  <2>1. d = Decide(t, <<>>)
    BY <1>3, Zenon DEF ReplaceQueue, next
  <2>2. i \in kept
    <3>1. kept \in SUBSET Nat
      BY <1>0
    <3> HIDE DEF kept
    <3> QED BY <1>3, <3>1, MinIsLeast
  <2>3. i \in Nat /\ i \in DOMAIN items /\ items[i] = Current(s)
    BY <1>0, <2>2
  <2> HIDE DEF i, kept
  <2>4. /\ t \in Session /\ t.queue = items /\ t.version = s.version + 1 /\ t.index = i
        /\ t.reason = s.reason /\ t.state = s.state /\ t.pos = s.pos
        /\ t.loaded = s.loaded /\ t.narration = s.narration /\ t.forced = s.forced
    BY <1>2, <2>3 DEF Session
  <2> HIDE DEF t
  <2>5. WellFormed(t)
    BY <1>0, <2>3, <2>4, Zenon DEF WellFormed
  <2>6. Current(t) = Current(s)
    BY <2>3, <2>4, Zenon DEF Current
  <2>7. OnSong(t, h) /\ SameSong(s, t)
    BY <2>4, <2>6, Zenon DEF OnSong, SameSong
  <2>8. Sessions!Moved(s, t)
    <3>1. t.version > s.version
      BY <1>0, <2>4
    <3>2. t.index \in DOMAIN t.queue
      BY <2>3, <2>4, Zenon
    <3> QED BY <3>1, <3>2, Zenon DEF Sessions!Moved
  <2>9. d.s = t /\ d.todo = <<>>
    BY <2>1 DEF Decide
  <2> HIDE DEF d
  <2>10. d.todo \in Todo /\ d.todo \notin Loads
    BY <2>9, ShortTodos
  <2>11. Decided(s, d, h)
    BY <2>5, <2>7, <2>8, <2>9, <2>10, Zenon DEF Decided, Sound, Onward
  <2> QED BY <2>11 DEF d
<1>4. CASE kept = {}
  <2> DEFINE c == Clamp(at, 1, Len(items))
  <2>1. d = LoadAt(next, c, 0)
    BY <1>4, Zenon DEF ReplaceQueue, next
  <2>2. c \in 1..Len(items)
    BY <1>0, ClampIsWithin
  <2> HIDE DEF c
  <2>3. c \in Nat /\ c \in DOMAIN items /\ 0 \in 0..Duration
    BY <1>0, <2>2, CastDomainAssumption
  <2>4. /\ d.s \in Session /\ d.todo = <<LoadIt>>
        /\ d.s.state = "loading" /\ d.s.index = c
        /\ d.s.version = next.version + 1
        /\ d.s.queue = next.queue /\ d.s.reason = next.reason
    BY <1>2, <2>1, <2>3, LoadAtFields
  <2> HIDE DEF d
  <2>5. WellFormed(d.s) /\ d.s.state # "ended"
    <3>1. d.s.state # "ended"
      BY <2>4
    <3> QED BY <1>0, <1>2, <2>3, <2>4, <3>1, Zenon DEF WellFormed
  <2>6. Sessions!Moved(s, d.s)
    <3>1. d.s.version > s.version
      BY <1>0, <1>2, <2>4
    <3>2. d.s.index \in DOMAIN d.s.queue
      BY <1>2, <2>3, <2>4, Zenon
    <3> QED BY <3>1, <3>2, Zenon DEF Sessions!Moved
  <2>7. d.todo \in Todo /\ d.todo \in Loads /\ Head(d.todo).do # "record"
    BY <2>4, ShortTodos
  <2>8. Decided(s, d, h)
    BY <2>4, <2>5, <2>6, <2>7, Zenon DEF Decided, Sound, Onward
  <2> QED BY <2>8 DEF d
<1> QED
  BY <1>3, <1>4

-----------------------------------------------------------------------------
(* What was decided stays sound as more is heard and as it is worked off.   *)

Grown(h, k) == \A v \in Video : h[v] <= k[v]

LEMMA TodoHead ==
  ASSUME NEW todo \in Todo, todo # <<>>
  PROVE  /\ Head(todo).do = "record" => Head(todo) \in Note
         /\ Head(todo).do \in {"record", "load", "stop"}
         /\ Head(todo).do = "stop" => todo = <<StopIt>>
<1>1. CASE todo \in {<<LoadIt>>, <<StopIt>>}
  BY <1>1, ShortTodos
<1>2. ASSUME NEW n \in Note, todo \in {<<n>>, <<n, LoadIt>>, <<n, StopIt>>}
      PROVE  Head(todo) = n /\ n.do = "record"
  <2>1. n.do = "record"
    BY DEF Note
  <2> QED BY <1>2, <2>1
<1> QED
  BY <1>1, <1>2 DEF Todo, Noted, Loads, Stops

LEMMA OnSongGrows ==
  ASSUME NEW s, WellFormed(s), NEW h \in Hearing, NEW k \in Hearing, Grown(h, k), OnSong(s, h)
  PROVE  OnSong(s, k)
<1> DEFINE v == Current(s)
<1>1. v \in Video /\ s.pos \in 0..Duration
  BY WellFormedFields
<1> HIDE DEF v
<1>2. h[v] \in 0..Duration /\ k[v] \in 0..Duration /\ h[v] <= k[v]
  BY <1>1 DEF Hearing, Grown
<1>3. s.loaded \in Key /\ s.loaded.video = v /\ s.pos <= h[v]
  BY DEF OnSong, v
<1>4. s.pos <= k[v]
  <2>1. \A a, b, c \in 0..Duration : a <= b /\ b <= c => a <= c
    BY CastDomainAssumption
  <2> QED BY <1>1, <1>2, <1>3, <2>1, Zenon
<1> QED
  BY <1>3, <1>4, Zenon DEF OnSong, v

LEMMA SoundGrows ==
  ASSUME NEW d, NEW h \in Hearing, NEW k \in Hearing, Grown(h, k), Sound(d, h)
  PROVE  Sound(d, k)
<1>1. WellFormed(d.s) /\ d.todo \in Todo
  BY DEF Sound
<1>2. ASSUME d.todo # <<>>, Head(d.todo).do = "record" PROVE WasHeard(Head(d.todo), k)
  <2> DEFINE n == Head(d.todo)
  <2>1. n \in Note
    BY <1>1, <1>2, TodoHead
  <2>2. WasHeard(n, h)
    BY <1>2 DEF Sound
  <2> HIDE DEF n
  <2>3. n.video \in Video /\ n.pos \in 0..Duration
    BY <2>1 DEF Note
  <2>4. /\ h[n.video] \in 0..Duration /\ k[n.video] \in 0..Duration /\ h[n.video] <= k[n.video]
        /\ EndSlack \in 0..Duration
    BY <2>3, CastDomainAssumption DEF Hearing, Grown
  <2>5. n.pos <= h[n.video] + EndSlack
    BY <2>2 DEF WasHeard
  <2>6. \A a, b, c, e \in 0..Duration : a <= b + e /\ b <= c => a <= c + e
    BY CastDomainAssumption
  <2>7. n.pos <= k[n.video] + EndSlack
    BY <2>3, <2>4, <2>5, <2>6, Zenon
  <2> QED BY <2>7, Zenon DEF WasHeard, n
<1>3. d.todo \notin Loads /\ d.s.state # "ended" => OnSong(d.s, k)
  BY <1>1, OnSongGrows DEF Sound
<1> QED
  BY <1>1, <1>2, <1>3, Zenon DEF Sound

LEMMA RowGrows ==
  ASSUME NEW row, NEW h \in Hearing, NEW k \in Hearing, Grown(h, k), RowOK(row, h)
  PROVE  RowOK(row, k)
BY OnSongGrows, Zenon DEF RowOK

\* A note written or a stop asked for: the rest is as sound as the whole was.
LEMMA RestIsSound ==
  ASSUME NEW s, NEW todo, NEW h, todo # <<>>, Head(todo).do # "load",
         Sound(Decide(s, todo), h)
  PROVE  Sound(Decide(s, Tail(todo)), h)
<1>1. /\ Decide(s, todo).s = s /\ Decide(s, todo).todo = todo
      /\ Decide(s, Tail(todo)).s = s /\ Decide(s, Tail(todo)).todo = Tail(todo)
  BY DEF Decide
<1>2. todo \in Todo
  BY <1>1, Zenon DEF Sound
<1>3. /\ Tail(todo) \in Todo /\ (Tail(todo) \in Loads <=> todo \in Loads)
      /\ Tail(todo) # <<>> => Head(Tail(todo)).do # "record"
  BY <1>2, TodoGoesOn
<1> QED
  BY <1>1, <1>3, Zenon DEF Sound

LEMMA OnwardIsTransitive ==
  ASSUME NEW a, NEW b, NEW c, a.version \in Nat, b.version \in Nat, c.version \in Nat,
         Onward(a, b), Onward(b, c)
  PROVE  Onward(a, c)
BY DEF Onward, Sessions!Moved, Sessions!Stays

-----------------------------------------------------------------------------
(* Saving a session, and going on with a job.                               *)

LEMMA StoredIsOK ==
  ASSUME NEW s, WellFormed(s), NEW h, s.state # "ended" => OnSong(s, h)
  PROVE  /\ RowOK(Stored(s), h)
         /\ Stored(s).state = s.state
         /\ Public(Stored(s)) = Public(s)
<1>1. /\ s \in Session /\ s.queue \in Queues /\ s.index \in DOMAIN s.queue
      /\ s.state = "ended" <=> s.reason # NoReason
  BY Zenon DEF WellFormed
<1>2. s.state \in Active \cup {"ended"} /\ "ended" \notin Active
  BY <1>1 DEF Session, Active
<1>3. CASE s.state = "ended"
  <2>1. Stored(s) = Public(s)
    BY <1>3, Zenon DEF Stored
  <2>2. s.reason \in EndedReason /\ s.index \in Nat /\ s.version \in Nat
    BY <1>1, <1>3 DEF Session
  <2>3. /\ Public(s) \in EndedRow /\ Public(s).state = s.state /\ Public(s).queue = s.queue
        /\ Public(s).index = s.index
    BY <1>1, <1>3, <2>2 DEF Public, EndedRow
  <2>4. Public(Public(s)) = Public(s)
    BY DEF Public
  <2> QED BY <1>1, <1>2, <1>3, <2>1, <2>3, <2>4, Zenon DEF RowOK
<1>4. CASE s.state # "ended"
  <2>1. Stored(s) = s /\ s.state \in Active
    BY <1>2, <1>4, Zenon DEF Stored
  <2> QED BY <1>4, <2>1, Zenon DEF RowOK
<1> QED
  BY <1>3, <1>4

LEMMA RowsGrow ==
  ASSUME RowsInv, heard \in Hearing, heard' \in Hearing, Grown(heard, heard'),
         sessions' = sessions
  PROVE  RowsInv'
<1>1. \A id \in DOMAIN sessions : RowOK(sessions[id], heard')
  BY RowGrows DEF RowsInv
<1> QED
  BY <1>1, Zenon DEF RowsInv, Live

\* A live row that is written again or ends, the others as they were.
LEMMA RowsWritten ==
  ASSUME RowsInv, heard \in Hearing, heard' \in Hearing, Grown(heard, heard'),
         NEW id \in SessionId, Live(id), NEW row, RowOK(row, heard'),
         sessions' = [sessions EXCEPT ![id] = row]
  PROVE  RowsInv'
<1>1. id \in DOMAIN sessions /\ DOMAIN sessions' = DOMAIN sessions /\ sessions'[id] = row
      /\ \A k \in DOMAIN sessions : k # id => sessions'[k] = sessions[k]
  BY DEF Live
<1>2. \A k \in DOMAIN sessions : RowOK(sessions'[k], heard')
  BY <1>1, RowGrows DEF RowsInv
<1>3. ASSUME NEW k \in SessionId, Live(k)' PROVE Live(k)
  BY <1>1, <1>3, Zenon DEF Live
<1> QED
  BY <1>1, <1>2, <1>3, Zenon DEF RowsInv

LEMMA SaveKeeps ==
  ASSUME RowsInv, heard \in Hearing, heard' \in Hearing, Grown(heard, heard'),
         NEW id \in SessionId, Live(id), NEW s, WellFormed(s),
         s.state # "ended" => OnSong(s, heard'), NEW reloads, Save(id, s, reloads)
  PROVE  RowsInv' /\ job' = NoJob
<1>1. CASE sessions' = [sessions EXCEPT ![id] = Stored(s)]
  <2>1. RowOK(Stored(s), heard')
    BY StoredIsOK
  <2> QED BY <1>1, <2>1, RowsWritten, Zenon DEF Save
<1>2. CASE sessions' = sessions
  BY <1>2, RowsGrow, Zenon DEF Save
<1> QED
  BY <1>1, <1>2, Zenon DEF Save

LEMMA WorkIsSound ==
  ASSUME NEW then, NEW id, NEW d, NEW h
  PROVE  /\ Work(then, id, d).then = then /\ Work(then, id, d).id = id
         /\ Work(then, id, d).s = d.s /\ Work(then, id, d).todo = d.todo
         /\ Sound(Work(then, id, d), h) <=> Sound(d, h)
<1>1. /\ Work(then, id, d).then = then /\ Work(then, id, d).id = id
      /\ Work(then, id, d).s = d.s /\ Work(then, id, d).todo = d.todo
  BY DEF Work
<1> QED
  BY <1>1, Zenon DEF Sound

LEMMA ProceedKeeps ==
  ASSUME RowsInv, heard \in Hearing, heard' \in Hearing, Grown(heard, heard'),
         NEW id \in SessionId, Live(id), NEW then \in {"narrate", "save"},
         NEW d, Sound(d, heard'), Onward(sessions[id], d.s),
         NEW reloads, Proceed(then, id, d, reloads)
  PROVE  RowsInv' /\ JobInv'
<1>1. WellFormed(d.s) /\ d.todo \in Todo /\ d.s \in Session
  BY Zenon DEF Sound, WellFormed
<1>2. CASE job' = Work(then, id, d) /\ sessions' = sessions
  <2>1. RowsInv'
    BY <1>2, RowsGrow
  <2>2. job' \in [then : {"narrate", "save", "ahead"}, id : SessionId, s : Session, todo : Todo]
    BY <1>1, <1>2 DEF Work
  <2>3. /\ job'.id = id /\ job'.s = d.s /\ Sound(job', heard') /\ job'.then # "ahead"
    BY <1>2, WorkIsSound
  <2>4. Live(job.id)'
    BY <1>2, <2>3, Zenon DEF Live
  <2>5. Onward(sessions'[job'.id], job'.s)
    BY <1>2, <2>3, Zenon
  <2> QED BY <2>1, <2>2, <2>3, <2>4, <2>5, Zenon DEF JobInv
<1>3. CASE d.todo = <<>> /\ Save(id, d.s, reloads)
  <2>1. d.s.state # "ended" => OnSong(d.s, heard')
    BY <1>3, ShortTodos DEF Sound
  <2>2. RowsInv' /\ job' = NoJob
    BY <1>1, <1>3, <2>1, SaveKeeps
  <2> QED BY <2>2, Zenon DEF JobInv
<1> QED
  BY <1>2, <1>3, Zenon DEF Proceed

-----------------------------------------------------------------------------
(* The speaker.                                                             *)

LEMMA KeyFields == \A k \in Key : k.video \in Video /\ k.narrated \in BOOLEAN /\ k # NoKey /\ k # OtherKey
BY CastDomainAssumption DEF Key

LEMMA HeardToGrows ==
  ASSUME heard \in Hearing, NEW v \in Video, NEW pos \in 0..Duration
  PROVE  /\ HeardTo(v, pos) \in Hearing /\ Grown(heard, HeardTo(v, pos))
         /\ pos <= HeardTo(v, pos)[v]
<1>1. \A u \in Video : heard[u] \in 0..Duration
  BY DEF Hearing
<1>2. HeardTo(v, pos) \in Hearing
  BY <1>1 DEF Hearing, HeardTo
<1>3. \A u \in Video : HeardTo(v, pos)[u] = IF u = v THEN (IF pos > heard[v] THEN pos ELSE heard[v]) ELSE heard[u]
  BY DEF Hearing, HeardTo
<1> QED
  BY <1>1, <1>2, <1>3, CastDomainAssumption DEF Grown

LEMMA GrownIsReflexive == ASSUME NEW h \in Hearing PROVE Grown(h, h)
BY CastDomainAssumption DEF Grown, Hearing

LEMMA GrownIsTransitive ==
  ASSUME NEW h \in Hearing, NEW k \in Hearing, NEW l \in Hearing, Grown(h, k), Grown(k, l)
  PROVE  Grown(h, l)
<1>1. \A v \in Video : h[v] \in Int /\ k[v] \in Int /\ l[v] \in Int
  BY CastDomainAssumption DEF Hearing
<1> QED
  BY <1>1 DEF Grown

LEMMA SpeakerGrows ==
  ASSUME NEW sp, NEW h \in Hearing, NEW k \in Hearing, Grown(h, k), SpeakerOK(sp, h)
  PROVE  SpeakerOK(sp, k)
<1>1. \A v \in Video : h[v] \in Int /\ k[v] \in Int /\ h[v] <= k[v]
  BY CastDomainAssumption DEF Hearing, Grown
<1>2. sp.pos \in Int /\ sp.from \in Int /\ Duration \in Int
  BY CastDomainAssumption DEF SpeakerOK, SpeakerState
<1>3. sp.key \in Key /\ sp.state # "idle" => sp.pos <= k[sp.key.video]
  BY <1>1, <1>2, KeyFields DEF SpeakerOK
<1>4. sp.next \in Key => sp.from <= k[sp.next.video]
  BY <1>1, <1>2, KeyFields DEF SpeakerOK
<1>5. sp.reason = "FINISHED" => sp.key \in Key /\ k[sp.key.video] >= Duration
  BY <1>1, <1>2, KeyFields DEF SpeakerOK
<1> QED
  BY <1>3, <1>4, <1>5, Zenon DEF SpeakerOK

LEMMA AnswerIsAnswered ==
  ASSUME SpeakerInv, NEW duration \in {0, Duration} PROVE Answered(Answer(duration), heard)
<1> DEFINE st == Answer(duration)
<1>1. /\ st.key = speaker.key /\ st.state = speaker.state /\ st.pos = speaker.pos
      /\ st.duration \in {0, Duration}
      /\ st.reason = "FINISHED" => speaker.reason = "FINISHED"
  <2>1. NoReason # "FINISHED"
    BY Zenon DEF NoReason
  <2> QED BY <2>1 DEF Answer
<1> HIDE DEF st
<1>2. /\ speaker.key \in Loadable \cup {OtherKey}
      /\ speaker.state \in {"idle", "loading", "playing", "paused"}
      /\ speaker.pos \in 0..Duration
  BY DEF SpeakerInv, SpeakerOK, SpeakerState
<1> QED
  BY <1>1, <1>2, Zenon DEF SpeakerInv, SpeakerOK, Answered, st

LEMMA IdleIsOK ==
  ASSUME SpeakerInv, NEW reason \in {"FINISHED", "ERROR", "CANCELLED"},
         reason = "FINISHED" => speaker.key \in Key /\ heard[speaker.key.video] >= Duration
  PROVE  SpeakerOK(Idle(reason), heard)
<1> DEFINE sp == Idle(reason)
<1>0. NoReason # "FINISHED" /\ NoKey \notin Key
  <2>1. NoReason # "FINISHED"
    BY Zenon DEF NoReason
  <2> QED BY <2>1, KeyFields
<1>1. speaker \in SpeakerState
  BY DEF SpeakerInv, SpeakerOK
<1>2. /\ sp \in SpeakerState /\ sp.state = "idle" /\ sp.next = speaker.next /\ sp.from = speaker.from
      /\ sp.reason \in {reason, NoReason}
      /\ sp.key = IF speaker.kind = "google" THEN speaker.key ELSE NoKey
      /\ sp.reason = IF speaker.kind = "google" THEN reason ELSE NoReason
  BY <1>1 DEF SpeakerState, Idle, Why, Loadable
<1> HIDE DEF sp
<1>3. sp.next \in Key => sp.from <= heard[sp.next.video]
  BY <1>2, Zenon DEF SpeakerInv, SpeakerOK
<1>4. sp.reason = "FINISHED" => sp.key \in Key /\ heard[sp.key.video] >= Duration
  BY <1>0, <1>2, Zenon
<1> QED
  BY <1>2, <1>3, <1>4 DEF SpeakerOK, sp

LEMMA StoppedIsOK == ASSUME SpeakerInv PROVE SpeakerOK(Stopped, heard)
<1> DEFINE sp == Idle("CANCELLED")
<1>1. SpeakerOK(sp, heard)
  BY IdleIsOK
<1> HIDE DEF sp
<1>2. Stopped = [sp EXCEPT !.next = NoKey, !.from = 0]
  BY Zenon DEF Stopped, sp
<1>3. NoKey \notin Key /\ 0 \in 0..Duration
  BY KeyFields, CastDomainAssumption
<1>4. /\ Stopped \in SpeakerState /\ Stopped.next = NoKey /\ Stopped.state = sp.state
      /\ Stopped.key = sp.key /\ Stopped.reason = sp.reason /\ Stopped.pos = sp.pos
  BY <1>1, <1>2, <1>3 DEF SpeakerOK, SpeakerState, Loadable
<1> HIDE DEF Stopped
<1> QED
  BY <1>1, <1>3, <1>4, Zenon DEF SpeakerOK

LEMMA MayStopKeeps ==
  ASSUME SpeakerInv, MayStop, heard' = heard PROVE SpeakerInv'
<1>1. CASE speaker' = Stopped
  BY <1>1, StoppedIsOK, Zenon DEF SpeakerInv
<1>2. CASE speaker' = speaker
  BY <1>2, Zenon DEF SpeakerInv
<1> QED
  BY <1>1, <1>2, Zenon DEF MayStop

LEMMA HandedIsOK ==
  ASSUME NEW h \in Hearing, SpeakerOK(speaker, h),
         NEW key \in Key, NEW from \in 0..Duration, from <= h[key.video]
  PROVE  SpeakerOK(Handed(key, from), h)
<1> DEFINE sp == Handed(key, from)
<1>1. /\ sp \in SpeakerState /\ sp.next = key /\ sp.from = from /\ sp.state = speaker.state
      /\ sp.key = speaker.key /\ sp.reason = speaker.reason /\ sp.pos = speaker.pos
  BY DEF Handed, SpeakerOK, SpeakerState, Loadable
<1> HIDE DEF sp
<1> QED
  BY <1>1, Zenon DEF SpeakerOK, sp

\* Whatever the speaker and the house do, what was heard is only added to.
LEMMA SpeakerMovesKeeps ==
  ASSUME SpeakerInv, heard \in Hearing, SpeakerMoves
  PROVE  SpeakerInv' /\ heard' \in Hearing /\ Grown(heard, heard')
<1>0. /\ speaker \in SpeakerState /\ NoReason # "FINISHED"
      /\ NoKey \notin Key /\ OtherKey \notin Key /\ NoKey # OtherKey
      /\ 0 \in 0..Duration /\ Duration \in Nat \ {0}
  <2>1. NoReason # "FINISHED"
    BY Zenon DEF NoReason
  <2>2. speaker \in SpeakerState
    BY Zenon DEF SpeakerInv, SpeakerOK
  <2> QED BY <2>1, <2>2, KeyFields, CastDomainAssumption
<1>1. Grown(heard, heard)
  BY GrownIsReflexive
<1> DEFINE Fine == SpeakerInv' /\ heard' \in Hearing /\ Grown(heard, heard')
<1>2. ASSUME SpeakerOK(speaker', heard), heard' = heard PROVE Fine
  BY <1>1, <1>2, Zenon DEF SpeakerInv
<1>3. ASSUME Shows PROVE Fine
  <2>1. PICK state \in {"loading", "playing"} :
          speaker' = [speaker EXCEPT !.key = speaker.next, !.pos = speaker.from, !.state = state,
                                     !.reason = NoReason, !.next = NoKey, !.from = 0]
    BY <1>3 DEF Shows
  <2>2. speaker.next \in Key /\ speaker.from \in 0..Duration /\ heard' = heard
    BY <1>0, <1>3 DEF Shows, SpeakerState, Loadable
  <2>3. /\ speaker' \in SpeakerState /\ speaker'.key = speaker.next /\ speaker'.pos = speaker.from
        /\ speaker'.reason = NoReason /\ speaker'.next = NoKey
    BY <1>0, <2>1, <2>2 DEF SpeakerState, Loadable
  <2>4. speaker.from <= heard[speaker.next.video]
    BY <2>2, Zenon DEF SpeakerInv, SpeakerOK
  <2>5. SpeakerOK(speaker', heard)
    BY <1>0, <2>2, <2>3, <2>4, Zenon DEF SpeakerOK
  <2> QED BY <1>2, <2>2, <2>5
<1>4. ASSUME NEW state \in {"playing", "paused"}, speaker.state # "idle",
             speaker' = [speaker EXCEPT !.state = state], heard' = heard
      PROVE  Fine
  <2>1. /\ speaker' \in SpeakerState /\ speaker'.key = speaker.key /\ speaker'.pos = speaker.pos
        /\ speaker'.reason = speaker.reason /\ speaker'.next = speaker.next /\ speaker'.from = speaker.from
    BY <1>0, <1>4 DEF SpeakerState
  <2>2. SpeakerOK(speaker', heard)
    BY <1>4, <2>1, Zenon DEF SpeakerInv, SpeakerOK
  <2> QED BY <1>2, <1>4, <2>2
<1>5. ASSUME speaker.key \in Key, speaker.state = "playing", speaker.pos < Duration,
             speaker' = [speaker EXCEPT !.pos = speaker.pos + 1],
             heard' = HeardTo(speaker.key.video, speaker.pos + 1)
      PROVE  Fine
  <2> DEFINE pos == speaker.pos + 1
             v == speaker.key.video
  <2>1. pos \in 0..Duration /\ v \in Video
    <3>1. speaker.pos \in 0..Duration
      BY <1>0 DEF SpeakerState
    <3> QED BY <1>0, <1>5, <3>1, KeyFields
  <2>2. speaker' = [speaker EXCEPT !.pos = pos] /\ heard' = HeardTo(v, pos)
    BY <1>5
  <2> HIDE DEF pos, v
  <2>3. heard' \in Hearing /\ Grown(heard, heard') /\ pos <= heard'[v]
    BY <2>1, <2>2, HeardToGrows
  <2>4. SpeakerOK(speaker, heard')
    BY <2>3, SpeakerGrows DEF SpeakerInv
  <2>5. /\ speaker' \in SpeakerState /\ speaker'.key = speaker.key /\ speaker'.pos = pos
        /\ speaker'.state = speaker.state
        /\ speaker'.reason = speaker.reason /\ speaker'.next = speaker.next /\ speaker'.from = speaker.from
    BY <1>0, <2>1, <2>2 DEF SpeakerState
  <2>6. SpeakerOK(speaker', heard')
    BY <2>3, <2>4, <2>5, Zenon DEF SpeakerOK, v
  <2> QED BY <2>3, <2>6, Zenon DEF SpeakerInv
<1>6. ASSUME NEW reason \in {"ERROR", "CANCELLED"}, speaker' = Idle(reason), heard' = heard PROVE Fine
  <2>1. reason # "FINISHED"
    OBVIOUS
  <2>2. SpeakerOK(speaker', heard)
    BY <1>6, <2>1, IdleIsOK
  <2> QED BY <1>2, <1>6, <2>2
<1>7. ASSUME PlaysOn PROVE Fine
  <2>1. CASE speaker.state = "loading" /\ speaker' = [speaker EXCEPT !.state = "playing"] /\ heard' = heard
    BY <1>4, <2>1
  <2>2. CASE /\ speaker.state = "playing" /\ speaker.pos < Duration
             /\ speaker' = [speaker EXCEPT !.pos = @ + 1]
             /\ heard' = HeardTo(speaker.key.video, speaker.pos + 1)
    BY <1>5, <1>7, <2>2, Zenon DEF PlaysOn
  <2>3. CASE speaker.state = "playing" /\ speaker.pos = Duration /\ speaker' = Idle("FINISHED") /\ heard' = heard
    <3>1. speaker.key \in Key /\ speaker.state # "idle"
      BY <1>7, <2>3 DEF PlaysOn
    <3>2. Duration <= heard[speaker.key.video]
      BY <2>3, <3>1, Zenon DEF SpeakerInv, SpeakerOK
    <3>3. heard[speaker.key.video] >= Duration
      <4>1. heard[speaker.key.video] \in Int
        BY <3>1, KeyFields DEF Hearing
      <4> QED BY <1>0, <3>2, <4>1
    <3>4. SpeakerOK(speaker', heard)
      BY <2>3, <3>1, <3>3, IdleIsOK
    <3> QED BY <1>2, <2>3, <3>4
  <2> QED BY <1>7, <2>1, <2>2, <2>3 DEF PlaysOn
<1>8. ASSUME GivesUp PROVE Fine
  BY <1>6, <1>8 DEF GivesUp
<1>9. ASSUME OwnButtons PROVE Fine
  BY <1>4, <1>6, <1>9 DEF OwnButtons
<1>10. ASSUME OtherApp PROVE Fine
  <2>1. heard' = heard
    BY <1>10 DEF OtherApp
  <2>2. CASE speaker' = [speaker EXCEPT !.key = OtherKey, !.state = "playing", !.pos = 0,
                                        !.reason = NoReason, !.next = NoKey, !.from = 0]
    <3>1. /\ speaker' \in SpeakerState /\ speaker'.key = OtherKey /\ speaker'.next = NoKey
          /\ speaker'.reason = NoReason
      BY <1>0, <2>2 DEF SpeakerState, Loadable
    <3>2. SpeakerOK(speaker', heard)
      BY <1>0, <3>1, Zenon DEF SpeakerOK
    <3> QED BY <1>2, <2>1, <3>2
  <2>3. CASE speaker.key = OtherKey /\ speaker' = [speaker EXCEPT !.key = NoKey, !.state = "idle"]
    <3>1. /\ speaker' \in SpeakerState /\ speaker'.key = NoKey /\ speaker'.state = "idle"
          /\ speaker'.reason = speaker.reason /\ speaker'.next = speaker.next /\ speaker'.from = speaker.from
      BY <1>0, <2>3 DEF SpeakerState, Loadable
    <3>2. SpeakerOK(speaker', heard)
      BY <1>0, <2>3, <3>1, Zenon DEF SpeakerInv, SpeakerOK
    <3> QED BY <1>2, <2>1, <3>2
  <2> QED BY <1>10, <2>2, <2>3 DEF OtherApp
<1>11. ASSUME Network PROVE Fine
  <2>1. heard' = heard /\ speaker' = [speaker EXCEPT !.online = ~speaker.online]
    BY <1>11 DEF Network
  <2>2. /\ speaker' \in SpeakerState /\ speaker'.key = speaker.key /\ speaker'.pos = speaker.pos
        /\ speaker'.state = speaker.state
        /\ speaker'.reason = speaker.reason /\ speaker'.next = speaker.next /\ speaker'.from = speaker.from
    BY <1>0, <2>1 DEF SpeakerState
  <2>3. SpeakerOK(speaker', heard)
    BY <2>2, Zenon DEF SpeakerInv, SpeakerOK
  <2> QED BY <1>2, <2>1, <2>3
<1> HIDE DEF Fine
<1>12. Fine
  BY <1>3, <1>7, <1>8, <1>9, <1>10, <1>11, Zenon DEF SpeakerMoves
<1> QED
  BY <1>12 DEF Fine

LEMMA JobGrows ==
  ASSUME JobInv, heard \in Hearing, heard' \in Hearing, Grown(heard, heard'),
         job' = job, sessions' = sessions
  PROVE  JobInv'
<1>1. Sound(job, heard) => Sound(job, heard')
  BY SoundGrows
<1> QED
  BY <1>1, Zenon DEF JobInv, Live

-----------------------------------------------------------------------------
(* The rows of the table as the household sees them.                        *)

Rows == [id \in DOMAIN sessions |-> Public(sessions[id])]

Steps == Sessions!CastSessionsNext \/ Rows' = Rows

LEMMA PublicFields ==
  ASSUME NEW s
  PROVE  /\ Public(s).state = s.state /\ Public(s).reason = s.reason
         /\ Public(s).queue = s.queue /\ Public(s).index = s.index /\ Public(s).version = s.version
BY DEF Public

LEMMA PublicIsOnward ==
  ASSUME NEW s, NEW t, Onward(s, t) PROVE Onward(Public(s), Public(t))
BY PublicFields, Zenon DEF Onward, Sessions!Moved, Sessions!Stays

\* A row that is written leaves the others as they were.
LEMMA RowsExcept ==
  ASSUME NEW id, id \in DOMAIN sessions, NEW row, sessions' = [sessions EXCEPT ![id] = row]
  PROVE  Rows' = [Rows EXCEPT ![id] = Public(row)]
<1>1. DOMAIN sessions' = DOMAIN sessions
  OBVIOUS
<1>2. \A k \in DOMAIN sessions : Public(sessions'[k]) = IF k = id THEN Public(row) ELSE Public(sessions[k])
  OBVIOUS
<1> HIDE DEF Public
<1>3. Rows' = [k \in DOMAIN sessions |-> IF k = id THEN Public(row) ELSE Public(sessions[k])]
  BY <1>1, <1>2 DEF Rows
<1>4. [Rows EXCEPT ![id] = Public(row)] = [k \in DOMAIN sessions |-> IF k = id THEN Public(row) ELSE Public(sessions[k])]
  BY DEF Rows
<1> QED
  BY <1>3, <1>4

LEMMA ActiveIsPlaying == Active = Sessions!Playing /\ "ended" \notin Active
BY DEF Active, Sessions!Playing

LEMMA SaveSteps ==
  ASSUME NEW id \in SessionId, Live(id), NEW s, WellFormed(s), Onward(sessions[id], s),
         NEW reloads, Save(id, s, reloads)
  PROVE  Steps
<1>0. id \in DOMAIN sessions /\ sessions[id].state \in Active
  BY Zenon DEF Live
<1>1. CASE sessions' = [sessions EXCEPT ![id] = Stored(s)]
  <2>1. Public(Stored(s)) = Public(s)
    <3>1. CASE s.state = "ended"
      BY <3>1 DEF Stored, Public
    <3>2. CASE s.state # "ended"
      BY <3>2, Zenon DEF Stored
    <3> QED BY <3>1, <3>2
  <2>2. Rows' = [Rows EXCEPT ![id] = Public(s)]
    BY <1>0, <1>1, <2>1, RowsExcept
  <2>3. id \in DOMAIN Rows /\ id \in DOMAIN Rows' /\ Rows[id] = Public(sessions[id]) /\ Rows'[id] = Public(s)
    <3>1. id \in DOMAIN Rows /\ Rows[id] = Public(sessions[id])
      BY <1>0 DEF Rows
    <3> QED BY <2>2, <3>1
  <2>4. Onward(Rows[id], Rows'[id])
    BY <2>3, PublicIsOnward
  <2>5. Rows[id].state \in Sessions!Playing
    BY <1>0, <2>3, PublicFields, ActiveIsPlaying
  <2>6. /\ Rows'[id].state = s.state /\ Rows'[id].reason = s.reason
    BY <2>3, PublicFields
  <2>7. /\ s.state \in Active \/ s.state = "ended"
        /\ s.state = "ended" <=> s.reason # ""
    <3>1. s \in Session /\ (s.state = "ended" <=> s.reason # "")
      BY Zenon DEF WellFormed, NoReason
    <3>2. s.state \in Active \/ s.state = "ended"
      BY WellFormedFields
    <3> QED BY <3>1, <3>2, Zenon
  <2> QED
    BY <1>0, <2>2, <2>3, <2>4, <2>5, <2>6, <2>7, ActiveIsPlaying, Zenon
       DEF Steps, Sessions!CastSessionsNext, Sessions!Go, Sessions!Finish, Sessions!Live, Onward, Rows
<1>2. CASE sessions' = sessions
  BY <1>2, Zenon DEF Steps, Rows
<1> QED
  BY <1>1, <1>2, Zenon DEF Save

LEMMA ProceedSteps ==
  ASSUME NEW id \in SessionId, Live(id), NEW then \in {"narrate", "save"},
         NEW d, WellFormed(d.s), Onward(sessions[id], d.s),
         NEW reloads, Proceed(then, id, d, reloads)
  PROVE  Steps
<1>1. CASE sessions' = sessions
  BY <1>1, Zenon DEF Steps, Rows
<1>2. CASE Save(id, d.s, reloads)
  BY <1>2, SaveSteps
<1> QED
  BY <1>1, <1>2, Zenon DEF Proceed

-----------------------------------------------------------------------------
(* The steps.                                                               *)

LEMMA LiveFields ==
  ASSUME RowsInv, NEW id, Live(id)
  PROVE  /\ id \in SessionId /\ WellFormed(sessions[id]) /\ sessions[id].state # "ended"
         /\ OnSong(sessions[id], heard)
<1>1. id \in DOMAIN sessions /\ sessions[id].state \in Active /\ id \in SessionId
  BY DEF Live, RowsInv
<1>2. sessions[id].state # "ended"
  BY <1>1, ActiveIsPlaying
<1> QED
  BY <1>1, <1>2, Zenon DEF RowsInv, RowOK

LEMMA HeardStays ==
  ASSUME MemoryInv, heard' = heard
  PROVE  heard \in Hearing /\ heard' \in Hearing /\ Grown(heard, heard')
BY GrownIsReflexive, Zenon DEF MemoryInv

\* What goes on with a decision about the row of a live session.
LEMMA DecisionKeeps ==
  ASSUME CastInv, NEW id, Live(id), NEW then \in {"narrate", "save"}, NEW d,
         Sound(d, heard'), Onward(sessions[id], d.s), heard' \in Hearing, Grown(heard, heard'),
         NEW reloads, Proceed(then, id, d, reloads)
  PROVE  RowsInv' /\ JobInv' /\ Steps
<1>1. id \in SessionId /\ RowsInv /\ heard \in Hearing
  BY LiveFields, Zenon DEF CastInv, MemoryInv
<1>2. WellFormed(d.s)
  BY Zenon DEF Sound
<1> QED
  BY <1>1, <1>2, ProceedKeeps, ProceedSteps, Zenon

LEMMA SpeakerMovesStep == ASSUME CastInv, SpeakerMoves PROVE CastInv' /\ Steps
<1>1. SpeakerInv' /\ heard' \in Hearing /\ Grown(heard, heard') /\ heard \in Hearing
  BY SpeakerMovesKeeps, Zenon DEF CastInv, MemoryInv
<1>2. sessions' = sessions /\ job' = job /\ ready' = ready /\ spoken' = spoken
  BY DEF SpeakerMoves, memory
<1>3. RowsInv' /\ JobInv'
  BY <1>1, <1>2, RowsGrow, JobGrows, Zenon DEF CastInv
<1> QED
  BY <1>1, <1>2, <1>3, Zenon DEF CastInv, MemoryInv, Steps, Rows

LEMMA FollowSessionDecides ==
  ASSUME CastInv, NEW id \in SessionId, FollowSession(id)
  PROVE  \E d : /\ Decided(sessions[id], d, heard) /\ Moves(sessions[id], d)
                /\ Proceed("narrate", id, d,
                           IF d.s.version # sessions[id].version THEN 0 ELSE flips)
<1> DEFINE s == sessions[id]
<1>1. WellFormed(s) /\ s.state # "ended" /\ OnSong(s, heard) /\ heard \in Hearing
  BY LiveFields DEF FollowSession, CastInv, MemoryInv
<1>2. PICK due \in BOOLEAN, duration \in {0, Duration} :
        LET d == IF speaker.online THEN Reconcile(s, Answer(duration), due) ELSE Unanswered(s)
        IN  Proceed("narrate", id, d, IF d.s.version # s.version THEN 0 ELSE flips)
  BY Zenon DEF FollowSession
<1> DEFINE st == Answer(duration)
           d == IF speaker.online THEN Reconcile(s, st, due) ELSE Unanswered(s)
<1>3. Decided(s, d, heard) /\ Moves(s, d)
  <2>1. Answered(st, heard)
    BY AnswerIsAnswered DEF CastInv
  <2>2. Decided(s, Reconcile(s, st, due), heard) /\ Moves(s, Reconcile(s, st, due))
    BY <1>1, <2>1, ReconcileDecides
  <2>3. Decided(s, Unanswered(s), heard) /\ Moves(s, Unanswered(s))
    BY <1>1, UnansweredDecides
  <2> QED BY <2>2, <2>3, Zenon
<1> QED
  BY <1>2, <1>3, Zenon

LEMMA FollowSessionStep ==
  ASSUME CastInv, NEW id \in SessionId, FollowSession(id) PROVE CastInv' /\ Steps
<1> DEFINE s == sessions[id]
<1>1. Live(id) /\ speaker' = speaker /\ ready' = ready /\ spoken' = spoken /\ heard' = heard
  BY DEF FollowSession
<1>2. heard \in Hearing /\ heard' \in Hearing /\ Grown(heard, heard')
  BY <1>1, HeardStays DEF CastInv
<1>3. PICK d : /\ Decided(s, d, heard)
               /\ Proceed("narrate", id, d, IF d.s.version # s.version THEN 0 ELSE flips)
  BY FollowSessionDecides
<1>4. RowsInv' /\ JobInv' /\ Steps
  <2>1. Sound(d, heard') /\ Onward(sessions[id], d.s)
    BY <1>1, <1>3, Zenon DEF Decided
  <2> QED BY <1>1, <1>2, <1>3, <2>1, DecisionKeeps
<1> QED
  BY <1>1, <1>2, <1>4, Zenon DEF CastInv, SpeakerInv, MemoryInv

LEMMA AsksKeeps ==
  ASSUME MemoryInv, NEW s, NEW v \in Video, NEW lang, NEW word, Asks(s, v, lang, word)
  PROVE  ready' \subseteq Video /\ spoken' \subseteq Video
BY CastEngineAssumption DEF MemoryInv, Asks

LEMMA LoadedFields ==
  ASSUME NEW s, WellFormed(s), NEW key \in Key
  PROVE  LET t == Loaded(s, key)
         IN  /\ WellFormed(t) /\ t.loaded = key /\ Current(t) = Current(s)
             /\ t.state = s.state /\ t.queue = s.queue /\ t.index = s.index
             /\ t.version = s.version /\ t.pos = s.pos
             /\ t.narration = s.narration /\ t.forced = s.forced
<1> DEFINE t == Loaded(s, key)
<1>1. s \in Session
  BY DEF WellFormed
<1>2. /\ t \in Session /\ t.loaded = key /\ t.reason = s.reason
      /\ t.state = s.state /\ t.queue = s.queue /\ t.index = s.index
      /\ t.version = s.version /\ t.pos = s.pos
      /\ t.narration = s.narration /\ t.forced = s.forced
  BY <1>1 DEF Session, Loaded, Loadable
<1> HIDE DEF t
<1>3. WellFormed(t) /\ Current(t) = Current(s)
  BY <1>2, Zenon DEF WellFormed, Current
<1> QED
  BY <1>2, <1>3 DEF t

\* A job is about a live session, or starts one.
LEMMA JobFields ==
  ASSUME CastInv, job # NoJob
  PROVE  /\ Sound(job, heard) /\ WellFormed(job.s) /\ job.todo \in Todo /\ job.id \in SessionId
         /\ Decide(job.s, job.todo).s = job.s /\ Decide(job.s, job.todo).todo = job.todo
         /\ Sound(Decide(job.s, job.todo), heard)
         /\ \/ /\ job.then = "create" /\ job.todo \in {<<>>, <<LoadIt>>}
               /\ job \in [then : {"create"}, id : SessionId, s : Session, todo : {<<>>, <<LoadIt>>}]
               /\ job.id \notin DOMAIN sessions
               /\ job.s.state = "loading" /\ job.s.version = 1
            \/ /\ job \in [then : {"narrate", "save", "ahead"}, id : SessionId, s : Session, todo : Todo]
               /\ job.then \in {"narrate", "save"} \/ (job.then = "ahead" /\ job.todo = <<>>)
               /\ job.then # "create"
               /\ Live(job.id) /\ Onward(sessions[job.id], job.s)
<1>1. Decide(job.s, job.todo).s = job.s /\ Decide(job.s, job.todo).todo = job.todo
  BY DEF Decide
<1>2. Sound(job, heard) /\ job.id \in SessionId
  BY DEF CastInv, JobInv
<1>3. WellFormed(job.s) /\ job.todo \in Todo
  BY <1>2, Zenon DEF Sound
<1>4. Sound(Decide(job.s, job.todo), heard)
  BY <1>1, <1>2, Zenon DEF Sound
<1> QED
  BY <1>1, <1>2, <1>3, <1>4 DEF CastInv, JobInv

\* One call less to make.
LEMMA RestKeeps ==
  ASSUME CastInv, job # NoJob, job.todo # <<>>, Head(job.todo).do # "load",
         heard' = heard, NEW reloads, Proceed(job.then, job.id, Rest(job.s), reloads)
  PROVE  RowsInv' /\ JobInv' /\ Steps
<1>1. heard \in Hearing /\ heard' \in Hearing /\ Grown(heard, heard') /\ RowsInv
  BY HeardStays DEF CastInv
<1>2. job.then \in {"narrate", "save"} /\ job.id \in SessionId /\ Live(job.id)
      /\ Onward(sessions[job.id], job.s) /\ Sound(Decide(job.s, job.todo), heard)
  BY JobFields, ShortTodos
<1> DEFINE d == Rest(job.s)
<1>3. d = Decide(job.s, Tail(job.todo)) /\ d.s = job.s
  BY DEF Rest, Decide
<1> HIDE DEF d
<1>4. Sound(d, heard) /\ WellFormed(d.s)
  BY <1>2, <1>3, RestIsSound, Zenon DEF Sound
<1>5. Sound(d, heard') /\ Onward(sessions[job.id], d.s) /\ Proceed(job.then, job.id, d, reloads)
  BY <1>2, <1>3, <1>4, Zenon DEF d
<1> QED
  BY <1>1, <1>2, <1>4, <1>5, ProceedKeeps, ProceedSteps

LEMMA StopSpeakerStep == ASSUME CastInv, StopSpeaker PROVE CastInv' /\ Steps
<1>1. job # NoJob /\ job.todo # <<>> /\ Head(job.todo).do # "load"
  BY DEF StopSpeaker, Doing
<1>2. heard' = heard /\ ready' = ready /\ spoken' = spoken /\ MayStop
      /\ Proceed(job.then, job.id, Rest(job.s), flips)
  BY DEF StopSpeaker
<1>3. SpeakerInv'
  BY <1>2, MayStopKeeps DEF CastInv
<1>4. RowsInv' /\ JobInv' /\ Steps
  BY <1>1, <1>2, RestKeeps
<1> QED
  BY <1>2, <1>3, <1>4, Zenon DEF CastInv, MemoryInv

LEMMA RecordStep == ASSUME CastInv, Record PROVE CastInv' /\ Steps
<1>1. job # NoJob /\ job.todo # <<>> /\ Head(job.todo).do # "load"
  BY DEF Record, Doing
<1>2. heard' = heard /\ ready' = ready /\ spoken' = spoken /\ speaker' = speaker
      /\ Proceed(job.then, job.id, Rest(job.s), flips)
  BY DEF Record
<1>3. RowsInv' /\ JobInv' /\ Steps
  BY <1>1, <1>2, RestKeeps
<1> QED
  BY <1>2, <1>3, Zenon DEF CastInv, SpeakerInv, MemoryInv

\* The load of a song refused by the speaker: there is nothing before the next.
LEMMA AfterTheLoad ==
  Tail(<<LoadIt>>) = <<>> /\ <<>> \o <<LoadIt>> = <<LoadIt>> /\ <<>> \o <<>> = <<>>
<1>1. <<LoadIt>> \in Seq({LoadIt}) /\ <<>> \in Seq({LoadIt})
  OBVIOUS
<1> QED
  BY <1>1, ShortTodos, ConcatEmptySeq

LEMMA LoadSongStep == ASSUME CastInv, LoadSong PROVE CastInv' /\ Steps
<1> DEFINE s == job.s
           v == Current(s)
<1>1. job # NoJob /\ job.todo # <<>> /\ Head(job.todo).do = "load"
  BY DEF LoadSong, Doing
<1>2. /\ Sound(job, heard) /\ WellFormed(s) /\ job.todo = <<LoadIt>> /\ job.id \in SessionId
      /\ s.state = "loading" /\ v \in Video /\ s.pos \in 0..Duration
  <2>1. Sound(job, heard) /\ WellFormed(s) /\ job.todo \in Todo /\ job.id \in SessionId
    BY <1>1, JobFields
  <2>2. job.todo = <<LoadIt>>
    BY <1>1, <2>1, TodoGoesOn
  <2>3. s.state = "loading"
    BY <2>1, <2>2, ShortTodos DEF Sound
  <2> QED BY <2>1, <2>2, <2>3, WellFormedFields
<1>3. Tail(job.todo) = <<>> /\ heard \in Hearing /\ RowsInv
  BY <1>2, AfterTheLoad DEF CastInv, MemoryInv
<1>4. PICK lang \in BOOLEAN, word \in Words :
        /\ Asks(s, v, lang, word)
        /\ LET key == [video    |-> v,
                       narrated |-> Covers(s, v, spoken') /\ Form(v, word) = "ready"]
               d   == SkipFailed(s)
           IN  \/ /\ speaker.online
                  /\ speaker' = Handed(key, s.pos) /\ handed' = key
                  /\ heard' = HeardTo(v, s.pos)
                  /\ Proceed(job.then, job.id, Rest(Loaded(s, key)), flips)
                  /\ unsaved' = (setbacks' # setbacks)
               \/ /\ job.then # "create"
                  /\ Proceed(job.then, job.id, Decide(d.s, Tail(job.todo) \o d.todo), 0)
                  /\ UNCHANGED <<speaker, heard, given>>
               \/ /\ job.then = "create" /\ job' = NoJob
                  /\ UNCHANGED <<sessions, speaker, ghosts, setbacks>>
  BY Zenon DEF LoadSong
<1>5. ready' \subseteq Video /\ spoken' \subseteq Video
  BY <1>2, <1>4, AsksKeeps DEF CastInv
<1> DEFINE key == [video |-> v, narrated |-> Covers(s, v, spoken') /\ Form(v, word) = "ready"]
           d   == SkipFailed(s)
<1>6. key \in Key /\ key.video = v
  BY <1>2 DEF Key
<1> HIDE DEF key
<1>7. CASE /\ speaker' = Handed(key, s.pos) /\ heard' = HeardTo(v, s.pos)
           /\ Proceed(job.then, job.id, Rest(Loaded(s, key)), flips)
  <2> DEFINE t == Loaded(s, key)
             r == Rest(t)
  <2>1. heard' \in Hearing /\ Grown(heard, heard') /\ s.pos <= heard'[v]
    BY <1>2, <1>3, <1>7, HeardToGrows
  <2>2. SpeakerInv'
    <3>1. SpeakerOK(speaker, heard')
      BY <1>3, <2>1, SpeakerGrows DEF CastInv, SpeakerInv
    <3>2. SpeakerOK(Handed(key, s.pos), heard')
      BY <1>2, <1>6, <2>1, <3>1, HandedIsOK
    <3> QED BY <1>7, <3>2, Zenon DEF SpeakerInv
  <2>3. /\ WellFormed(t) /\ t.loaded = key /\ Current(t) = v /\ t.state = "loading"
        /\ t.queue = s.queue /\ t.index = s.index /\ t.version = s.version /\ t.pos = s.pos
    BY <1>2, <1>6, LoadedFields
  <2>4. r = Decide(t, <<>>) /\ r.s = t /\ r.todo = <<>>
    BY <1>3 DEF Rest, Decide
  <2> HIDE DEF t
  <2>5. OnSong(t, heard')
    BY <1>6, <2>1, <2>3, Zenon DEF OnSong
  <2> HIDE DEF r
  <2>6. Sound(r, heard')
    BY <2>3, <2>4, <2>5, ShortTodos, Zenon DEF Sound
  <2>7. Proceed(job.then, job.id, r, flips)
    BY <1>7, Zenon DEF r, t
  <2>8. CASE job.then = "create"
    <3>1. /\ job \in [then : {"create"}, id : SessionId, s : Session, todo : {<<>>, <<LoadIt>>}]
          /\ job.id \notin DOMAIN sessions /\ s.version = 1
      BY <1>1, <2>8, JobFields
    <3>2. job' = Work("create", job.id, r) /\ sessions' = sessions
      BY <2>7, <2>8, Zenon DEF Proceed
    <3>3. t \in Session
      BY <2>3, Zenon DEF WellFormed
    <3>4. job' \in [then : {"create"}, id : SessionId, s : Session, todo : {<<>>, <<LoadIt>>}]
      BY <1>2, <2>4, <3>2, <3>3 DEF Work
    <3>5. job'.id = job.id /\ job'.s = t /\ Sound(job', heard')
      BY <2>4, <2>6, <3>2, WorkIsSound
    <3>6. JobInv'
      BY <2>3, <3>1, <3>2, <3>4, <3>5, Zenon DEF JobInv
    <3>7. RowsInv'
      BY <1>3, <2>1, <3>2, RowsGrow
    <3>8. Steps
      BY <3>2, Zenon DEF Steps, Rows
    <3> QED BY <1>5, <2>1, <2>2, <3>6, <3>7, <3>8, Zenon DEF CastInv, MemoryInv
  <2>9. CASE job.then # "create"
    <3>1. job.then \in {"narrate", "save"} /\ Live(job.id) /\ Onward(sessions[job.id], s)
      BY <1>1, <1>2, <2>9, JobFields
    <3>2. Onward(sessions[job.id], r.s)
      BY <2>3, <2>4, <3>1, Zenon DEF Onward, Sessions!Moved, Sessions!Stays
    <3>3. WellFormed(r.s)
      BY <2>3, <2>4
    <3>4. RowsInv' /\ JobInv' /\ Steps
      BY <1>2, <1>3, <2>1, <2>6, <2>7, <3>1, <3>2, <3>3, ProceedKeeps, ProceedSteps
    <3> QED BY <1>5, <2>1, <2>2, <3>4, Zenon DEF CastInv, MemoryInv
  <2> QED BY <2>8, <2>9
<1>8. CASE /\ job.then # "create" /\ speaker' = speaker /\ heard' = heard
           /\ Proceed(job.then, job.id, Decide(d.s, Tail(job.todo) \o d.todo), 0)
  <2>1. heard' \in Hearing /\ Grown(heard, heard')
    BY <1>8, HeardStays DEF CastInv
  <2>2. Decided(s, d, heard) /\ d.todo \in {<<LoadIt>>, <<>>}
    BY <1>2, <1>3, SkipFailedDecides
  <2>3. job.then \in {"narrate", "save"} /\ Live(job.id) /\ Onward(sessions[job.id], s)
    BY <1>1, <1>2, <1>8, JobFields
  <2> DEFINE r == Decide(d.s, Tail(job.todo) \o d.todo)
  <2> HIDE DEF d
  <2>4. r.s = d.s /\ r.todo = d.todo
    BY <1>3, <2>2, AfterTheLoad DEF Decide
  <2> HIDE DEF r
  <2>5. Sound(r, heard') /\ WellFormed(r.s)
    BY <1>8, <2>2, <2>4, Zenon DEF Decided, Sound
  <2>6. Onward(sessions[job.id], r.s)
    <3>1. /\ WellFormed(sessions[job.id]) /\ Onward(s, r.s)
      BY <1>3, <2>2, <2>3, <2>4, LiveFields DEF Decided
    <3>2. sessions[job.id].version \in Nat /\ s.version \in Nat /\ r.s.version \in Nat
      BY <1>2, <2>5, <3>1, WellFormedFields
    <3> QED BY <2>3, <3>1, <3>2, OnwardIsTransitive
  <2>7. Proceed(job.then, job.id, r, 0)
    BY <1>8, Zenon DEF r
  <2>8. RowsInv' /\ JobInv' /\ Steps
    BY <1>2, <1>3, <2>1, <2>3, <2>5, <2>6, <2>7, ProceedKeeps, ProceedSteps
  <2> QED BY <1>5, <1>8, <2>1, <2>8, Zenon DEF CastInv, SpeakerInv, MemoryInv
<1>9. CASE job' = NoJob /\ sessions' = sessions /\ speaker' = speaker /\ heard' = heard
  <2>1. heard' \in Hearing /\ Grown(heard, heard')
    BY <1>9, HeardStays DEF CastInv
  <2>2. RowsInv' /\ JobInv' /\ Steps
    BY <1>3, <1>9, <2>1, RowsGrow, Zenon DEF JobInv, Steps, Rows
  <2> QED BY <1>5, <1>9, <2>1, <2>2, Zenon DEF CastInv, SpeakerInv, MemoryInv
<1> QED
  BY <1>4, <1>7, <1>8, <1>9, Zenon DEF key, ghosts

\* The sound is switched, or nothing is to be done.
LEMMA SwitchCases ==
  ASSUME NEW s, NEW word
  PROVE  \/ s.state = "playing" /\ Switch(s, word) = Reload(s)
         \/ Switch(s, word) = Decide(s, <<>>)
BY Zenon DEF Switch

LEMMA SwitchAsksKeeps ==
  ASSUME MemoryInv, NEW s, WellFormed(s), NEW lang, NEW word, SwitchAsks(s, lang, word)
  PROVE  ready' \subseteq Video /\ spoken' \subseteq Video
<1>1. CASE Asks(s, Current(s), lang, word)
  BY <1>1, WellFormedFields, AsksKeeps
<1>2. CASE ready' = ready /\ spoken' = spoken
  BY <1>2 DEF MemoryInv
<1> QED
  BY <1>1, <1>2, Zenon DEF SwitchAsks

LEMMA FollowNarrationStep == ASSUME CastInv, FollowNarration PROVE CastInv' /\ Steps
<1> DEFINE s == job.s
<1>1. job # NoJob /\ job.todo = <<>> /\ job.then = "narrate" /\ speaker' = speaker /\ heard' = heard
  BY DEF FollowNarration, At
<1>2. /\ Sound(job, heard) /\ WellFormed(s) /\ job.id \in SessionId
      /\ job \in [then : {"narrate", "save", "ahead"}, id : SessionId, s : Session, todo : Todo]
      /\ Live(job.id) /\ Onward(sessions[job.id], s)
  BY <1>1, JobFields
<1>3. heard \in Hearing /\ heard' \in Hearing /\ Grown(heard, heard') /\ RowsInv
  BY <1>1, HeardStays DEF CastInv
<1>4. s.state # "ended" => OnSong(s, heard)
  BY <1>1, <1>2, ShortTodos DEF Sound
<1>5. PICK lang \in BOOLEAN, word \in Words :
        /\ SwitchAsks(s, lang, word)
        /\ LET d == Switch(s, word)
           IN  IF d.todo = <<>> /\ AheadIsNarrated(d.s)
               THEN /\ job' = [job EXCEPT !.then = "ahead"]
                    /\ UNCHANGED <<sessions, flips, setbacks>>
               ELSE Proceed("save", job.id, d, IF d.todo = <<>> THEN flips ELSE flips + 1)
  BY Zenon DEF FollowNarration
<1>a. ASSUME Switch(s, word).todo = <<>>, AheadIsNarrated(Switch(s, word).s)
      PROVE  s.index < Len(s.queue)
  <2>1. CASE s.state = "playing" /\ Switch(s, word) = Reload(s)
    <3>1. s.state # "ended"
      BY <2>1
    <3>2. Reload(s).todo = <<LoadIt>>
      BY <1>2, <1>3, <3>1, ReloadDecides
    <3> QED BY <1>a, <2>1, <3>2, ShortTodos
  <2>2. CASE Switch(s, word) = Decide(s, <<>>)
    <3>1. Decide(s, <<>>).s = s
      BY DEF Decide
    <3> QED BY <1>a, <2>2, <3>1, Zenon DEF AheadIsNarrated
  <2> QED BY <2>1, <2>2, SwitchCases
<1>6. ready' \subseteq Video /\ spoken' \subseteq Video
  BY <1>2, <1>5, SwitchAsksKeeps DEF CastInv
<1>7. CASE job' = [job EXCEPT !.then = "ahead"] /\ sessions' = sessions /\ s.index < Len(s.queue)
  <2>1. /\ job' \in [then : {"narrate", "save", "ahead"}, id : SessionId, s : Session, todo : Todo]
        /\ job'.id = job.id /\ job'.s = s /\ job'.todo = <<>>
    BY <1>1, <1>2, <1>7
  <2>2. Sound(job', heard')
    BY <1>1, <1>2, <2>1, Zenon DEF Sound
  <2>3. Live(job.id)' /\ Onward(sessions'[job'.id], job'.s)
    BY <1>2, <1>7, <2>1, Zenon DEF Live
  <2>4. JobInv'
    BY <1>7, <2>1, <2>2, <2>3, Zenon DEF JobInv
  <2>5. RowsInv' /\ Steps
    BY <1>3, <1>7, RowsGrow, Zenon DEF Steps, Rows
  <2> QED BY <1>1, <1>3, <1>6, <2>4, <2>5, Zenon DEF CastInv, SpeakerInv, MemoryInv
<1>8. ASSUME NEW reloads, Proceed("save", job.id, Switch(s, word), reloads)
      PROVE  CastInv' /\ Steps
  <2> DEFINE d == Switch(s, word)
  <2>1. Sound(d, heard') /\ Onward(s, d.s)
    <3>1. CASE s.state = "playing" /\ d = Reload(s)
      <4>1. s.state # "ended"
        BY <3>1
      <4>2. Decided(s, Reload(s), heard)
        BY <1>2, <1>3, <4>1, ReloadDecides
      <4> HIDE DEF d
      <4> QED BY <1>1, <3>1, <4>2, Zenon DEF Decided
    <3>2. CASE d = Decide(s, <<>>)
      <4>1. d.s = s /\ d.todo = <<>>
        BY <3>2 DEF Decide
      <4> HIDE DEF d
      <4>2. Sound(d, heard)
        BY <1>2, <1>4, <4>1, ShortTodos, Zenon DEF Sound
      <4> QED BY <1>1, <4>1, <4>2, Zenon DEF Onward, Sessions!Stays
    <3> HIDE DEF d
    <3> QED BY <3>1, <3>2, SwitchCases DEF d
  <2>2. WellFormed(d.s)
    BY <2>1, Zenon DEF Sound
  <2>3. Onward(sessions[job.id], d.s)
    <3>1. WellFormed(sessions[job.id])
      BY <1>2, <1>3, LiveFields
    <3>2. sessions[job.id].version \in Nat /\ s.version \in Nat /\ d.s.version \in Nat
      BY <1>2, <2>2, <3>1, WellFormedFields
    <3> HIDE DEF d
    <3> QED BY <1>2, <2>1, <3>2, OnwardIsTransitive
  <2> HIDE DEF d
  <2>4. RowsInv' /\ JobInv' /\ Steps
    BY <1>2, <1>3, <1>8, <2>1, <2>2, <2>3, ProceedKeeps, ProceedSteps DEF d
  <2> QED BY <1>1, <1>3, <1>6, <2>4, Zenon DEF CastInv, SpeakerInv, MemoryInv
<1> QED
  BY <1>5, <1>a, <1>7, <1>8, Zenon

LEMMA AskAheadStep == ASSUME CastInv, AskAhead PROVE CastInv' /\ Steps
<1>1. /\ job # NoJob /\ job.todo = <<>> /\ job.then = "ahead" /\ speaker' = speaker /\ heard' = heard
      /\ Save(job.id, job.s, flips)
  BY DEF AskAhead, At
<1>2. /\ Sound(job, heard) /\ WellFormed(job.s) /\ job.id \in SessionId
      /\ Live(job.id) /\ Onward(sessions[job.id], job.s)
  BY <1>1, JobFields
<1>3. heard \in Hearing /\ heard' \in Hearing /\ Grown(heard, heard') /\ RowsInv
  BY <1>1, HeardStays DEF CastInv
<1>4. job.s.state # "ended" => OnSong(job.s, heard')
  BY <1>1, <1>2, ShortTodos DEF Sound
<1>5. ready' \subseteq Video /\ spoken' \subseteq Video
  <2>1. PICK lang, word : Asks(job.s, job.s.queue[job.s.index + 1], lang, word)
    BY DEF AskAhead
  <2>2. ready' \subseteq ready \cup {job.s.queue[job.s.index + 1]} /\ spoken' \subseteq spoken \cup Vietnamese
    BY <2>1 DEF Asks
  <2>3. job.s.queue[job.s.index + 1] \in Video
    <3>1. job.s.index < Len(job.s.queue)
      BY <1>1, JobFields DEF CastInv, JobInv
    <3>2. /\ job.s.queue \in Seq(Video) /\ Len(job.s.queue) \in Nat \ {0}
          /\ job.s.index \in 1..Len(job.s.queue)
      BY <1>2, WellFormedFields
    <3>3. job.s.index + 1 \in 1..Len(job.s.queue)
      BY <3>1, <3>2
    <3> QED BY <3>2, <3>3
  <2> QED BY <2>2, <2>3, CastEngineAssumption DEF CastInv, MemoryInv
<1>6. RowsInv' /\ JobInv' /\ Steps
  BY <1>1, <1>2, <1>3, <1>4, SaveKeeps, SaveSteps, Zenon DEF JobInv
<1> QED
  BY <1>1, <1>3, <1>5, <1>6, Zenon DEF CastInv, SpeakerInv, MemoryInv

\* The row of a session that lost its speaker to another.
LEMMA ReplacedIsOK ==
  ASSUME NEW s, WellFormed(s), s.state # "ended", NEW h
  PROVE  LET t == Stored(End(s, "replaced"))
         IN  /\ RowOK(t, h) /\ t.state = "ended"
             /\ Public(t) = [Public(s) EXCEPT !.state = "ended", !.reason = "replaced"]
<1> DEFINE e == End(s, "replaced")
<1>1. s \in Session /\ s.queue \in Queues /\ s.index \in DOMAIN s.queue /\ "replaced" \in EndedReason
  BY Zenon DEF WellFormed, EndedReason
<1>2. /\ e \in Session /\ e.state = "ended" /\ e.reason = "replaced"
      /\ e.queue = s.queue /\ e.index = s.index /\ e.version = s.version
  BY <1>1, EndFields
<1> HIDE DEF e
<1>3. WellFormed(e)
  <2>1. "replaced" # NoReason
    BY Zenon DEF NoReason
  <2> QED BY <1>1, <1>2, <2>1, Zenon DEF WellFormed
<1>4. RowOK(Stored(e), h) /\ Stored(e).state = "ended" /\ Public(Stored(e)) = Public(e)
  BY <1>2, <1>3, StoredIsOK
<1>5. Public(e) = [Public(s) EXCEPT !.state = "ended", !.reason = "replaced"]
  <2> DEFINE r == [state |-> "ended", reason |-> "replaced",
                   queue |-> s.queue, index |-> s.index, version |-> s.version]
  <2>1. Public(e) = r
    BY <1>2, Zenon DEF Public
  <2>2. [Public(s) EXCEPT !.state = "ended", !.reason = "replaced"] = r
    <3> DEFINE R == [state : {s.state, "ended"}, reason : {s.reason, "replaced"},
                     queue : {s.queue}, index : {s.index}, version : {s.version}]
               p == Public(s)
               t == [p EXCEPT !.state = "ended", !.reason = "replaced"]
    <3>1. p \in R
      BY DEF Public
    <3> HIDE DEF p
    <3>2. t \in R /\ t.state = "ended" /\ t.reason = "replaced"
          /\ t.queue = s.queue /\ t.index = s.index /\ t.version = s.version
      BY <3>1
    <3>3. r \in R /\ r.state = "ended" /\ r.reason = "replaced"
          /\ r.queue = s.queue /\ r.index = s.index /\ r.version = s.version
      OBVIOUS
    <3>4. \A x, y \in R : x.state = y.state /\ x.reason = y.reason /\ x.queue = y.queue
                           /\ x.index = y.index /\ x.version = y.version => x = y
      OBVIOUS
    <3> QED BY <3>2, <3>3, <3>4, Zenon DEF p
  <2> QED BY <2>1, <2>2, Zenon
<1> QED
  BY <1>4, <1>5 DEF e

LEMMA CreateStep == ASSUME CastInv, Create PROVE CastInv' /\ Steps
<1> DEFINE new == job.id
           row == job.s
<1>1. /\ job # NoJob /\ job.todo = <<>> /\ job.then = "create" /\ job' = NoJob
      /\ ready' = ready /\ spoken' = spoken /\ heard' = heard
  BY DEF Create, At, ghosts
<1>2. /\ WellFormed(row) /\ new \in SessionId /\ Sound(job, heard)
      /\ new \notin DOMAIN sessions /\ row.state = "loading" /\ row.version = 1
  BY <1>1, JobFields
<1>3. heard \in Hearing /\ heard' \in Hearing /\ Grown(heard, heard') /\ RowsInv
  BY <1>1, HeardStays DEF CastInv
<1>4. JobInv' /\ MemoryInv'
  BY <1>1, <1>3, Zenon DEF CastInv, MemoryInv, JobInv
<1>5. CASE sessions' = sessions /\ MayStop
  <2>1. SpeakerInv'
    BY <1>1, <1>5, MayStopKeeps DEF CastInv
  <2>2. RowsInv' /\ Steps
    BY <1>3, <1>5, RowsGrow, Zenon DEF Steps, Rows
  <2> QED BY <1>4, <2>1, <2>2, Zenon DEF CastInv
<1>6. CASE /\ sessions' = [id \in DOMAIN sessions \cup {new} |->
                             IF id = new THEN row
                             ELSE IF Live(id) THEN Stored(End(sessions[id], "replaced"))
                             ELSE sessions[id]]
           /\ speaker' = speaker
  <2>1. /\ DOMAIN sessions' = DOMAIN sessions \cup {new} /\ sessions'[new] = row
        /\ \A k \in DOMAIN sessions :
             /\ k # new
             /\ Live(k) => sessions'[k] = Stored(End(sessions[k], "replaced"))
             /\ ~Live(k) => sessions'[k] = sessions[k]
    BY <1>2, <1>6
  <2>2. OnSong(row, heard) /\ row.state \in Active /\ RowOK(row, heard)
    <3>1. row.state \in Active /\ row.state # "ended"
      BY <1>2 DEF Active
    <3>2. OnSong(row, heard)
      BY <1>1, <1>2, <3>1, ShortTodos, Zenon DEF Sound
    <3> QED BY <1>2, <3>1, <3>2, Zenon DEF RowOK
  <2>3. ASSUME NEW k \in DOMAIN sessions, Live(k)
        PROVE  /\ RowOK(sessions'[k], heard) /\ sessions'[k].state = "ended"
               /\ Public(sessions'[k]) = [Public(sessions[k]) EXCEPT !.state = "ended", !.reason = "replaced"]
    <3>1. WellFormed(sessions[k]) /\ sessions[k].state # "ended"
      BY <1>3, <2>3, LiveFields
    <3>2. sessions'[k] = Stored(End(sessions[k], "replaced"))
      BY <2>1, <2>3, Zenon
    <3>3. LET t == Stored(End(sessions[k], "replaced"))
          IN  /\ RowOK(t, heard) /\ t.state = "ended"
              /\ Public(t) = [Public(sessions[k]) EXCEPT !.state = "ended", !.reason = "replaced"]
      BY <3>1, ReplacedIsOK
    <3> QED BY <3>2, <3>3, Zenon
  <2>4. \A k \in DOMAIN sessions' : RowOK(sessions'[k], heard')
    BY <1>1, <1>3, <2>1, <2>2, <2>3, Zenon DEF RowsInv
  <2>5. \A k \in SessionId : Live(k)' => k = new
    <3> SUFFICES ASSUME NEW k \in SessionId, Live(k)', k # new PROVE FALSE
      OBVIOUS
    <3>1. k \in DOMAIN sessions /\ sessions'[k].state \in Active
      BY <2>1 DEF Live
    <3>2. CASE Live(k)
      BY <2>3, <3>1, <3>2, ActiveIsPlaying
    <3>3. CASE ~Live(k)
      BY <2>1, <3>1, <3>3, Zenon DEF Live
    <3> QED BY <3>2, <3>3
  <2>6. RowsInv'
    BY <1>2, <1>3, <2>1, <2>4, <2>5, Zenon DEF RowsInv
  <2>7. Sessions!Begin(new, Rows'[new])
    <3>1. new \notin DOMAIN Rows /\ new \in DOMAIN Rows' /\ Rows'[new] = Public(row)
      BY <1>2, <2>1 DEF Rows
    <3>2. /\ Rows'[new].state = "loading" /\ Rows'[new].version = 1 /\ Rows'[new].reason = ""
          /\ Rows'[new].index \in DOMAIN Rows'[new].queue
      <4>1. row.reason = "" /\ row.index \in DOMAIN row.queue
        <5>1. row.state # "ended"
          BY <1>2
        <5> QED BY <1>2, <5>1, Zenon DEF WellFormed, NoReason
      <4> QED BY <1>2, <3>1, <4>1, PublicFields, Zenon
    <3>3. \A k \in DOMAIN sessions :
            /\ Rows[k] = Public(sessions[k]) /\ Rows'[k] = Public(sessions'[k])
            /\ Sessions!Live(k) <=> Live(k)
      <4> SUFFICES ASSUME NEW k \in DOMAIN sessions
                   PROVE  /\ Rows[k] = Public(sessions[k]) /\ Rows'[k] = Public(sessions'[k])
                          /\ Sessions!Live(k) <=> Live(k)
        OBVIOUS
      <4>1. k \in DOMAIN Rows /\ Rows[k] = Public(sessions[k]) /\ Rows'[k] = Public(sessions'[k])
        BY <2>1 DEF Rows
      <4>2. Rows[k].state = sessions[k].state
        BY <4>1, PublicFields
      <4> QED BY <4>1, <4>2, ActiveIsPlaying, Zenon DEF Sessions!Live, Live, Rows
    <3>4. \A k \in DOMAIN sessions :
            Rows'[k] = IF Sessions!Live(k)
                       THEN [Rows[k] EXCEPT !.state = "ended", !.reason = "replaced"]
                       ELSE Rows[k]
      <4> SUFFICES ASSUME NEW k \in DOMAIN sessions
                   PROVE  Rows'[k] = IF Sessions!Live(k)
                                     THEN [Rows[k] EXCEPT !.state = "ended", !.reason = "replaced"]
                                     ELSE Rows[k]
        OBVIOUS
      <4>1. CASE Live(k)
        <5>1. Public(sessions'[k]) = [Public(sessions[k]) EXCEPT !.state = "ended", !.reason = "replaced"]
          BY <2>3, <4>1
        <5>2. Rows'[k] = [Rows[k] EXCEPT !.state = "ended", !.reason = "replaced"]
          BY <3>3, <5>1, Zenon
        <5> QED BY <3>3, <4>1, <5>2, Zenon
      <4>2. CASE ~Live(k)
        <5>1. Rows'[k] = Rows[k]
          BY <2>1, <3>3, <4>2, Zenon
        <5> QED BY <3>3, <4>2, <5>1, Zenon
      <4> QED BY <4>1, <4>2
    <3>5. DOMAIN Rows = DOMAIN sessions /\ DOMAIN Rows' = DOMAIN sessions \cup {new}
      BY <2>1 DEF Rows
    <3>6. Rows' = [k \in DOMAIN Rows' |-> Rows'[k]]
      BY DEF Rows
    <3> DEFINE to == [k \in DOMAIN Rows \cup {new} |->
                        IF k = new THEN Rows'[new]
                        ELSE IF Sessions!Live(k)
                        THEN [Rows[k] EXCEPT !.state = "ended", !.reason = "replaced"]
                        ELSE Rows[k]]
    <3>7. Rows' = to
      <4>1. \A k \in DOMAIN sessions \cup {new} : Rows'[k] = to[k]
        BY <1>2, <3>4, <3>5
      <4> QED BY <3>5, <3>6, <4>1
    <3> HIDE DEF to
    <3> QED
      BY <3>1, <3>2, <3>7, Zenon DEF Sessions!Begin, to, Rows
  <2>8. Steps
    <3>1. new \in DOMAIN Rows'
      BY <2>1 DEF Rows
    <3> QED BY <1>2, <2>7, <3>1, Zenon DEF Steps, Sessions!CastSessionsNext, Rows
  <2> QED BY <1>4, <1>1, <1>6, <2>6, <2>8, Zenon DEF CastInv, SpeakerInv
<1> QED
  BY <1>5, <1>6, Zenon DEF Create

LEMMA StartSessionStep ==
  ASSUME CastInv, NEW id \in SessionId, NEW ids \in Asked, NEW at \in DOMAIN ids,
         NEW start \in Offsets, NEW narration \in Narrations,
         StartSession(id, ids, at, start, narration)
  PROVE  CastInv' /\ Steps
<1> DEFINE q == QueueFor(ids)
           s == NewSession(q, narration)
           i == StartOf(ids, at)
           from == IF i # at THEN 0 ELSE start
           d == LoadAt(s, i, from)
<1>1. /\ id \notin DOMAIN sessions /\ q # <<>>
      /\ job' = Work("create", id, d)
      /\ sessions' = sessions /\ speaker' = speaker /\ ready' = ready /\ heard' = heard
      /\ \E told \in SUBSET (Vietnamese \cap Range(QueueFor(ids))) : spoken' = spoken \cup told
  BY Zenon DEF StartSession, IsNextId, MayQueue, CatalogTells
<1>2. q \in Queues /\ q \in Seq(Video) /\ Len(q) \in Nat \ {0} /\ DOMAIN q = 1..Len(q)
  <2>1. q \in Queues
    BY <1>1 DEF Queues
  <2> HIDE DEF q
  <2> QED BY <2>1, QueuesAreSeqs
<1>3. from \in 0..Duration
  BY CastEngineAssumption, CastDomainAssumption
<1>4. i \in 1..Len(q)
  <2>1. ids \in Seq(Video)
    BY CastEngineAssumption
  <2>2. SubSeq(ids, 1, at - 1) \in Seq(Video)
    <3>1. \A m \in 1..(at - 1) : ids[m] \in Video
      BY <2>1
    <3> QED BY <2>1, <3>1
  <2>3. QueueFor(SubSeq(ids, 1, at - 1)) \in Seq(Video)
    BY <2>2, QueueForType
  <2>4. Len(QueueFor(SubSeq(ids, 1, at - 1))) + 1 \in Int
    BY <2>3
  <2> QED BY <1>2, <2>4, ClampIsWithin DEF StartOf
<1>5. WellFormed(s) /\ s.state = "loading" /\ s.queue = q /\ s.version = 0
  <2>1. narration \in BOOLEAN
    BY CastEngineAssumption
  <2>2. 0 \in 0..Duration /\ 1 \in DOMAIN q
    BY <1>2, CastDomainAssumption
  <2> HIDE DEF q
  <2>3. s \in Session /\ s.state = "loading" /\ s.queue = q /\ s.version = 0
        /\ s.index = 1 /\ s.reason = NoReason
    BY <1>2, <2>1, <2>2 DEF NewSession, Session, Active, Loadable
  <2> HIDE DEF s
  <2>4. s.state # "ended"
    BY <2>3
  <2> QED BY <1>2, <2>2, <2>3, <2>4, Zenon DEF WellFormed
<1>6. heard \in Hearing /\ heard' \in Hearing /\ Grown(heard, heard') /\ RowsInv
  BY <1>1, HeardStays DEF CastInv
<1> HIDE DEF q, s, i, from
<1>7. /\ Decided(s, d, heard) /\ d.todo = <<LoadIt>> /\ d.s.state = "loading"
      /\ d.s.version = 1
  <2>1. s.state # "ended" /\ i \in 1..Len(s.queue)
    BY <1>4, <1>5
  <2> QED BY <1>3, <1>5, <1>6, <2>1, LoadAtDecides
<1> HIDE DEF d
<1>8. /\ job'.id = id /\ job'.s = d.s /\ job'.todo = d.todo /\ job'.then = "create"
      /\ Sound(job', heard')
  <2>1. Sound(d, heard')
    BY <1>1, <1>7, Zenon DEF Decided
  <2> QED BY <1>1, <2>1, WorkIsSound
<1>9. job' \in [then : {"create"}, id : SessionId, s : Session, todo : {<<>>, <<LoadIt>>}]
  <2>1. d.s \in Session
    BY <1>7, Zenon DEF Decided, Sound, WellFormed
  <2> QED BY <1>1, <1>7, <2>1 DEF Work
<1>10. JobInv'
  BY <1>1, <1>7, <1>8, <1>9, Zenon DEF JobInv
<1>11. RowsInv' /\ Steps
  BY <1>1, <1>6, RowsGrow, Zenon DEF Steps, Rows
<1>12. MemoryInv'
  <2>1. spoken' \subseteq Video
    BY <1>1, CastEngineAssumption DEF CastInv, MemoryInv
  <2> QED BY <1>1, <1>6, <2>1, Zenon DEF CastInv, MemoryInv
<1> QED
  BY <1>1, <1>10, <1>11, <1>12, Zenon DEF CastInv, SpeakerInv

-----------------------------------------------------------------------------
(* The commands.                                                            *)

SameForm(s, t) == Current(t) = Current(s) /\ t.loaded = s.loaded

\* What a command makes of the live session id, and what it leaves of the rest.
Commanded(id, d) ==
  /\ job = NoJob /\ Live(id) /\ id \in SessionId /\ Proceed("save", id, d, 0)
  /\ Sound(d, heard') /\ Onward(sessions[id], d.s)
  /\ d.todo \in Loads \/ d.s.state = "ended" \/ SameForm(sessions[id], d.s)
  /\ SpeakerInv' /\ heard' \in Hearing /\ Grown(heard, heard')
  /\ ready' \subseteq Video /\ spoken' \subseteq Video /\ ready \subseteq ready'

LEMMA DecidedIsCommanded ==
  ASSUME CastInv, NEW id, NEW d, Command(id, d), heard' = heard, SpeakerInv',
         ready' = ready, spoken' \subseteq Video, Decided(sessions[id], d, heard)
  PROVE  Commanded(id, d)
<1>1. job = NoJob /\ Live(id) /\ Proceed("save", id, d, 0)
  BY DEF Command
<1>2. id \in SessionId /\ heard \in Hearing /\ heard' \in Hearing /\ Grown(heard, heard')
  BY <1>1, LiveFields, HeardStays DEF CastInv
<1>3. ready' \subseteq Video /\ ready \subseteq ready'
  BY DEF CastInv, MemoryInv
<1> QED
  BY <1>1, <1>2, <1>3, Zenon DEF Commanded, Decided, SameSong, SameForm

\* Another state of the same song, at the same place.
LEMMA StateDecides ==
  ASSUME NEW s, WellFormed(s), s.state # "ended", NEW h \in Hearing, OnSong(s, h),
         NEW state \in Active
  PROVE  Decided(s, Decide([s EXCEPT !.state = state], <<>>), h)
<1> DEFINE t == [s EXCEPT !.state = state]
           d == Decide(t, <<>>)
<1>1. s \in Session /\ s.queue \in Queues /\ s.index \in DOMAIN s.queue /\ s.reason = NoReason
  BY Zenon DEF WellFormed
<1>2. /\ t \in Session /\ t.state = state /\ t.queue = s.queue /\ t.index = s.index
      /\ t.version = s.version /\ t.pos = s.pos /\ t.loaded = s.loaded
      /\ t.narration = s.narration /\ t.forced = s.forced /\ t.reason = s.reason
  BY <1>1 DEF Session
<1>3. d.s = t /\ d.todo = <<>>
  BY DEF Decide
<1> HIDE DEF t, d
<1>4. WellFormed(t) /\ Current(t) = Current(s)
  <2>1. state # "ended"
    BY ActiveIsPlaying
  <2> QED BY <1>1, <1>2, <2>1, Zenon DEF WellFormed, Current
<1>5. d.todo \in Todo /\ d.todo \notin Loads
  BY <1>3, ShortTodos
<1>6. OnSong(t, h) /\ SameSong(s, t) /\ Sessions!Stays(s, t)
  BY <1>2, <1>4, Zenon DEF OnSong, SameSong, Sessions!Stays
<1>7. Decided(s, d, h)
  BY <1>3, <1>4, <1>5, <1>6, Zenon DEF Decided, Sound, Onward
<1> QED
  BY <1>7 DEF d, t

LEMMA PauseCommands ==
  ASSUME CastInv, NEW id, Live(id), Pause(id) \/ Resume(id) PROVE \E d : Commanded(id, d)
<1> DEFINE s == sessions[id]
           d(from, to) == Decide(IF s.state = from THEN [s EXCEPT !.state = to] ELSE s, <<>>)
<1>1. ASSUME NEW from \in Active, NEW to \in {"playing", "paused"}, from # "idle",
             speaker' = IF speaker.state = from THEN [speaker EXCEPT !.state = to] ELSE speaker,
             Command(id, d(from, to)), ready' = ready, spoken' = spoken, heard' = heard
      PROVE  \E e : Commanded(id, e)
  <2>1. WellFormed(s) /\ s.state # "ended" /\ OnSong(s, heard) /\ heard \in Hearing
    BY LiveFields DEF CastInv, MemoryInv
  <2>2. Decided(s, d(from, to), heard)
    <3>1. to \in Active
      BY DEF Active
    <3> QED BY <2>1, <3>1, StateDecides, NothingDecides
  <2>3. SpeakerInv'
    <3>1. CASE speaker.state = from
      <4>1. /\ speaker' \in SpeakerState /\ speaker'.key = speaker.key /\ speaker'.pos = speaker.pos
            /\ speaker'.reason = speaker.reason /\ speaker'.next = speaker.next /\ speaker'.from = speaker.from
        BY <1>1, <3>1 DEF SpeakerState, CastInv, SpeakerInv, SpeakerOK
      <4>2. speaker.state # "idle"
        BY <1>1, <3>1
      <4> QED BY <1>1, <4>1, <4>2, Zenon DEF CastInv, SpeakerInv, SpeakerOK
    <3>2. CASE speaker.state # from
      BY <1>1, <3>2, Zenon DEF CastInv, SpeakerInv
    <3> QED BY <3>1, <3>2
  <2>4. spoken' \subseteq Video
    BY <1>1 DEF CastInv, MemoryInv
  <2> HIDE DEF d
  <2> QED BY <1>1, <2>2, <2>3, <2>4, DecidedIsCommanded
<1>2. CASE Pause(id)
  BY <1>1, <1>2 DEF Pause, Active
<1>3. CASE Resume(id)
  BY <1>1, <1>3 DEF Resume, Active
<1> QED
  BY <1>2, <1>3

LEMMA SeekCommands ==
  ASSUME CastInv, NEW id, Live(id), NEW pos \in Offsets, Seek(id, pos)
  PROVE  \E d : Commanded(id, d)
<1> DEFINE s == sessions[id]
           v == Current(s)
           t == [s EXCEPT !.pos = pos]
           d == Decide(t, <<>>)
           ours == speaker.key \in Key /\ Sounding
           known == HeardTo(speaker.key.video, pos)
<1>1. /\ speaker' = IF ours THEN [speaker EXCEPT !.pos = pos] ELSE speaker
      /\ heard' = IF ours THEN [known EXCEPT ![v] = IF pos > @ THEN pos ELSE @] ELSE HeardTo(v, pos)
      /\ Command(id, d) /\ ready' = ready /\ spoken' = spoken
  BY Zenon DEF Seek
<1>2. /\ id \in SessionId /\ WellFormed(s) /\ s.state # "ended" /\ OnSong(s, heard)
      /\ heard \in Hearing /\ pos \in 0..Duration /\ v \in Video
  <2>1. /\ id \in SessionId /\ WellFormed(s) /\ s.state # "ended" /\ OnSong(s, heard)
        /\ heard \in Hearing /\ pos \in 0..Duration
    BY LiveFields, CastEngineAssumption DEF CastInv, MemoryInv
  <2> QED BY <2>1, WellFormedFields
<1> HIDE DEF s, v
<1>3. heard' \in Hearing /\ Grown(heard, heard') /\ pos <= heard'[v] /\ SpeakerOK(speaker', heard')
  <2>1. CASE ours
    <3> DEFINE u == speaker.key.video
    <3>1. u \in Video
      BY <2>1, KeyFields
    <3> HIDE DEF u
    <3>2. known \in Hearing /\ Grown(heard, known) /\ pos <= known[u]
      BY <1>2, <3>1, HeardToGrows DEF u
    <3> HIDE DEF known
    <3>3. heard' = [known EXCEPT ![v] = IF pos > known[v] THEN pos ELSE known[v]]
      BY <1>1, <2>1
    <3>4. \A w \in Video : known[w] \in 0..Duration
      BY <3>2 DEF Hearing
    <3>5. heard' \in Hearing
      BY <1>2, <3>2, <3>3, <3>4 DEF Hearing
    <3>6. \A w \in Video : heard'[w] = IF w = v THEN (IF pos > known[v] THEN pos ELSE known[v]) ELSE known[w]
      BY <3>2, <3>3 DEF Hearing
    <3>7. Grown(known, heard') /\ pos <= heard'[v]
      BY <1>2, <3>4, <3>6, CastDomainAssumption DEF Grown
    <3>8. Grown(heard, heard')
      BY <1>2, <3>2, <3>5, <3>7, GrownIsTransitive
    <3>9. SpeakerOK(speaker, heard')
      BY <1>2, <3>5, <3>8, SpeakerGrows DEF CastInv, SpeakerInv
    <3>10. pos <= heard'[u]
      BY <1>2, <3>1, <3>2, <3>4, <3>6, CastDomainAssumption
    <3>11. speaker' = [speaker EXCEPT !.pos = pos] /\ speaker.state # "idle"
      BY <1>1, <2>1 DEF Sounding
    <3>12. /\ speaker' \in SpeakerState /\ speaker'.key = speaker.key /\ speaker'.pos = pos
           /\ speaker'.state = speaker.state
           /\ speaker'.reason = speaker.reason /\ speaker'.next = speaker.next /\ speaker'.from = speaker.from
      BY <1>2, <3>9, <3>11 DEF SpeakerOK, SpeakerState
    <3>13. SpeakerOK(speaker', heard')
      BY <3>9, <3>10, <3>11, <3>12, Zenon DEF SpeakerOK, u
    <3> QED BY <3>5, <3>7, <3>8, <3>13
  <2>2. CASE ~ours
    <3>1. heard' = HeardTo(v, pos) /\ speaker' = speaker
      BY <1>1, <2>2, Zenon
    <3>2. heard' \in Hearing /\ Grown(heard, heard') /\ pos <= heard'[v]
      BY <1>2, <3>1, HeardToGrows
    <3>3. SpeakerOK(speaker', heard')
      BY <1>2, <3>1, <3>2, SpeakerGrows DEF CastInv, SpeakerInv
    <3> QED BY <3>2, <3>3
  <2> QED BY <2>1, <2>2
<1>4. /\ t \in Session /\ t.state = s.state /\ t.queue = s.queue /\ t.index = s.index
      /\ t.version = s.version /\ t.pos = pos /\ t.loaded = s.loaded
      /\ t.reason = s.reason
  <2>1. s \in Session
    BY <1>2, Zenon DEF WellFormed
  <2> QED BY <1>2, <2>1 DEF Session
<1>5. d.s = t /\ d.todo = <<>>
  BY DEF Decide
<1> HIDE DEF t, d, ours
<1>6. WellFormed(t) /\ Current(t) = v
  BY <1>2, <1>4, Zenon DEF WellFormed, Current, v
<1>7. OnSong(t, heard')
  BY <1>2, <1>3, <1>4, <1>6, Zenon DEF OnSong, v
<1>8. Sound(d, heard')
  BY <1>5, <1>6, <1>7, ShortTodos, Zenon DEF Sound
<1>9. Onward(s, d.s) /\ SameForm(s, d.s)
  BY <1>4, <1>5, <1>6, Zenon DEF Onward, Sessions!Stays, SameForm, v
<1>10. ready' \subseteq Video /\ spoken' \subseteq Video /\ ready \subseteq ready'
  BY <1>1 DEF CastInv, MemoryInv
<1>11. job = NoJob /\ Proceed("save", id, d, 0)
  BY <1>1, Zenon DEF Command
<1>12. Commanded(id, d)
  BY <1>2, <1>3, <1>8, <1>9, <1>10, <1>11, Zenon DEF Commanded, SpeakerInv, s
<1> QED
  BY <1>12

LEMMA QuietCommands ==
  ASSUME CastInv, NEW id, Live(id), NEW d, Command(id, d), Decided(sessions[id], d, heard),
         heard' = heard, ready' = ready, spoken' = spoken, speaker' = speaker \/ MayStop
  PROVE  \E e : Commanded(id, e)
<1>1. SpeakerInv'
  BY MayStopKeeps, Zenon DEF CastInv, SpeakerInv
<1>2. spoken' \subseteq Video
  BY DEF CastInv, MemoryInv
<1>3. Commanded(id, d)
  BY <1>1, <1>2, DecidedIsCommanded
<1> QED
  BY <1>3

LEMMA SkipCommands ==
  ASSUME CastInv, NEW id, Live(id),
         NextSong(id) \/ (\E index \in 1..Len(sessions[id].queue) : Jump(id, index)) \/ Stop(id)
  PROVE  \E d : Commanded(id, d)
<1> DEFINE s == sessions[id]
<1>1. WellFormed(s) /\ s.state # "ended" /\ heard \in Hearing
  BY LiveFields DEF CastInv, MemoryInv
<1>2. CASE NextSong(id)
  <2>1. Decided(s, Advance(s), heard)
    BY <1>1, AdvanceDecides
  <2>2. /\ Command(id, Advance(s)) /\ speaker' = speaker
        /\ heard' = heard /\ ready' = ready /\ spoken' = spoken
    BY <1>2, Zenon DEF NextSong
  <2> QED BY <2>1, <2>2, QuietCommands
<1>3. CASE \E index \in 1..Len(s.queue) : Jump(id, index)
  <2>1. PICK index \in 1..Len(s.queue) : Jump(id, index)
    BY <1>3
  <2>2. Decided(s, LoadAt(s, index, 0), heard)
    BY <1>1, LoadAtDecides, CastDomainAssumption
  <2>3. /\ Command(id, LoadAt(s, index, 0)) /\ speaker' = speaker
        /\ heard' = heard /\ ready' = ready /\ spoken' = spoken
    BY <2>1, Zenon DEF Jump
  <2> QED BY <2>2, <2>3, QuietCommands
<1>4. CASE Stop(id)
  <2> DEFINE d == Decide(End(s, "stopped"), <<>>)
  <2>1. "stopped" \in EndedReason
    BY Zenon DEF EndedReason
  <2>2. Decided(s, d, heard)
    BY <1>1, <2>1, EndDecides
  <2>3. /\ Command(id, d) /\ MayStop
        /\ heard' = heard /\ ready' = ready /\ spoken' = spoken
    BY <1>4, Zenon DEF Stop
  <2> HIDE DEF d
  <2> QED BY <2>2, <2>3, QuietCommands
<1> QED
  BY <1>2, <1>3, <1>4

LEMMA HandoffCommands ==
  ASSUME CastInv, NEW id, Live(id), Handoff(id) PROVE \E d : Commanded(id, d)
<1> DEFINE s == sessions[id]
           e == End(s, "handoff")
           note == RecordProgress(Current(s), s.pos)
           d == Decide(e, <<note>>)
<1>1. WellFormed(s) /\ s.state # "ended" /\ OnSong(s, heard) /\ heard \in Hearing
  BY LiveFields DEF CastInv, MemoryInv
<1>2. "handoff" \in EndedReason
  BY Zenon DEF EndedReason
<1>3. Decided(s, Decide(e, <<>>), heard) /\ e.state = "ended"
  BY <1>1, <1>2, EndDecides
<1>4. note \in Note /\ note.do = "record" /\ note.video = Current(s) /\ note.pos = s.pos
      /\ Current(s) \in Video /\ s.pos \in 0..Duration
  <2>1. Current(s) \in Video /\ s.pos \in 0..Duration
    BY <1>1, WellFormedFields
  <2> QED BY <2>1, NoteFields
<1>5. WasHeard(note, heard)
  <2>1. heard[Current(s)] \in 0..Duration /\ EndSlack \in 0..Duration /\ s.pos <= heard[Current(s)]
    BY <1>1, <1>4, CastDomainAssumption DEF Hearing, OnSong
  <2>2. \A a, b, c \in 0..Duration : a <= b => a <= b + c
    BY CastDomainAssumption
  <2>3. s.pos <= heard[Current(s)] + EndSlack
    BY <1>4, <2>1, <2>2, Zenon
  <2> QED BY <1>4, <2>3, Zenon DEF WasHeard
<1>6. Decide(e, <<>>).s = e /\ d.s = e /\ d.todo = <<note>>
  BY DEF Decide
<1>7. /\ Command(id, d) /\ MayStop
      /\ heard' = heard /\ ready' = ready /\ spoken' = spoken
  BY Zenon DEF Handoff
<1> HIDE DEF note, d, e
<1>8. d.todo \in Todo /\ d.todo \notin Loads /\ Head(d.todo) = note
  BY <1>4, <1>6, NotedTodos
<1>9. Sound(d, heard)
  BY <1>3, <1>5, <1>6, <1>8, Zenon DEF Decided, Sound
<1>10. Decided(s, d, heard)
  BY <1>3, <1>6, <1>9, Zenon DEF Decided
<1> QED
  BY <1>7, <1>10, QuietCommands

LEMMA EditQueueCommands ==
  ASSUME CastInv, NEW id, Live(id), NEW ids \in Edits, NEW at \in DOMAIN ids,
         EditQueue(id, sessions[id].version, ids, at)
  PROVE  \E d : Commanded(id, d)
<1> DEFINE s == sessions[id]
           q == QueueFor(ids)
           d == ReplaceQueue(s, q, at)
<1>1. WellFormed(s) /\ s.state # "ended" /\ OnSong(s, heard) /\ heard \in Hearing
  BY LiveFields DEF CastInv, MemoryInv
<1>2. /\ q # <<>> /\ Command(id, d) /\ speaker' = speaker /\ heard' = heard /\ ready' = ready
      /\ \E told \in SUBSET (Vietnamese \cap Range(QueueFor(ids))) : spoken' = spoken \cup told
  BY Zenon DEF EditQueue, MayQueue, CatalogTells
<1>3. q \in Queues
  BY <1>2 DEF Queues
<1>4. at \in Int
  <2>1. ids \in Seq(Video)
    BY CastEngineAssumption
  <2> QED BY <2>1
<1> HIDE DEF q
<1>5. Decided(s, d, heard)
  BY <1>1, <1>3, <1>4, ReplaceQueueDecides
<1>6. spoken' \subseteq Video
  BY <1>2, CastEngineAssumption DEF CastInv, MemoryInv
<1>7. SpeakerInv'
  BY <1>2, Zenon DEF CastInv, SpeakerInv
<1> HIDE DEF d
<1>8. Commanded(id, d)
  BY <1>2, <1>5, <1>6, <1>7, DecidedIsCommanded
<1> QED
  BY <1>8

LEMMA SetNarrationCommands ==
  ASSUME CastInv, NEW id, Live(id), NEW on \in BOOLEAN, SetNarration(id, on)
  PROVE  \E d : Commanded(id, d)
<1> DEFINE s == sessions[id]
           t == [s EXCEPT !.narration = on, !.forced = IF on THEN Current(s) ELSE NoVideo]
<1>1. /\ id \in SessionId /\ WellFormed(s) /\ s.state # "ended" /\ OnSong(s, heard)
      /\ heard \in Hearing /\ Current(s) \in Video
  <2>1. /\ id \in SessionId /\ WellFormed(s) /\ s.state # "ended" /\ OnSong(s, heard)
        /\ heard \in Hearing
    BY LiveFields DEF CastInv, MemoryInv
  <2> QED BY <2>1, WellFormedFields
<1>2. PICK lang \in BOOLEAN, word \in Words :
        SwitchAsks(t, lang, word) /\ Command(id, Switch(t, word))
  BY Zenon DEF SetNarration
<1>3. speaker' = speaker /\ heard' = heard
  BY Zenon DEF SetNarration
<1>4. /\ t \in Session /\ t.state = s.state /\ t.queue = s.queue /\ t.index = s.index
      /\ t.version = s.version /\ t.pos = s.pos /\ t.loaded = s.loaded /\ t.reason = s.reason
  <2>1. s \in Session
    BY <1>1, Zenon DEF WellFormed
  <2>2. (IF on THEN Current(s) ELSE NoVideo) \in Video \cup {NoVideo}
    BY <1>1
  <2> QED BY <2>1, <2>2 DEF Session
<1> HIDE DEF t, s
<1>5. WellFormed(t) /\ t.state # "ended" /\ OnSong(t, heard) /\ Current(t) = Current(s)
  BY <1>1, <1>4, Zenon DEF WellFormed, OnSong, Current
<1> DEFINE d == Switch(t, word)
<1>6. Decided(t, d, heard) /\ Current(d.s) = Current(s) /\ d.s.loaded = s.loaded
  <2>1. CASE d = Reload(t)
    <3>1. Decided(t, Reload(t), heard) /\ Current(Reload(t).s) = Current(t) /\ Reload(t).s.loaded = t.loaded
      BY <1>1, <1>5, ReloadDecides
    <3> QED BY <1>4, <1>5, <2>1, <3>1
  <2>2. CASE d = Decide(t, <<>>)
    <3>1. Decide(t, <<>>).s = t
      BY DEF Decide
    <3>2. Decided(t, Decide(t, <<>>), heard)
      BY <1>1, <1>5, NothingDecides
    <3> HIDE DEF d
    <3> QED BY <1>4, <1>5, <2>2, <3>1, <3>2
  <2> QED BY <2>1, <2>2, SwitchCases
<1> HIDE DEF d
<1>7. Onward(s, d.s) /\ Sound(d, heard)
  BY <1>4, <1>6, Zenon DEF Decided, Onward, Sessions!Moved, Sessions!Stays
<1>8. Grown(heard, heard') /\ heard' \in Hearing /\ Sound(d, heard')
  BY <1>3, <1>7, HeardStays DEF CastInv
<1>9. ready' \subseteq Video /\ spoken' \subseteq Video /\ ready \subseteq ready'
  <2>1. ready' \subseteq Video /\ spoken' \subseteq Video
    BY <1>2, <1>5, SwitchAsksKeeps DEF CastInv
  <2>2. ready \subseteq ready'
    BY <1>2 DEF SwitchAsks, Asks
  <2> QED BY <2>1, <2>2
<1>10. SpeakerInv'
  BY <1>3, Zenon DEF CastInv, SpeakerInv
<1>11. job = NoJob /\ Proceed("save", id, d, 0)
  BY <1>2, Zenon DEF Command, d
<1>12. SameForm(s, d.s)
  BY <1>6, Zenon DEF SameForm
<1>13. Commanded(id, d)
  BY <1>1, <1>7, <1>8, <1>9, <1>10, <1>11, <1>12, Zenon DEF Commanded, s
<1> QED
  BY <1>13

LEMMA CommandsCommand ==
  ASSUME CastInv, NEW id \in SessionId, Live(id), Commands(id) PROVE \E d : Commanded(id, d)
<1>1. CASE Pause(id) \/ Resume(id)
  BY <1>1, PauseCommands
<1>2. CASE NextSong(id) \/ (\E index \in 1..Len(sessions[id].queue) : Jump(id, index)) \/ Stop(id)
  BY <1>2, SkipCommands
<1>3. CASE Handoff(id)
  BY <1>3, HandoffCommands
<1>4. CASE \E pos \in Offsets : Seek(id, pos)
  BY <1>4, SeekCommands
<1>5. CASE \E ids \in Edits : \E at \in DOMAIN ids : EditQueue(id, sessions[id].version, ids, at)
  BY <1>5, EditQueueCommands
<1>6. CASE \E on \in BOOLEAN : SetNarration(id, on)
  BY <1>6, SetNarrationCommands
<1> QED
  BY <1>1, <1>2, <1>3, <1>4, <1>5, <1>6, Zenon DEF Commands

LEMMA CommandsStep ==
  ASSUME CastInv, NEW id \in SessionId, Live(id), Commands(id) PROVE CastInv' /\ Steps
<1>1. PICK d : Commanded(id, d)
  BY CommandsCommand
<1>2. RowsInv' /\ JobInv' /\ Steps
  BY <1>1, DecisionKeeps DEF Commanded
<1> QED
  BY <1>1, <1>2, Zenon DEF CastInv, MemoryInv, Commanded

-----------------------------------------------------------------------------
(* Time and death.                                                          *)

\* What the clocks say of a row, and nothing else.
LEMMA ClocksKeep ==
  ASSUME RowsInv, NEW id \in SessionId, Live(id),
         NEW row, Alike(sessions[id], row), sessions' = [sessions EXCEPT ![id] = row], heard' = heard,
         heard \in Hearing, row.reason = sessions[id].reason
  PROVE  RowsInv' /\ Steps
<1> DEFINE s == sessions[id]
<1>1. WellFormed(s) /\ OnSong(s, heard) /\ s.state \in Active /\ id \in DOMAIN sessions
  BY LiveFields DEF Live
<1>2. WellFormed(row) /\ OnSong(row, heard) /\ row.state = s.state
  <2>1. WellFormed(row) /\ row.state = s.state
    BY Zenon DEF Alike
  <2> QED BY <1>1, <2>1, AlikeIsAlike, Zenon
<1>3. RowOK(row, heard')
  BY <1>1, <1>2, Zenon DEF RowOK
<1>4. Grown(heard, heard')
  BY GrownIsReflexive
<1>5. RowsInv'
  BY <1>3, <1>4, RowsWritten
<1>6. Public(row) = Public(s)
  BY Zenon DEF Public, Alike
<1>7. Rows' = Rows
  <2> HIDE DEF Public
  <2>1. Rows' = [Rows EXCEPT ![id] = Public(row)]
    BY <1>1, RowsExcept
  <2>2. Rows[id] = Public(row) /\ Rows = [k \in DOMAIN sessions |-> Rows[k]]
    BY <1>1, <1>6 DEF Rows
  <2>3. DOMAIN Rows = DOMAIN sessions
    BY DEF Rows
  <2> HIDE DEF Rows
  <2> QED BY <2>1, <2>2, <2>3
<1> QED
  BY <1>5, <1>7 DEF Steps

LEMMA TimePassesStep ==
  ASSUME CastInv, NEW id \in SessionId, TimePasses(id) PROVE CastInv' /\ Steps
<1>1. /\ Live(id) /\ job = NoJob /\ job' = job /\ speaker' = speaker
      /\ ready' = ready /\ spoken' = spoken /\ heard' = heard
  BY DEF TimePasses, memory, ghosts
<1>2. WellFormed(sessions[id]) /\ heard \in Hearing /\ RowsInv
  BY <1>1, LiveFields DEF CastInv, MemoryInv
<1> DEFINE s == sessions[id]
<1>3. PICK row \in {[s EXCEPT !.silent = TRUE], [s EXCEPT !.late = TRUE]} :
        sessions' = [sessions EXCEPT ![id] = row]
  BY DEF TimePasses
<1>4. Alike(s, row) /\ row.reason = s.reason
  <2>1. s \in Session
    BY <1>2, Zenon DEF WellFormed
  <2>2. row.reason = s.reason
    BY <1>3, <2>1 DEF Session
  <2> QED BY <1>2, <2>2, TouchedIsAlike
<1>5. RowsInv' /\ Steps
  BY <1>1, <1>2, <1>3, <1>4, ClocksKeep
<1> QED
  BY <1>1, <1>5, Zenon DEF CastInv, SpeakerInv, MemoryInv, JobInv

LEMMA AskedElsewhereStep == ASSUME CastInv, AskedElsewhere PROVE CastInv' /\ Steps
<1>1. sessions' = sessions /\ speaker' = speaker /\ job' = job /\ heard' = heard
  BY DEF AskedElsewhere, ghosts
<1>2. ready' \subseteq Video /\ spoken' \subseteq Video
  BY CastEngineAssumption DEF AskedElsewhere, CastInv, MemoryInv
<1>3. RowsInv' /\ JobInv' /\ Steps
  BY <1>1, Zenon DEF CastInv, RowsInv, JobInv, Live, Steps, Rows
<1> QED
  BY <1>1, <1>2, <1>3, Zenon DEF CastInv, SpeakerInv, MemoryInv

LEMMA CrashStep == ASSUME CastInv, Crash PROVE CastInv' /\ Steps
<1>1. /\ job' = NoJob /\ ready' = {} /\ spoken' = {} /\ speaker' = speaker /\ heard' = heard
  BY DEF Crash
<1>2. heard \in Hearing /\ RowsInv /\ heard' \in Hearing /\ Grown(heard, heard')
  BY <1>1, HeardStays DEF CastInv
<1>3. PICK long \in BOOLEAN :
        sessions' = [id \in DOMAIN sessions |->
                       IF long /\ Live(id) THEN [sessions[id] EXCEPT !.silent = TRUE]
                       ELSE sessions[id]]
  BY DEF Crash
<1>4. ASSUME NEW k \in DOMAIN sessions
      PROVE  /\ RowOK(sessions'[k], heard) /\ sessions'[k].state = sessions[k].state
             /\ Public(sessions'[k]) = Public(sessions[k])
  <2> DEFINE s == sessions[k]
             t == [s EXCEPT !.silent = TRUE]
  <2>1. CASE sessions'[k] = s
    BY <1>2, <2>1, Zenon DEF RowsInv
  <2>2. CASE Live(k) /\ sessions'[k] = t
    <3>1. WellFormed(s) /\ OnSong(s, heard) /\ s.state \in Active
      BY <1>2, <2>2, LiveFields DEF Live
    <3>2. Alike(s, t)
      BY <3>1, TouchedIsAlike
    <3>3. t.reason = s.reason
      BY <3>1 DEF WellFormed, Session
    <3> HIDE DEF s, t
    <3>4. WellFormed(t) /\ t.state = s.state /\ OnSong(t, heard) /\ Public(t) = Public(s)
      <4>1. WellFormed(t) /\ t.state = s.state /\ Public(t) = Public(s)
        BY <3>2, <3>3, Zenon DEF Alike, Public
      <4> QED BY <3>1, <3>2, <4>1, AlikeIsAlike, Zenon
    <3>5. RowOK(t, heard)
      BY <3>1, <3>4, Zenon DEF RowOK
    <3> QED BY <2>2, <3>4, <3>5, Zenon DEF s
  <2> QED BY <1>3, <2>1, <2>2
<1>5. DOMAIN sessions' = DOMAIN sessions
  BY <1>3
<1>6. RowsInv'
  <2>1. \A k \in DOMAIN sessions' : RowOK(sessions'[k], heard')
    BY <1>1, <1>4, <1>5, Zenon
  <2>2. \A k : Live(k)' => Live(k)
    BY <1>4, <1>5, Zenon DEF Live
  <2> QED BY <1>2, <1>5, <2>1, <2>2, Zenon DEF RowsInv
<1>7. Rows' = Rows
  BY <1>4, <1>5, Zenon DEF Rows
<1>8. MemoryInv'
  <2>1. ready' \subseteq Video /\ spoken' \subseteq Video
    BY <1>1
  <2> QED BY <1>2, <2>1, Zenon DEF MemoryInv
<1> QED
  BY <1>1, <1>6, <1>7, <1>8, Zenon DEF CastInv, SpeakerInv, JobInv, Steps

-----------------------------------------------------------------------------
(* The theorems.                                                            *)

LEMMA CastInvInit == ASSUME Init PROVE CastInv /\ Sessions!CastSessionsInit
<1>1. /\ sessions = [id \in {} |-> NoJob] /\ job = NoJob /\ ready = {} /\ spoken = {}
      /\ heard = [v \in Video |-> 0]
  BY DEF Init
<1>2. DOMAIN sessions = {}
  BY <1>1
<1>3. RowsInv
  BY <1>2, Zenon DEF RowsInv, Live
<1>4. MemoryInv
  BY <1>1, CastDomainAssumption DEF MemoryInv, Hearing
<1>5. SpeakerInv
  <2>1. /\ speaker \in SpeakerState /\ speaker.key = NoKey /\ speaker.next = NoKey
        /\ speaker.state = "idle" /\ speaker.reason = NoReason
    <3> DEFINE Off == [kind : Kinds, online : {TRUE}, key : {NoKey}, state : {"idle"}, pos : {0},
                       reason : {NoReason}, next : {NoKey}, from : {0}]
    <3>1. speaker \in Off
      BY Zenon DEF Init
    <3>2. 0 \in 0..Duration
      BY CastDomainAssumption
    <3>3. \A sp \in Off : sp \in SpeakerState
      BY <3>2 DEF SpeakerState, Loadable
    <3> QED BY <3>1, <3>3
  <2>2. NoReason # "FINISHED"
    BY Zenon DEF NoReason
  <2>3. NoKey \notin Key
    BY KeyFields
  <2> QED BY <2>1, <2>2, <2>3, Zenon DEF SpeakerInv, SpeakerOK
<1>6. Sessions!CastSessionsInit
  BY <1>2 DEF Sessions!CastSessionsInit
<1> QED
  BY <1>1, <1>3, <1>4, <1>5, <1>6, Zenon DEF CastInv, JobInv

LEMMA CastInvStep == ASSUME CastInv, [Next]_vars PROVE CastInv' /\ Steps
<1>1. CASE SpeakerMoves
  BY <1>1, SpeakerMovesStep
<1>2. CASE AskedElsewhere \/ Crash
  BY <1>2, AskedElsewhereStep, CrashStep
<1>3. CASE HolderSteps
  BY <1>3, LoadSongStep, StopSpeakerStep, RecordStep, FollowNarrationStep, AskAheadStep, CreateStep
     DEF HolderSteps
<1>4. ASSUME NEW id \in SessionId, FollowSession(id) \/ TimePasses(id) \/ Starts(id) \/ (Live(id) /\ Commands(id))
      PROVE  CastInv' /\ Steps
  BY <1>4, FollowSessionStep, TimePassesStep, StartSessionStep, CommandsStep DEF Starts
<1>5. CASE UNCHANGED vars
  BY <1>5, Zenon DEF vars, memory, ghosts, CastInv, SpeakerInv, RowsInv, JobInv, MemoryInv, Live, Steps, Rows
<1> QED
  BY <1>1, <1>2, <1>3, <1>4, <1>5, Zenon DEF Next

LEMMA CastInvHolds == Spec => []CastInv
<1>1. Init => CastInv
  BY CastInvInit
<1>2. CastInv /\ [Next]_vars => CastInv'
  BY CastInvStep
<1> QED
  BY <1>1, <1>2, PTL DEF Spec

\* No note for the history says more of a song than was heard of it
\* (domain/follow.go, usecase/engine.go).
THEOREM NotesWereHeard == Spec => []HistoryWasHeard
<1>1. CastInv => HistoryWasHeard
  <2> SUFFICES ASSUME CastInv, Doing("record") PROVE WasHeard(Head(job.todo), heard)
    BY Zenon DEF HistoryWasHeard, WasHeard
  <2>1. job # NoJob /\ job.todo # <<>> /\ Head(job.todo).do = "record"
    BY DEF Doing
  <2>2. Sound(job, heard)
    BY <2>1, JobFields
  <2> QED BY <2>1, <2>2, Zenon DEF Sound
<1> QED
  BY <1>1, CastInvHolds, PTL

\* One session has the speaker at a time, in what the household sees.
THEOREM OneSessionIsLive == Spec => []OneLiveSession
<1>1. CastInv => OneLiveSession
  <2> SUFFICES ASSUME CastInv, NEW k \in DOMAIN Rows, NEW l \in DOMAIN Rows,
                      Sessions!Live(k), Sessions!Live(l)
               PROVE  k = l
    BY Zenon DEF OneLiveSession, Sessions!OneLiveSession, Rows
  <2>1. ASSUME NEW j \in DOMAIN Rows, Sessions!Live(j) PROVE j \in SessionId /\ Live(j)
    <3>1. j \in DOMAIN sessions /\ Rows[j] = Public(sessions[j]) /\ DOMAIN sessions \subseteq SessionId
      BY DEF Rows, CastInv, RowsInv
    <3>2. Rows[j].state \in Active
      BY <2>1, ActiveIsPlaying, Zenon DEF Sessions!Live, Rows
    <3>3. sessions[j].state \in Active
      BY <3>1, <3>2, PublicFields
    <3> QED BY <3>1, <3>3 DEF Live
  <2> QED BY <2>1, Zenon DEF CastInv, RowsInv
<1> QED
  BY <1>1, CastInvHolds, PTL

\* The service gives the household its sessions: every step of the loop, the
\* commands, the speaker and a crash begins a session, moves or ends one that
\* is live, or changes nothing the household sees.
THEOREM CastImplementsSessions == Spec => SessionsSpec
<1>1. Init => Sessions!CastSessionsInit
  BY CastInvInit
<1>2. CastInv /\ [Next]_vars => [Sessions!CastSessionsNext]_Rows
  BY CastInvStep, Zenon DEF Steps
<1> QED
  BY <1>1, <1>2, CastInvHolds, PTL DEF Spec, SessionsSpec, Sessions!CastSessionsSpec, Rows

-----------------------------------------------------------------------------
(* What the speaker was handed last.                                        *)

\* Skipping with nothing left to do ends the session.
LEMMA SkipFailedEnds ==
  ASSUME NEW s, WellFormed(s), s.state # "ended", SkipFailed(s).todo = <<>>
  PROVE  SkipFailed(s).s.state = "ended"
<1>1. CASE s.index < Len(s.queue)
  <2>1. SkipFailed(s).todo = <<LoadIt>>
    BY <1>1 DEF SkipFailed, Advance, LoadAt, Decide
  <2> QED BY <2>1, ShortTodos
<1>2. CASE ~(s.index < Len(s.queue))
  <2>1. SkipFailed(s).s = End(s, "failed")
    BY <1>2 DEF SkipFailed, Decide
  <2>2. End(s, "failed").state = "ended"
    <3>1. s \in Session /\ "failed" \in EndedReason
      BY Zenon DEF WellFormed, EndedReason
    <3> QED BY <3>1, EndFields
  <2> QED BY <2>1, <2>2
<1> QED
  BY <1>1, <1>2

\* The session whose row was just created is the one that is live.
LEMMA OnlyTheNewIsLive ==
  ASSUME CastInv, NEW new, NEW row,
         sessions' = [id \in DOMAIN sessions \cup {new} |->
                        IF id = new THEN row
                        ELSE IF Live(id) THEN Stored(End(sessions[id], "replaced"))
                        ELSE sessions[id]]
  PROVE  \A k \in SessionId : Live(k)' => k = new
<1> SUFFICES ASSUME NEW k \in SessionId, Live(k)', k # new PROVE FALSE
  OBVIOUS
<1>1. k \in DOMAIN sessions /\ sessions'[k].state \in Active
  BY Zenon DEF Live
<1>2. CASE Live(k)
  <2>1. sessions'[k] = Stored(End(sessions[k], "replaced"))
    BY <1>1, <1>2, Zenon
  <2>2. WellFormed(sessions[k]) /\ sessions[k].state # "ended"
    BY <1>2, LiveFields DEF CastInv
  <2>3. Stored(End(sessions[k], "replaced")).state = "ended"
    BY <2>2, ReplacedIsOK
  <2> QED BY <1>1, <2>1, <2>3, ActiveIsPlaying
<1>3. CASE ~Live(k)
  BY <1>1, <1>3, Zenon DEF Live
<1> QED
  BY <1>2, <1>3

LEMMA HandedStays ==
  ASSUME HandedInv, sessions' = sessions, job' = job, UNCHANGED given, setbacks' \in Nat
  PROVE  HandedInv'
BY Zenon DEF HandedInv, given, At, Live

\* Writing s, or failing to, where the rows are right without it or known lost.
LEMMA SaveHanded ==
  ASSUME RowsInv, setbacks \in Nat, NEW id \in SessionId, Live(id), NEW s, NEW n, Save(id, s, n),
         s.state # "ended" => unsaved' \/ s.loaded = handed',
         \/ unsaved' \/ setbacks' = setbacks
         \/ \A k \in SessionId : Live(k) => sessions[k].loaded = handed'
  PROVE  HandedInv'
<1>1. job' = NoJob /\ setbacks' \in Nat /\ id \in DOMAIN sessions
  BY DEF Save, Fails, Live
<1>2. CASE sessions' = [sessions EXCEPT ![id] = Stored(s)]
  <2>1. DOMAIN sessions' = DOMAIN sessions /\ sessions'[id] = Stored(s)
        /\ \A k \in DOMAIN sessions : k # id => sessions'[k] = sessions[k]
    BY <1>1, <1>2
  <2>2. ASSUME NEW k \in SessionId, Live(k)' PROVE unsaved' \/ sessions'[k].loaded = handed'
    <3>1. k = id
      <4>1. k # id => Live(k)
        BY <2>1, <2>2, Zenon DEF Live
      <4> QED BY <4>1 DEF RowsInv
    <3>2. s.state # "ended"
      <4>1. s.state = "ended" => Stored(s).state = "ended"
        BY DEF Stored, Public
      <4>2. Stored(s).state \in Active
        BY <2>1, <2>2, <3>1, Zenon DEF Live
      <4> QED BY <4>1, <4>2, ActiveIsPlaying
    <3>3. Stored(s) = s
      BY <3>2, Zenon DEF Stored
    <3> QED BY <2>1, <3>1, <3>2, <3>3, Zenon
  <2> QED BY <1>1, <2>2, Zenon DEF HandedInv
<1>3. CASE sessions' = sessions /\ setbacks' = setbacks + 1
  <2>1. setbacks' # setbacks
    BY <1>3
  <2> QED BY <1>1, <1>3, <2>1, Zenon DEF HandedInv, Live
<1> QED
  BY <1>2, <1>3, <1>1, Zenon DEF Save, Fails, HandedInv, Live

\* Nothing was handed over in this step.
LEMMA ProceedHanded ==
  ASSUME RowsInv, HandedInv, ~At("create"), UNCHANGED given,
         NEW id \in SessionId, Live(id), NEW then \in {"narrate", "save"},
         NEW d, NEW n, Proceed(then, id, d, n),
         d.todo \notin Loads /\ d.s.state # "ended" => unsaved \/ d.s.loaded = handed
  PROVE  HandedInv'
<1>1. /\ setbacks \in Nat /\ handed' = handed /\ unsaved' = unsaved
      /\ unsaved \/ \A k \in SessionId : Live(k) => sessions[k].loaded = handed
  BY Zenon DEF HandedInv, given
<1>2. CASE job' = Work(then, id, d) /\ sessions' = sessions /\ setbacks' = setbacks
  <2>1. job'.s = d.s /\ job'.todo = d.todo
    BY <1>2, WorkIsSound
  <2> QED BY <1>1, <1>2, <2>1, Zenon DEF HandedInv, Live
<1>3. CASE d.todo = <<>> /\ Save(id, d.s, n)
  BY <1>1, <1>3, ShortTodos, SaveHanded
<1> QED
  BY <1>2, <1>3, Zenon DEF Proceed

\* What holds of the job whose holder goes on.
LEMMA HandedFields ==
  ASSUME CastInv, HandedInv
  PROVE  /\ RowsInv /\ setbacks \in Nat
         /\ job # NoJob /\ job.todo \notin Loads /\ job.s.state # "ended"
              => unsaved \/ job.s.loaded = handed
         /\ ~At("create") => unsaved \/ \A id \in SessionId : Live(id) => sessions[id].loaded = handed
         /\ job = NoJob => ~At("create")
BY Zenon DEF HandedInv, CastInv, At

LEMMA FollowSessionHanded ==
  ASSUME CastInv, HandedInv, NEW id \in SessionId, FollowSession(id) PROVE HandedInv'
<1>1. job = NoJob /\ Live(id) /\ UNCHANGED given
  BY Zenon DEF FollowSession
<1>2. PICK d : /\ Decided(sessions[id], d, heard)
               /\ Proceed("narrate", id, d, IF d.s.version # sessions[id].version THEN 0 ELSE flips)
  BY FollowSessionDecides
<1>3. d.todo \notin Loads /\ d.s.state # "ended" => unsaved \/ d.s.loaded = handed
  BY <1>1, <1>2, HandedFields, Zenon DEF Decided, SameSong
<1> QED
  BY <1>1, <1>2, <1>3, HandedFields, ProceedHanded

LEMMA LoadSongHanded == ASSUME CastInv, HandedInv, LoadSong PROVE HandedInv'
<1> DEFINE s == job.s
           v == Current(s)
<1>1. job # NoJob /\ job.todo # <<>> /\ Head(job.todo).do = "load" /\ ~At("create")
  BY DEF LoadSong, Doing, At
<1>2. /\ WellFormed(s) /\ job.todo = <<LoadIt>> /\ job.id \in SessionId /\ s.state # "ended"
      /\ v \in Video /\ s.state = "loading"
  <2>1. Sound(job, heard) /\ WellFormed(s) /\ job.todo \in Todo /\ job.id \in SessionId
    BY <1>1, JobFields
  <2>2. job.todo = <<LoadIt>>
    BY <1>1, <2>1, TodoGoesOn
  <2>3. s.state = "loading" /\ s.state # "ended"
    BY <2>1, <2>2, ShortTodos DEF Sound
  <2> QED BY <2>1, <2>2, <2>3, WellFormedFields
<1>3. Tail(job.todo) = <<>> /\ RowsInv /\ setbacks \in Nat /\ heard \in Hearing
  BY <1>2, AfterTheLoad, HandedFields DEF CastInv, MemoryInv
<1>4. PICK lang \in BOOLEAN, word \in Words :
        /\ Asks(s, v, lang, word)
        /\ LET key == [video    |-> v,
                       narrated |-> Covers(s, v, spoken') /\ Form(v, word) = "ready"]
               d   == SkipFailed(s)
           IN  \/ /\ speaker.online
                  /\ speaker' = Handed(key, s.pos) /\ handed' = key
                  /\ heard' = HeardTo(v, s.pos)
                  /\ Proceed(job.then, job.id, Rest(Loaded(s, key)), flips)
                  /\ unsaved' = (setbacks' # setbacks)
               \/ /\ job.then # "create"
                  /\ Proceed(job.then, job.id, Decide(d.s, Tail(job.todo) \o d.todo), 0)
                  /\ UNCHANGED <<speaker, heard, given>>
               \/ /\ job.then = "create" /\ job' = NoJob
                  /\ UNCHANGED <<sessions, speaker, ghosts, setbacks>>
  BY Zenon DEF LoadSong
<1> DEFINE key == [video |-> v, narrated |-> Covers(s, v, spoken') /\ Form(v, word) = "ready"]
           d   == SkipFailed(s)
<1>5. key \in Key
  BY <1>2 DEF Key
<1> HIDE DEF key
<1>6. CASE /\ Proceed(job.then, job.id, Rest(Loaded(s, key)), flips)
           /\ handed' = key /\ unsaved' = (setbacks' # setbacks)
  <2> DEFINE t == Loaded(s, key)
             r == Rest(t)
  <2>1. t.loaded = key /\ t.state = "loading"
    BY <1>2, <1>5, LoadedFields
  <2>2. r.s = t /\ r.todo = <<>>
    BY <1>3 DEF Rest, Decide
  <2> HIDE DEF t, r
  <2>3. Proceed(job.then, job.id, r, flips)
    BY <1>6, Zenon DEF r, t
  <2>4. CASE job.then = "create"
    <3>1. job' = Work("create", job.id, r) /\ setbacks' = setbacks
      BY <2>3, <2>4, Zenon DEF Proceed
    <3>2. job'.s = t /\ job'.todo = <<>> /\ job'.then = "create"
      BY <2>2, <3>1, WorkIsSound
    <3>3. job' # NoJob
      BY <3>2 DEF NoJob
    <3>4. At("create")'
      BY <3>2, <3>3, Zenon DEF At
    <3> QED BY <1>3, <1>6, <2>1, <3>1, <3>2, <3>4, Zenon DEF HandedInv
  <2>5. CASE job.then # "create"
    <3>1. Live(job.id)
      BY <1>1, <2>5, JobFields
    <3>2. Save(job.id, t, flips)
      <4>1. t.state # "playing"
        BY <2>1
      <4> QED BY <2>2, <2>3, <2>5, <4>1, Zenon DEF Proceed
    <3>3. unsaved' \/ setbacks' = setbacks
      BY <1>6
    <3> QED BY <1>2, <1>3, <1>6, <2>1, <3>1, <3>2, <3>3, SaveHanded
  <2> QED BY <2>4, <2>5
<1>7. CASE /\ job.then # "create" /\ UNCHANGED given
           /\ Proceed(job.then, job.id, Decide(d.s, Tail(job.todo) \o d.todo), 0)
  <2>1. d.todo \in {<<LoadIt>>, <<>>} /\ (d.todo = <<>> => d.s.state = "ended")
    BY <1>2, <1>3, SkipFailedDecides, SkipFailedEnds
  <2>2. job.then \in {"narrate", "save"} /\ Live(job.id)
    BY <1>1, <1>2, <1>7, JobFields
  <2> DEFINE r == Decide(d.s, Tail(job.todo) \o d.todo)
  <2> HIDE DEF d
  <2>3. r.s = d.s /\ r.todo = d.todo
    BY <1>3, <2>1, AfterTheLoad DEF Decide
  <2> HIDE DEF r
  <2>4. r.todo \in Loads \/ r.s.state = "ended"
    BY <2>1, <2>3, ShortTodos
  <2>5. Proceed(job.then, job.id, r, 0)
    BY <1>7, Zenon DEF r
  <2> QED BY <1>1, <1>2, <1>3, <1>7, <2>2, <2>4, <2>5, ProceedHanded
<1>8. CASE job' = NoJob /\ sessions' = sessions /\ UNCHANGED given /\ setbacks' = setbacks
  BY <1>1, <1>3, <1>8, HandedFields, Zenon DEF HandedInv, given, Live
<1> QED
  BY <1>4, <1>6, <1>7, <1>8, Zenon DEF key, ghosts

LEMMA RestHanded ==
  ASSUME CastInv, HandedInv, job # NoJob, job.todo # <<>>, Head(job.todo).do # "load",
         UNCHANGED given, Proceed(job.then, job.id, Rest(job.s), flips)
  PROVE  HandedInv'
<1> DEFINE d == Rest(job.s)
<1>1. /\ job.then \in {"narrate", "save"} /\ job.id \in SessionId /\ Live(job.id)
      /\ job.todo \in Todo
  BY JobFields, ShortTodos
<1>2. d.s = job.s /\ d.todo = Tail(job.todo)
  BY DEF Rest, Decide
<1> HIDE DEF d
<1>3. d.todo \notin Loads /\ d.s.state # "ended" => unsaved \/ d.s.loaded = handed
  BY <1>1, <1>2, TodoGoesOn, HandedFields
<1>4. ~At("create") /\ Proceed(job.then, job.id, d, flips) /\ RowsInv
  BY Zenon DEF At, d, CastInv
<1> QED
  BY <1>1, <1>3, <1>4, ProceedHanded

LEMMA FollowNarrationHanded == ASSUME CastInv, HandedInv, FollowNarration PROVE HandedInv'
<1> DEFINE s == job.s
<1>1. /\ job # NoJob /\ job.todo = <<>> /\ job.then = "narrate" /\ UNCHANGED given
      /\ ~At("create")
  BY DEF FollowNarration, At
<1>2. /\ Sound(job, heard) /\ WellFormed(s) /\ job.id \in SessionId /\ Live(job.id)
      /\ job \in [then : {"narrate", "save", "ahead"}, id : SessionId, s : Session, todo : Todo]
  BY <1>1, JobFields
<1>3. PICK lang \in BOOLEAN, word \in Words :
        /\ SwitchAsks(s, lang, word)
        /\ LET d == Switch(s, word)
           IN  IF d.todo = <<>> /\ AheadIsNarrated(d.s)
               THEN /\ job' = [job EXCEPT !.then = "ahead"]
                    /\ UNCHANGED <<sessions, flips, setbacks>>
               ELSE Proceed("save", job.id, d, IF d.todo = <<>> THEN flips ELSE flips + 1)
  BY Zenon DEF FollowNarration
<1>4. s.state # "ended" => unsaved \/ s.loaded = handed
  BY <1>1, ShortTodos, HandedFields
<1>5. CASE job' = [job EXCEPT !.then = "ahead"] /\ sessions' = sessions /\ setbacks' = setbacks
  <2>1. job'.s = s
    BY <1>2, <1>5
  <2> QED BY <1>1, <1>4, <1>5, <2>1, HandedFields, Zenon DEF HandedInv, given, Live
<1>6. ASSUME NEW n, Proceed("save", job.id, Switch(s, word), n) PROVE HandedInv'
  <2> DEFINE d == Switch(s, word)
  <2>1. d.todo \notin Loads => d.s = s
    <3>1. CASE s.state = "playing" /\ d = Reload(s)
      <4>1. s.state # "ended" /\ heard \in Hearing
        BY <3>1 DEF CastInv, MemoryInv
      <4>2. Reload(s).todo = <<LoadIt>>
        BY <1>2, <4>1, ReloadDecides
      <4> QED BY <3>1, <4>2, ShortTodos
    <3>2. CASE d = Decide(s, <<>>)
      <4>1. Decide(s, <<>>).s = s
        BY DEF Decide
      <4> QED BY <3>2, <4>1
    <3> QED BY <3>1, <3>2, SwitchCases
  <2> HIDE DEF d
  <2>2. d.todo \notin Loads /\ d.s.state # "ended" => unsaved \/ d.s.loaded = handed
    BY <1>4, <2>1
  <2>3. Proceed("save", job.id, d, n)
    BY <1>6, Zenon DEF d
  <2> QED BY <1>1, <1>2, <2>2, <2>3, HandedFields, ProceedHanded
<1> QED
  BY <1>3, <1>5, <1>6, Zenon

LEMMA AskAheadHanded == ASSUME CastInv, HandedInv, AskAhead PROVE HandedInv'
<1>1. /\ job # NoJob /\ job.todo = <<>> /\ job.then = "ahead" /\ UNCHANGED given
      /\ ~At("create") /\ Save(job.id, job.s, flips)
  BY DEF AskAhead, At
<1>2. job.id \in SessionId /\ Live(job.id)
  BY <1>1, JobFields
<1>3. /\ job.s.state # "ended" => unsaved' \/ job.s.loaded = handed'
      /\ unsaved' \/ \A k \in SessionId : Live(k) => sessions[k].loaded = handed'
  BY <1>1, ShortTodos, HandedFields, Zenon DEF given
<1> QED
  BY <1>1, <1>2, <1>3, HandedFields, SaveHanded

LEMMA CreateHanded == ASSUME CastInv, HandedInv, Create PROVE HandedInv'
<1>1. job # NoJob /\ job.todo = <<>> /\ job.then = "create" /\ job' = NoJob /\ handed' = handed
  BY DEF Create, At
<1>2. setbacks \in Nat
  BY HandedFields
<1>3. CASE unsaved' = TRUE /\ setbacks' = setbacks + 1
  BY <1>1, <1>2, <1>3 DEF HandedInv
<1>4. CASE /\ sessions' = [id \in DOMAIN sessions \cup {job.id} |->
                             IF id = job.id THEN job.s
                             ELSE IF Live(id) THEN Stored(End(sessions[id], "replaced"))
                             ELSE sessions[id]]
           /\ unsaved' = unsaved /\ setbacks' = setbacks
  <2>1. \A k \in SessionId : Live(k)' => k = job.id
    BY <1>1, <1>4, OnlyTheNewIsLive
  <2>2. sessions'[job.id] = job.s
    BY <1>4
  <2>3. job.s.state # "ended"
    BY <1>1, JobFields
  <2>4. unsaved \/ job.s.loaded = handed
    BY <1>1, <2>3, ShortTodos, HandedFields
  <2> QED BY <1>1, <1>2, <1>4, <2>1, <2>2, <2>4, Zenon DEF HandedInv
<1> QED
  BY <1>3, <1>4, Zenon DEF Create, Fails

LEMMA StartSessionHanded ==
  ASSUME CastInv, HandedInv, NEW id, NEW ids, NEW at, NEW start, NEW narration,
         StartSession(id, ids, at, start, narration)
  PROVE  HandedInv'
<1> DEFINE from == IF StartOf(ids, at) # at THEN 0 ELSE start
           d == LoadAt(NewSession(QueueFor(ids), narration), StartOf(ids, at), from)
<1>1. /\ job = NoJob /\ job' = Work("create", id, d) /\ sessions' = sessions
      /\ UNCHANGED given /\ setbacks' = setbacks
  BY Zenon DEF StartSession
<1>2. d.todo = <<LoadIt>>
  BY DEF LoadAt, Decide
<1> HIDE DEF d
<1>3. job'.todo \in Loads
  BY <1>1, <1>2, WorkIsSound, ShortTodos
<1> QED
  BY <1>1, <1>3, HandedFields, Zenon DEF HandedInv, given, Live

LEMMA CommandsHanded ==
  ASSUME CastInv, HandedInv, NEW id \in SessionId, Live(id), Commands(id) PROVE HandedInv'
<1>1. PICK d : Commanded(id, d)
  BY CommandsCommand
<1>2. UNCHANGED given
  BY Zenon DEF Commands, Pause, Resume, Seek, NextSong, Jump, Stop, Handoff, EditQueue, SetNarration
<1>3. /\ job = NoJob /\ Proceed("save", id, d, 0) /\ RowsInv
      /\ d.todo \in Loads \/ d.s.state = "ended" \/ d.s.loaded = sessions[id].loaded
  BY <1>1, Zenon DEF Commanded, CastInv, SameForm
<1>4. d.todo \notin Loads /\ d.s.state # "ended" => unsaved \/ d.s.loaded = handed
  BY <1>3, HandedFields, Zenon
<1> QED
  BY <1>2, <1>3, <1>4, HandedFields, ProceedHanded

\* Clocks and the end of the process leave every row on what it was handed.
LEMMA RowsHanded ==
  ASSUME CastInv, HandedInv, setbacks' \in Nat, handed' = handed, job' = NoJob,
         unsaved' \/ (~unsaved /\ ~At("create")),
         \A id \in SessionId : Live(id)' => Live(id) /\ sessions'[id].loaded = sessions[id].loaded
  PROVE  HandedInv'
BY HandedFields, Zenon DEF HandedInv

LEMMA TimePassesHanded ==
  ASSUME CastInv, HandedInv, NEW id \in SessionId, TimePasses(id) PROVE HandedInv'
<1> DEFINE s == sessions[id]
<1>1. /\ Live(id) /\ job = NoJob /\ job' = NoJob /\ id \in DOMAIN sessions
      /\ handed' = handed /\ unsaved' = unsaved /\ setbacks' = setbacks
  BY DEF TimePasses, memory, ghosts, given, bounds, Live
<1>2. s \in Session
  BY <1>1, LiveFields, Zenon DEF WellFormed, CastInv
<1>3. PICK row \in {[s EXCEPT !.silent = TRUE], [s EXCEPT !.late = TRUE]} :
        sessions' = [sessions EXCEPT ![id] = row]
  BY DEF TimePasses
<1>4. row.state = s.state /\ row.loaded = s.loaded
  BY <1>2, <1>3 DEF Session
<1>5. \A k \in SessionId : Live(k)' => Live(k) /\ sessions'[k].loaded = sessions[k].loaded
  BY <1>1, <1>3, <1>4 DEF Live
<1>6. CASE unsaved
  BY <1>1, <1>6, HandedFields, Zenon DEF HandedInv
<1>7. CASE ~unsaved
  BY <1>1, <1>5, <1>7, HandedFields, RowsHanded
<1> QED
  BY <1>6, <1>7

LEMMA CrashHanded == ASSUME CastInv, HandedInv, Crash PROVE HandedInv'
<1>1. /\ job' = NoJob /\ handed' = handed /\ unsaved' = (unsaved \/ At("create"))
      /\ setbacks' = setbacks + 1
  BY DEF Crash, Fails
<1>2. setbacks' \in Nat
  BY <1>1, HandedFields
<1>3. PICK long \in BOOLEAN :
        sessions' = [id \in DOMAIN sessions |->
                       IF long /\ Live(id) THEN [sessions[id] EXCEPT !.silent = TRUE]
                       ELSE sessions[id]]
  BY DEF Crash
<1>4. ASSUME NEW id \in SessionId, Live(id)'
      PROVE  Live(id) /\ sessions'[id].loaded = sessions[id].loaded
  <2>1. id \in DOMAIN sessions /\ sessions'[id].state \in Active
    BY <1>3, <1>4 DEF Live
  <2>2. CASE sessions'[id] = sessions[id]
    BY <2>1, <2>2 DEF Live
  <2>3. CASE Live(id) /\ sessions'[id] = [sessions[id] EXCEPT !.silent = TRUE]
    <3>1. sessions[id] \in Session
      BY <2>3, LiveFields, Zenon DEF WellFormed, CastInv
    <3> QED BY <2>3, <3>1 DEF Session
  <2> QED BY <1>3, <2>1, <2>2, <2>3
<1> QED
  BY <1>1, <1>2, <1>4, RowsHanded

LEMMA HandedInvInit == ASSUME Init PROVE HandedInv
<1>1. DOMAIN sessions = {} /\ job = NoJob /\ setbacks = 0
  BY DEF Init
<1> QED
  BY <1>1 DEF HandedInv, Live

LEMMA HandedInvStep == ASSUME CastInv, HandedInv, [Next]_vars PROVE HandedInv'
<1>1. CASE SpeakerMoves \/ AskedElsewhere
  <2>1. sessions' = sessions /\ job' = job /\ UNCHANGED given
    BY <1>1 DEF SpeakerMoves, AskedElsewhere, memory, ghosts
  <2>2. setbacks' \in Nat
    BY <1>1, HandedFields DEF SpeakerMoves, AskedElsewhere, Fails
  <2> QED BY <2>1, <2>2, HandedStays
<1>2. CASE Crash
  BY <1>2, CrashHanded
<1>3. CASE HolderSteps
  <2>1. CASE StopSpeaker \/ Record
    <3>1. /\ job # NoJob /\ job.todo # <<>> /\ Head(job.todo).do # "load" /\ UNCHANGED given
          /\ Proceed(job.then, job.id, Rest(job.s), flips)
      BY <2>1 DEF StopSpeaker, Record, Doing
    <3> QED BY <3>1, RestHanded
  <2> QED BY <1>3, <2>1, LoadSongHanded, FollowNarrationHanded, AskAheadHanded, CreateHanded
          DEF HolderSteps
<1>4. ASSUME NEW id \in SessionId, FollowSession(id) \/ TimePasses(id) \/ Starts(id) \/ (Live(id) /\ Commands(id))
      PROVE  HandedInv'
  BY <1>4, FollowSessionHanded, TimePassesHanded, StartSessionHanded, CommandsHanded DEF Starts
<1>5. CASE UNCHANGED vars
  <2>1. sessions' = sessions /\ job' = job /\ UNCHANGED given /\ setbacks' = setbacks
    BY <1>5, Zenon DEF vars, memory, ghosts, bounds
  <2> QED BY <2>1, HandedFields, HandedStays
<1> QED
  BY <1>1, <1>2, <1>3, <1>4, <1>5, Zenon DEF Next

\* What the speaker was handed last, whatever the session is that has it, is the
\* song that session is on, in the form its row says: for every queue, edit,
\* refusal, takeover and crash, and in every state but those where the write of
\* the row that belongs to it was itself lost (Engine.apply, save and
\* StartSession, usecase/engine.go).
THEOREM LoadedStaysCurrent == Spec => []LoadedIsCurrent
<1>1. Init => HandedInv
  BY HandedInvInit
<1>2. CastInv /\ HandedInv /\ [Next]_vars => HandedInv'
  BY HandedInvStep
<1>3. CastInv /\ HandedInv => LoadedIsCurrent
  <2> SUFFICES ASSUME CastInv, HandedInv, job = NoJob, ~unsaved, NEW id, Live(id)
               PROVE  sessions[id].loaded = handed /\ handed.video = Current(sessions[id])
    BY Zenon DEF LoadedIsCurrent
  <2>1. id \in SessionId /\ OnSong(sessions[id], heard)
    BY LiveFields DEF CastInv
  <2>2. sessions[id].loaded = handed
    BY <2>1, HandedFields, Zenon
  <2> QED BY <2>1, <2>2, Zenon DEF OnSong
<1> QED
  BY <1>1, <1>2, <1>3, CastInvHolds, PTL DEF Spec

-----------------------------------------------------------------------------
(* The loop settles on the sound of a song.                                 *)

LEMMA LeftIsSmall ==
  ASSUME NEW s, NEW todo, NEW rd, NEW sp, NEW k \in Nat
  PROVE  /\ Left(s, todo, rd, sp) \in 0..3
         /\ Remembered(s, todo, rd, k) => Left(s, todo, rd, sp) <= Bound(k)
         /\ s.state = "ended" => Left(s, todo, rd, sp) = 0 /\ Remembered(s, todo, rd, k)
         /\ todo \in Loads => Left(s, todo, rd, sp) \in 0..2 /\ Remembered(s, todo, rd, k)
<1> DEFINE l == Left(s, todo, rd, sp)
<1>1. l \in {0, 1, 2, 3}
  BY Zenon DEF Left
<1>2. l = 3 => ~(todo \in Loads) /\ s.state # "ended" /\ s.loaded.narrated /\ Current(s) \notin rd
  <2>1. 0 # 3 /\ 1 # 3 /\ 2 # 3
    OBVIOUS
  <2> QED BY <2>1, Zenon DEF Left
<1>3. s.state = "ended" => l = 0
  BY Zenon DEF Left
<1> HIDE DEF l
<1>4. Bound(k) = 2 + 3 * k
  BY Zenon DEF Bound
<1>5. Remembered(s, todo, rd, k) => k # 0 \/ l # 3
  BY <1>2, Zenon DEF Remembered
<1>6. Remembered(s, todo, rd, k) => l <= Bound(k)
  BY <1>1, <1>4, <1>5
<1>7. (s.state = "ended" => Remembered(s, todo, rd, k)) /\ (todo \in Loads => Remembered(s, todo, rd, k))
  BY Zenon DEF Remembered
<1>8. l \in 0..3 /\ (todo \in Loads => l \in 0..2)
  BY <1>1, <1>2
<1> QED
  BY <1>3, <1>6, <1>7, <1>8 DEF l

\* The more is known, the less is left to be found out.
LEMMA LeftShrinks ==
  ASSUME NEW s, NEW todo, NEW rd, NEW sp, NEW rd2, NEW sp2, rd \subseteq rd2, sp \subseteq sp2
  PROVE  Left(s, todo, rd2, sp2) <= Left(s, todo, rd, sp)
<1> DEFINE v == Current(s)
<1>1. Covers(s, v, sp2) => Covers(s, v, sp)
  BY DEF Covers
<1>2. v \in rd => v \in rd2
  OBVIOUS
<1> HIDE DEF v
<1> DEFINE C == Covers(s, v, sp)
           C2 == Covers(s, v, sp2)
           R == v \in rd
           R2 == v \in rd2
           N == s.loaded.narrated
           L == todo \in Loads
           E == s.state = "ended"
           Of(c, r) == IF E THEN 0
                       ELSE IF L THEN (IF ~c THEN 0 ELSE IF r THEN 1 ELSE 2)
                       ELSE IF N THEN (IF c /\ ~r THEN 3 ELSE 1)
                       ELSE IF c THEN 2 ELSE 0
<1>3. Left(s, todo, rd, sp) = Of(C, R) /\ Left(s, todo, rd2, sp2) = Of(C2, R2)
  BY Zenon DEF Left, v
<1>4. \A e, l, n, c, r, c2, r2 \in BOOLEAN :
        (c2 => c) /\ (r => r2) =>
          (IF e THEN 0 ELSE IF l THEN (IF ~c2 THEN 0 ELSE IF r2 THEN 1 ELSE 2)
           ELSE IF n THEN (IF c2 /\ ~r2 THEN 3 ELSE 1) ELSE IF c2 THEN 2 ELSE 0)
          <= (IF e THEN 0 ELSE IF l THEN (IF ~c THEN 0 ELSE IF r THEN 1 ELSE 2)
              ELSE IF n THEN (IF c /\ ~r THEN 3 ELSE 1) ELSE IF c THEN 2 ELSE 0)
  OBVIOUS
<1> QED
  BY <1>1, <1>2, <1>3, <1>4

LEMMA WithinShrinks ==
  ASSUME NEW s, NEW todo, NEW n \in Nat, NEW rd, NEW sp, NEW rd2, NEW sp2, NEW k \in Nat,
         rd \subseteq rd2, sp \subseteq sp2, Within(s, todo, n, rd, sp, k)
  PROVE  Within(s, todo, n, rd2, sp2, k)
<1>1. Left(s, todo, rd2, sp2) \in 0..3 /\ Left(s, todo, rd, sp) \in 0..3
      /\ Left(s, todo, rd2, sp2) <= Left(s, todo, rd, sp)
  BY LeftIsSmall, LeftShrinks
<1>2. Bound(k) \in Nat
  BY DEF Bound
<1>3. n + Left(s, todo, rd, sp) <= Bound(k)
  BY Zenon DEF Within
<1>4. n + Left(s, todo, rd2, sp2) <= Bound(k)
  BY <1>1, <1>2, <1>3
<1>5. Remembered(s, todo, rd2, k)
  BY Zenon DEF Within, Remembered
<1> QED
  BY <1>4, <1>5, Zenon DEF Within

\* From nothing there is room for all of it.
LEMMA FreshIsWithin ==
  ASSUME NEW s, NEW todo, NEW rd, NEW sp, NEW k \in Nat, Remembered(s, todo, rd, k)
  PROVE  Within(s, todo, 0, rd, sp, k)
<1>1. Left(s, todo, rd, sp) \in 0..3 /\ Left(s, todo, rd, sp) <= Bound(k)
  BY LeftIsSmall
<1>2. 0 + Left(s, todo, rd, sp) <= Bound(k)
  BY <1>1
<1> QED
  BY <1>2, Zenon DEF Within

\* One setback more makes room for all of it again.
LEMMA FailedIsWithin ==
  ASSUME NEW s, NEW todo, NEW rd, NEW sp, NEW k \in Nat, NEW n \in Nat, n <= Bound(k)
  PROVE  Within(s, todo, n, rd, sp, k + 1)
<1>1. Remembered(s, todo, rd, k + 1)
  <2>1. k + 1 # 0
    OBVIOUS
  <2> QED BY <2>1, Zenon DEF Remembered
<1>2. Left(s, todo, rd, sp) \in 0..3
  BY LeftIsSmall
<1>3. n + Left(s, todo, rd, sp) <= Bound(k + 1)
  BY <1>2 DEF Bound
<1> QED
  BY <1>1, <1>3, Zenon DEF Within

LEMMA WithinIsBounded ==
  ASSUME NEW s, NEW todo, NEW n \in Nat, NEW rd, NEW sp, NEW k \in Nat,
         Within(s, todo, n, rd, sp, k)
  PROVE  n <= Bound(k)
<1>1. Left(s, todo, rd, sp) \in 0..3 /\ Bound(k) \in Nat
  BY LeftIsSmall DEF Bound
<1>2. n + Left(s, todo, rd, sp) <= Bound(k)
  BY Zenon DEF Within
<1> QED
  BY <1>1, <1>2

\* What Left and Remembered read of a session.
LEMMA LeftReads ==
  ASSUME NEW s, NEW t, NEW todo, NEW rd, NEW sp, NEW k, NEW n,
         (t.state = "ended") <=> (s.state = "ended"),
         Current(t) = Current(s), t.loaded = s.loaded, t.narration = s.narration, t.forced = s.forced
  PROVE  /\ Left(t, todo, rd, sp) = Left(s, todo, rd, sp)
         /\ Remembered(t, todo, rd, k) <=> Remembered(s, todo, rd, k)
         /\ Within(t, todo, n, rd, sp, k) <=> Within(s, todo, n, rd, sp, k)
<1>1. \A v : Covers(t, v, sp) <=> Covers(s, v, sp)
  BY Zenon DEF Covers
<1>2. Left(t, todo, rd, sp) = Left(s, todo, rd, sp)
  <2>1. CASE s.state = "ended"
    BY <2>1, Zenon DEF Left
  <2>2. CASE s.state # "ended" /\ todo \in Loads
    BY <1>1, <2>2, Zenon DEF Left
  <2>3. CASE s.state # "ended" /\ todo \notin Loads
    BY <1>1, <2>3, Zenon DEF Left
  <2> QED BY <2>1, <2>2, <2>3
<1>3. Remembered(t, todo, rd, k) <=> Remembered(s, todo, rd, k)
  BY Zenon DEF Remembered
<1> QED
  BY <1>2, <1>3, Zenon DEF Within

\* The sessions that are live after the step, when nobody has a job any more.
LEMMA FlipsRest ==
  ASSUME job' = NoJob, flips' \in Nat, setbacks' \in Nat,
         flips' <= Bound(setbacks)',
         \A id \in SessionId : Live(id)' => Within(sessions'[id], <<>>, flips', ready', spoken', setbacks')
  PROVE  FlipsInv'
BY Zenon DEF FlipsInv, Within

\* The service lost something, and with it at most the job.
LEMMA FlipsForgiven ==
  ASSUME setbacks \in Nat, flips' \in Nat, flips' <= Bound(setbacks), setbacks' = setbacks + 1,
         job' # NoJob => (job'.then = "create" => flips' = 0)
  PROVE  FlipsInv'
<1>1. setbacks' \in Nat /\ flips' <= Bound(setbacks')
  BY DEF Bound
<1>2. \A s, todo : Within(s, todo, flips', ready', spoken', setbacks')
  BY FailedIsWithin
<1> QED
  BY <1>1, <1>2, Zenon DEF FlipsInv, Within

\* Saving s where it is the one session that is live.
LEMMA SaveFlips ==
  ASSUME RowsInv, FlipsInv, NEW id \in SessionId, Live(id), NEW s, NEW n \in Nat, Save(id, s, n),
         Within(s, <<>>, n, ready', spoken', setbacks)
  PROVE  FlipsInv'
<1>1. setbacks \in Nat /\ id \in DOMAIN sessions /\ job' = NoJob
  BY Zenon DEF FlipsInv, Live, Save
<1>2. n <= Bound(setbacks)
  BY <1>1, WithinIsBounded
<1>3. CASE /\ sessions' = [sessions EXCEPT ![id] = Stored(s)] /\ flips' = n /\ setbacks' = setbacks
  <2>1. sessions'[id] = Stored(s) /\ \A k \in DOMAIN sessions : k # id => sessions'[k] = sessions[k]
    BY <1>1, <1>3
  <2>2. DOMAIN sessions' = DOMAIN sessions
    BY <1>3
  <2>3. ASSUME NEW k \in SessionId, Live(k)'
        PROVE  Within(sessions'[k], <<>>, flips', ready', spoken', setbacks')
    <3>1. k \in DOMAIN sessions /\ sessions'[k].state \in Active
      BY <2>2, <2>3, Zenon DEF Live
    <3>2. k = id
      <4>1. k # id => Live(k)
        BY <2>1, <3>1, Zenon DEF Live
      <4> QED BY <4>1 DEF RowsInv
    <3>3. s.state # "ended"
      <4>1. s.state = "ended" => Stored(s).state = "ended"
        BY DEF Stored, Public
      <4> QED BY <2>1, <3>1, <3>2, <4>1, ActiveIsPlaying
    <3>4. sessions'[k] = s
      BY <2>1, <3>2, <3>3, Zenon DEF Stored
    <3> QED BY <1>3, <3>4, Zenon
  <2> QED BY <1>1, <1>2, <1>3, <2>3, FlipsRest, Zenon
<1>4. CASE setbacks' = setbacks + 1 /\ flips' = n
  BY <1>1, <1>2, <1>4, FlipsForgiven
<1> QED
  BY <1>3, <1>4, Zenon DEF Save, Fails

LEMMA ProceedFlips ==
  ASSUME RowsInv, FlipsInv, NEW id \in SessionId, Live(id), NEW then \in {"narrate", "save"},
         NEW d, NEW n \in Nat, Proceed(then, id, d, n), ready \subseteq ready',
         Within(d.s, d.todo, n, ready', spoken', setbacks)
  PROVE  FlipsInv'
<1>1. CASE job' = Work(then, id, d) /\ flips' = n /\ sessions' = sessions /\ setbacks' = setbacks
  <2>1. job'.s = d.s /\ job'.todo = d.todo /\ job'.then # "create"
    BY <1>1, WorkIsSound
  <2>2. setbacks \in Nat
    BY DEF FlipsInv
  <2>3. n <= Bound(setbacks)
    BY <2>2, WithinIsBounded
  <2>4. job' # NoJob
    <3>1. NoJob.then = "free" /\ job'.then = then
      BY <1>1, WorkIsSound DEF NoJob
    <3> QED BY <3>1
  <2>5. ASSUME NEW k \in SessionId, Live(k)' PROVE Remembered(sessions'[k], <<>>, ready', setbacks')
    BY <1>1, <2>5, Zenon DEF FlipsInv, Live, Remembered
  <2> QED BY <1>1, <2>1, <2>2, <2>3, <2>4, <2>5, Zenon DEF FlipsInv
<1>2. CASE d.todo = <<>> /\ Save(id, d.s, n)
  BY <1>2, SaveFlips
<1> QED
  BY <1>1, <1>2, Zenon DEF Proceed

LEMMA FlipsFields ==
  ASSUME FlipsInv
  PROVE  /\ flips \in Nat /\ setbacks \in Nat /\ flips <= Bound(setbacks)
         /\ \A id \in SessionId : Live(id) =>
              /\ Remembered(sessions[id], <<>>, ready, setbacks)
              /\ job = NoJob => Within(sessions[id], <<>>, flips, ready, spoken, setbacks)
         /\ job # NoJob => /\ Within(job.s, job.todo, flips, ready, spoken, setbacks)
                           /\ job.then = "create" => flips = 0
BY Zenon DEF FlipsInv

\* Nothing the loop has counted is touched.
LEMMA FlipsStay ==
  ASSUME FlipsInv, flips' = flips, setbacks' = setbacks, ready' = ready, spoken' = spoken,
         job' = job, sessions' = sessions
  PROVE  FlipsInv'
BY Zenon DEF FlipsInv, Live

\* A decision is remembered as well as the session it is about.
LEMMA DecidedIsRemembered ==
  ASSUME NEW s, NEW d, NEW rd, NEW k \in Nat, Remembered(s, <<>>, rd, k), s.state # "ended",
         d.todo \in Loads \/ d.s.state = "ended" \/ SameForm(s, d.s)
  PROVE  Remembered(d.s, d.todo, rd, k)
<1>1. CASE d.todo \in Loads \/ d.s.state = "ended"
  BY <1>1, LeftIsSmall
<1>2. CASE SameForm(s, d.s)
  BY <1>2, ShortTodos, Zenon DEF SameForm, Remembered
<1> QED
  BY <1>1, <1>2

LEMMA FollowSessionFlips ==
  ASSUME CastInv, FlipsInv, NEW id \in SessionId, FollowSession(id) PROVE FlipsInv'
<1> DEFINE s == sessions[id]
<1>1. Live(id) /\ job = NoJob /\ ready' = ready /\ spoken' = spoken /\ RowsInv /\ heard \in Hearing
  BY DEF FollowSession, CastInv, MemoryInv
<1>2. WellFormed(s) /\ s.state # "ended" /\ OnSong(s, heard)
  BY <1>1, LiveFields
<1>3. PICK d : /\ Decided(s, d, heard) /\ Moves(s, d)
               /\ Proceed("narrate", id, d, IF d.s.version # s.version THEN 0 ELSE flips)
  BY FollowSessionDecides
<1>4. Decided(s, d, heard) /\ Moves(s, d)
  BY <1>3
<1> DEFINE n == IF d.s.version # s.version THEN 0 ELSE flips
<1>5. /\ flips \in Nat /\ setbacks \in Nat /\ Remembered(s, <<>>, ready, setbacks)
      /\ Within(s, <<>>, flips, ready, spoken, setbacks)
  BY <1>1, FlipsFields
<1>6. Within(d.s, d.todo, n, ready, spoken, setbacks) /\ n \in Nat
  <2>1. CASE d.s.version # s.version
    <3>1. n = 0
      BY <2>1
    <3>2. Remembered(d.s, d.todo, ready, setbacks)
      BY <1>2, <1>4, <1>5, DecidedIsRemembered, Zenon DEF Decided, SameSong, SameForm
    <3> HIDE DEF n
    <3> QED BY <1>5, <3>1, <3>2, FreshIsWithin
  <2>2. CASE d.s.version = s.version
    <3>1. n = flips
      BY <2>2
    <3>2. d.todo \notin Loads
      BY <2>2, <1>4, Zenon DEF Moves
    <3> HIDE DEF n
    <3>3. CASE d.s.state = "ended"
      <4>1. Left(d.s, d.todo, ready, spoken) = 0 /\ Remembered(d.s, d.todo, ready, setbacks)
        BY <1>5, <3>3, LeftIsSmall
      <4>2. flips <= Bound(setbacks)
        BY <1>5, WithinIsBounded
      <4>3. flips + 0 <= Bound(setbacks)
        BY <1>5, <4>2
      <4> QED BY <1>5, <3>1, <4>1, <4>3, Zenon DEF Within
    <3>4. CASE d.s.state # "ended"
      <4>1. SameSong(s, d.s)
        BY <1>4, <3>2, <3>4, Zenon DEF Decided
      <4>2. Within(d.s, <<>>, flips, ready, spoken, setbacks)
        BY <1>2, <1>5, <3>4, <4>1, LeftReads, Zenon DEF SameSong
      <4>3. Left(d.s, d.todo, ready, spoken) = Left(d.s, <<>>, ready, spoken)
            /\ (Remembered(d.s, <<>>, ready, setbacks) => Remembered(d.s, d.todo, ready, setbacks))
        BY <3>2, ShortTodos, Zenon DEF Left, Remembered
      <4> QED BY <1>5, <3>1, <4>2, <4>3, Zenon DEF Within
    <3> QED BY <3>3, <3>4
  <2> QED BY <2>1, <2>2
<1> HIDE DEF n
<1>7. Proceed("narrate", id, d, n)
  BY <1>3, Zenon DEF n
<1>8. Within(d.s, d.todo, n, ready', spoken', setbacks) /\ ready \subseteq ready'
  BY <1>1, <1>6, Zenon
<1> QED
  BY <1>1, <1>6, <1>7, <1>8, ProceedFlips

LEMMA RestFlips ==
  ASSUME CastInv, FlipsInv, job # NoJob, job.todo # <<>>, Head(job.todo).do # "load",
         ready' = ready, spoken' = spoken, Proceed(job.then, job.id, Rest(job.s), flips)
  PROVE  FlipsInv'
<1> DEFINE d == Rest(job.s)
<1>1. job.then \in {"narrate", "save"} /\ job.id \in SessionId /\ Live(job.id) /\ job.todo \in Todo
  BY JobFields, ShortTodos
<1>2. d.s = job.s /\ d.todo = Tail(job.todo)
  BY DEF Rest, Decide
<1>3. Tail(job.todo) \in Loads <=> job.todo \in Loads
  BY <1>1, TodoGoesOn
<1>4. flips \in Nat /\ Within(job.s, job.todo, flips, ready, spoken, setbacks)
  BY FlipsFields
<1> HIDE DEF d
<1>5. /\ Left(d.s, d.todo, ready, spoken) = Left(job.s, job.todo, ready, spoken)
      /\ Remembered(job.s, job.todo, ready, setbacks) => Remembered(d.s, d.todo, ready, setbacks)
  <2>1. d.todo \in Loads <=> job.todo \in Loads
    BY <1>2, <1>3
  <2>2. CASE job.s.state = "ended"
    BY <1>2, <2>2, Zenon DEF Left, Remembered
  <2>3. CASE job.s.state # "ended" /\ job.todo \in Loads
    BY <1>2, <2>1, <2>3, Zenon DEF Left, Remembered
  <2>4. CASE job.s.state # "ended" /\ job.todo \notin Loads
    BY <1>2, <2>1, <2>4, Zenon DEF Left, Remembered
  <2> QED BY <2>2, <2>3, <2>4
<1>6. Within(d.s, d.todo, flips, ready', spoken', setbacks) /\ ready \subseteq ready'
  BY <1>4, <1>5, Zenon DEF Within
<1>7. Proceed(job.then, job.id, d, flips) /\ RowsInv
  BY Zenon DEF d, CastInv
<1> QED
  BY <1>1, <1>4, <1>6, <1>7, ProceedFlips

LEMMA AsksGrow ==
  ASSUME NEW s, NEW v, NEW lang, NEW word, Asks(s, v, lang, word)
  PROVE  ready \subseteq ready' /\ spoken \subseteq spoken'
BY DEF Asks

\* The form the song is handed over in is one of those still to be expected.
LEMMA LoadedIsWithin ==
  ASSUME NEW s, NEW v, v = Current(s), s.state # "ended", NEW n \in Nat, NEW k \in Nat,
         NEW lang, NEW word, Asks(s, v, lang, word),
         NEW t, NEW key, key.narrated = (Covers(s, v, spoken') /\ Form(v, word) = "ready"),
         t.state = s.state, Current(t) = Current(s), t.loaded = key,
         t.narration = s.narration, t.forced = s.forced,
         Within(s, <<LoadIt>>, n, ready, spoken, k)
  PROVE  Within(t, <<>>, n, ready', spoken', k)
<1>1. ready \subseteq ready' /\ spoken \subseteq spoken'
  BY AsksGrow
<1>2. Covers(s, v, spoken') => Covers(s, v, spoken)
  BY <1>1 DEF Covers
<1>3. Covers(s, v, spoken') /\ Form(v, word) = "ready" => v \in ready'
  BY DEF Asks, Form
<1>4. v \in ready => Form(v, word) = "ready"
  BY DEF Form
<1>5. Left(s, <<LoadIt>>, ready, spoken) =
        IF ~Covers(s, v, spoken) THEN 0 ELSE IF v \in ready THEN 1 ELSE 2
  BY ShortTodos, Zenon DEF Left
<1>6. Covers(t, v, spoken') <=> Covers(s, v, spoken')
  BY Zenon DEF Covers
<1>7. Left(t, <<>>, ready', spoken') =
        IF key.narrated THEN (IF Covers(s, v, spoken') /\ v \notin ready' THEN 3 ELSE 1)
        ELSE IF Covers(s, v, spoken') THEN 2 ELSE 0
  BY <1>6, ShortTodos, Zenon DEF Left
<1>8. Remembered(t, <<>>, ready', k)
  BY <1>3, Zenon DEF Remembered
<1>9. \A c, c2, r, r2, form \in BOOLEAN :
        (c2 => c) /\ (c2 /\ form => r2) /\ (r => form) =>
          (IF c2 /\ form THEN (IF c2 /\ ~r2 THEN 3 ELSE 1) ELSE IF c2 THEN 2 ELSE 0)
            <= (IF ~c THEN 0 ELSE IF r THEN 1 ELSE 2)
  OBVIOUS
<1>10. Left(t, <<>>, ready', spoken') <= Left(s, <<LoadIt>>, ready, spoken)
  BY <1>2, <1>3, <1>4, <1>5, <1>7, <1>9
<1>11. /\ Left(t, <<>>, ready', spoken') \in 0..3 /\ Left(s, <<LoadIt>>, ready, spoken) \in 0..3
       /\ Bound(k) \in Nat
  <2>1. Bound(k) \in Nat
    BY DEF Bound
  <2> QED BY <2>1, LeftIsSmall, Zenon
<1>12. n + Left(s, <<LoadIt>>, ready, spoken) <= Bound(k)
  BY Zenon DEF Within
<1>13. n + Left(t, <<>>, ready', spoken') <= Bound(k)
  BY <1>10, <1>11, <1>12
<1> QED
  BY <1>8, <1>13, Zenon DEF Within

LEMMA LoadSongFlips == ASSUME CastInv, FlipsInv, LoadSong PROVE FlipsInv'
<1> DEFINE s == job.s
           v == Current(s)
<1>1. job # NoJob /\ job.todo # <<>> /\ Head(job.todo).do = "load"
  BY DEF LoadSong, Doing
<1>2. /\ Sound(job, heard) /\ WellFormed(s) /\ job.todo = <<LoadIt>> /\ job.id \in SessionId
      /\ s.state = "loading" /\ v \in Video /\ s.state # "ended"
  <2>1. Sound(job, heard) /\ WellFormed(s) /\ job.todo \in Todo /\ job.id \in SessionId
    BY <1>1, JobFields
  <2>2. job.todo = <<LoadIt>>
    BY <1>1, <2>1, TodoGoesOn
  <2>3. s.state = "loading" /\ s.state # "ended"
    BY <2>1, <2>2, ShortTodos DEF Sound
  <2> QED BY <2>1, <2>2, <2>3, WellFormedFields
<1>3. /\ Tail(job.todo) = <<>> /\ heard \in Hearing /\ RowsInv
      /\ flips \in Nat /\ setbacks \in Nat /\ flips <= Bound(setbacks)
      /\ Within(s, <<LoadIt>>, flips, ready, spoken, setbacks)
      /\ job.then = "create" => flips = 0
  BY <1>1, <1>2, AfterTheLoad, FlipsFields DEF CastInv, MemoryInv
<1>4. PICK lang \in BOOLEAN, word \in Words :
        /\ Asks(s, v, lang, word)
        /\ LET key == [video    |-> v,
                       narrated |-> Covers(s, v, spoken') /\ Form(v, word) = "ready"]
               d   == SkipFailed(s)
           IN  \/ /\ speaker.online
                  /\ speaker' = Handed(key, s.pos) /\ handed' = key
                  /\ heard' = HeardTo(v, s.pos)
                  /\ Proceed(job.then, job.id, Rest(Loaded(s, key)), flips)
                  /\ unsaved' = (setbacks' # setbacks)
               \/ /\ job.then # "create"
                  /\ Proceed(job.then, job.id, Decide(d.s, Tail(job.todo) \o d.todo), 0)
                  /\ UNCHANGED <<speaker, heard, given>>
               \/ /\ job.then = "create" /\ job' = NoJob
                  /\ UNCHANGED <<sessions, speaker, ghosts, setbacks>>
  BY Zenon DEF LoadSong
<1> DEFINE key == [video |-> v, narrated |-> Covers(s, v, spoken') /\ Form(v, word) = "ready"]
           d   == SkipFailed(s)
<1>5. ready \subseteq ready' /\ spoken \subseteq spoken'
  BY <1>4, AsksGrow
<1>6. key \in Key /\ key.narrated = (Covers(s, v, spoken') /\ Form(v, word) = "ready")
  BY <1>2 DEF Key
<1> HIDE DEF key
<1>7. CASE Proceed(job.then, job.id, Rest(Loaded(s, key)), flips)
  <2> DEFINE t == Loaded(s, key)
             r == Rest(t)
  <2>1. /\ t.loaded = key /\ Current(t) = Current(s) /\ t.state = s.state
        /\ t.narration = s.narration /\ t.forced = s.forced
    BY <1>2, <1>6, LoadedFields
  <2>2. r.s = t /\ r.todo = <<>>
    BY <1>3 DEF Rest, Decide
  <2> HIDE DEF t
  <2>3. Within(t, <<>>, flips, ready', spoken', setbacks)
    BY <1>2, <1>3, <1>4, <1>6, <2>1, LoadedIsWithin
  <2> HIDE DEF r
  <2>4. Proceed(job.then, job.id, r, flips)
    BY <1>7, Zenon DEF r, t
  <2>5. CASE job.then = "create"
    <3>1. /\ job' = Work("create", job.id, r) /\ sessions' = sessions /\ flips' = flips /\ setbacks' = setbacks
      BY <2>4, <2>5, Zenon DEF Proceed
    <3>2. job'.s = t /\ job'.todo = <<>> /\ job'.then = "create"
      BY <2>2, <3>1, WorkIsSound
    <3>3. ASSUME NEW k \in SessionId, Live(k)' PROVE Remembered(sessions'[k], <<>>, ready', setbacks')
      BY <1>5, <3>1, <3>3, Zenon DEF FlipsInv, Live, Remembered
    <3>4. job' # NoJob
      <4>1. NoJob.then = "free"
        BY DEF NoJob
      <4> QED BY <3>2, <4>1
    <3> QED BY <1>3, <2>3, <2>5, <3>1, <3>2, <3>3, <3>4, Zenon DEF FlipsInv
  <2>6. CASE job.then # "create"
    <3>1. job.then \in {"narrate", "save"} /\ Live(job.id)
      BY <1>1, <1>2, <2>6, JobFields
    <3> QED BY <1>2, <1>3, <1>5, <2>2, <2>3, <2>4, <3>1, ProceedFlips
  <2> QED BY <2>5, <2>6
<1>8. CASE job.then # "create" /\ Proceed(job.then, job.id, Decide(d.s, Tail(job.todo) \o d.todo), 0)
  <2>1. d.todo \in {<<LoadIt>>, <<>>} /\ (d.todo = <<>> => d.s.state = "ended")
    BY <1>2, <1>3, SkipFailedDecides, SkipFailedEnds
  <2>2. job.then \in {"narrate", "save"} /\ Live(job.id)
    BY <1>1, <1>2, <1>8, JobFields
  <2> DEFINE r == Decide(d.s, Tail(job.todo) \o d.todo)
  <2> HIDE DEF d
  <2>3. r.s = d.s /\ r.todo = d.todo
    BY <1>3, <2>1, AfterTheLoad DEF Decide
  <2> HIDE DEF r
  <2>4. Remembered(r.s, r.todo, ready', setbacks)
    BY <1>3, <2>1, <2>3, LeftIsSmall, ShortTodos
  <2>5. Within(r.s, r.todo, 0, ready', spoken', setbacks)
    BY <1>3, <2>4, FreshIsWithin
  <2>6. Proceed(job.then, job.id, r, 0)
    BY <1>8, Zenon DEF r
  <2> QED BY <1>2, <1>3, <1>5, <2>2, <2>5, <2>6, ProceedFlips
<1>9. CASE job.then = "create" /\ job' = NoJob /\ sessions' = sessions /\ flips' = flips /\ setbacks' = setbacks
  <2>1. flips' = 0
    BY <1>3, <1>9
  <2>2. ASSUME NEW k \in SessionId, Live(k)'
        PROVE  Within(sessions'[k], <<>>, flips', ready', spoken', setbacks')
    <3>1. Remembered(sessions[k], <<>>, ready', setbacks)
      BY <1>5, <1>9, <2>2, Zenon DEF FlipsInv, Live, Remembered
    <3>2. Within(sessions[k], <<>>, 0, ready', spoken', setbacks)
      BY <1>3, <3>1, FreshIsWithin
    <3> QED BY <1>9, <2>1, <3>2, Zenon
  <2> QED BY <1>3, <1>9, <2>2, FlipsRest, Zenon
<1> QED
  BY <1>4, <1>7, <1>8, <1>9, Zenon DEF key, ghosts

\* One reload fewer is left once the sound was switched.
LEMMA SwitchedIsWithin ==
  ASSUME NEW s, NEW v, v = Current(s), s.state = "playing", s.loaded \in Key,
         NEW n \in Nat, NEW k \in Nat, NEW lang, NEW word, Asks(s, v, lang, word),
         NEW t, t.state # "ended", Current(t) = Current(s),
         t.narration = s.narration, t.forced = s.forced,
         NEW want, want = (Covers(s, v, spoken')
                           /\ (Form(v, word) = "ready" \/ (Form(v, word) = "preparing" /\ s.loaded.narrated))),
         want # s.loaded.narrated,
         Within(s, <<>>, n, ready, spoken, k)
  PROVE  Within(t, <<LoadIt>>, n + 1, ready', spoken', k)
<1>1. ready \subseteq ready' /\ spoken \subseteq spoken'
  BY AsksGrow
<1>2. Covers(s, v, spoken') => Covers(s, v, spoken)
  BY <1>1 DEF Covers
<1>3. v \in ready => Form(v, word) = "ready"
  BY DEF Form
<1>4. Covers(s, v, spoken') /\ Form(v, word) = "ready" => v \in ready'
  BY DEF Asks, Form
<1>5. s.loaded.narrated \in BOOLEAN
  BY KeyFields
<1>6. Left(s, <<>>, ready, spoken) =
        IF s.loaded.narrated THEN (IF Covers(s, v, spoken) /\ v \notin ready THEN 3 ELSE 1)
        ELSE IF Covers(s, v, spoken) THEN 2 ELSE 0
  <2>1. s.state # "ended"
    OBVIOUS
  <2> QED BY <2>1, ShortTodos, Zenon DEF Left
<1>7. Covers(t, v, spoken') <=> Covers(s, v, spoken')
  BY Zenon DEF Covers
<1>8. Left(t, <<LoadIt>>, ready', spoken') =
        IF ~Covers(s, v, spoken') THEN 0 ELSE IF v \in ready' THEN 1 ELSE 2
  BY <1>7, ShortTodos, Zenon DEF Left
<1>9. \A c, c2, r, r2, form, prep, had \in BOOLEAN :
        (c2 => c) /\ (c2 /\ form => r2) /\ (r => form) /\ (c2 /\ (form \/ (prep /\ had))) # had =>
          (IF ~c2 THEN 0 ELSE IF r2 THEN 1 ELSE 2) + 1
            <= (IF had THEN (IF c /\ ~r THEN 3 ELSE 1) ELSE IF c THEN 2 ELSE 0)
  OBVIOUS
<1>10. Left(t, <<LoadIt>>, ready', spoken') + 1 <= Left(s, <<>>, ready, spoken)
  BY <1>2, <1>3, <1>4, <1>5, <1>6, <1>8, <1>9
<1>11. /\ Left(t, <<LoadIt>>, ready', spoken') \in 0..3 /\ Left(s, <<>>, ready, spoken) \in 0..3
       /\ Bound(k) \in Nat
  <2>1. Bound(k) \in Nat
    BY DEF Bound
  <2> QED BY <2>1, LeftIsSmall, Zenon
<1>12. n + Left(s, <<>>, ready, spoken) <= Bound(k)
  BY Zenon DEF Within
<1>13. (n + 1) + Left(t, <<LoadIt>>, ready', spoken') <= Bound(k)
  BY <1>10, <1>11, <1>12
<1>14. Remembered(t, <<LoadIt>>, ready', k)
  BY ShortTodos, Zenon DEF Remembered
<1> QED
  BY <1>13, <1>14, Zenon DEF Within

LEMMA FollowNarrationFlips == ASSUME CastInv, FlipsInv, FollowNarration PROVE FlipsInv'
<1> DEFINE s == job.s
           v == Current(s)
<1>1. job # NoJob /\ job.todo = <<>> /\ job.then = "narrate" /\ RowsInv /\ heard \in Hearing
  BY DEF FollowNarration, At, CastInv, MemoryInv
<1>2. /\ Sound(job, heard) /\ WellFormed(s) /\ job.id \in SessionId /\ Live(job.id)
      /\ job \in [then : {"narrate", "save", "ahead"}, id : SessionId, s : Session, todo : Todo]
  BY <1>1, JobFields
<1>3. PICK lang \in BOOLEAN, word \in Words :
        /\ SwitchAsks(s, lang, word)
        /\ LET d == Switch(s, word)
           IN  IF d.todo = <<>> /\ AheadIsNarrated(d.s)
               THEN /\ job' = [job EXCEPT !.then = "ahead"]
                    /\ UNCHANGED <<sessions, flips, setbacks>>
               ELSE Proceed("save", job.id, d, IF d.todo = <<>> THEN flips ELSE flips + 1)
  BY Zenon DEF FollowNarration
<1>4. ready \subseteq ready' /\ spoken \subseteq spoken'
  <2>1. CASE s.state = "playing"
    BY <1>3, <2>1, AsksGrow DEF SwitchAsks
  <2>2. CASE s.state # "playing"
    BY <1>3, <2>2 DEF SwitchAsks
  <2> QED BY <2>1, <2>2
<1>5. flips \in Nat /\ setbacks \in Nat /\ Within(s, <<>>, flips, ready, spoken, setbacks)
      /\ flips <= Bound(setbacks)
  BY <1>1, FlipsFields
<1>6. Within(s, <<>>, flips, ready', spoken', setbacks)
  BY <1>4, <1>5, WithinShrinks
<1>7. CASE job' = [job EXCEPT !.then = "ahead"] /\ sessions' = sessions /\ flips' = flips /\ setbacks' = setbacks
  <2>1. job'.s = s /\ job'.todo = <<>> /\ job'.then = "ahead"
    BY <1>1, <1>2, <1>7
  <2>2. job' # NoJob
    <3>1. NoJob.then = "free"
      BY DEF NoJob
    <3> QED BY <2>1, <3>1
  <2>3. ASSUME NEW k \in SessionId, Live(k)' PROVE Remembered(sessions'[k], <<>>, ready', setbacks')
    BY <1>4, <1>7, <2>3, Zenon DEF FlipsInv, Live, Remembered
  <2>4. job'.then # "create"
    BY <2>1
  <2> QED BY <1>5, <1>6, <1>7, <2>1, <2>2, <2>3, <2>4, Zenon DEF FlipsInv
<1>8. CASE Proceed("save", job.id, Switch(s, word), IF Switch(s, word).todo = <<>> THEN flips ELSE flips + 1)
  <2> DEFINE d == Switch(s, word)
             want == Covers(s, v, spoken')
                     /\ (Form(v, word) = "ready" \/ (Form(v, word) = "preparing" /\ s.loaded.narrated))
  <2>1. CASE s.state = "playing" /\ want # s.loaded.narrated
    <3>1. d = Reload(s) /\ Asks(s, v, lang, word)
      BY <1>3, <2>1, Zenon DEF Switch, SwitchAsks
    <3>2. s.state # "ended" /\ s.loaded \in Key
      <4>1. s.state # "ended"
        BY <2>1
      <4> QED BY <1>1, <1>2, <4>1, ShortTodos DEF Sound, OnSong
    <3>3. /\ d.todo = <<LoadIt>> /\ d.s.state = "loading" /\ Current(d.s) = Current(s)
          /\ d.s.narration = s.narration /\ d.s.forced = s.forced
      BY <1>1, <1>2, <3>1, <3>2, ReloadDecides
    <3> HIDE DEF d
    <3>4. d.s.state # "ended" /\ d.todo # <<>>
      BY <3>3, ShortTodos
    <3>5. Within(d.s, <<LoadIt>>, flips + 1, ready', spoken', setbacks)
      <4>1. s.state = "playing" /\ want # s.loaded.narrated
        BY <2>1
      <4> QED BY <1>5, <3>1, <3>2, <3>3, <3>4, <4>1, SwitchedIsWithin
    <3>6. flips + 1 \in Nat /\ Proceed("save", job.id, d, flips + 1)
      BY <1>5, <1>8, <3>4 DEF d
    <3> QED BY <1>1, <1>2, <1>4, <3>3, <3>5, <3>6, ProceedFlips
  <2>2. CASE ~(s.state = "playing" /\ want # s.loaded.narrated)
    <3>1. d = Decide(s, <<>>)
      BY <2>2, Zenon DEF Switch
    <3>2. d.s = s /\ d.todo = <<>>
      BY <3>1 DEF Decide
    <3> HIDE DEF d
    <3>3. Proceed("save", job.id, d, flips)
      BY <1>8, <3>2, Zenon DEF d
    <3>4. Within(d.s, d.todo, flips, ready', spoken', setbacks)
      BY <1>6, <3>2
    <3> QED BY <1>1, <1>2, <1>4, <1>5, <3>3, <3>4, ProceedFlips
  <2> QED BY <2>1, <2>2
<1> QED
  BY <1>3, <1>7, <1>8, Zenon

LEMMA AskAheadFlips == ASSUME CastInv, FlipsInv, AskAhead PROVE FlipsInv'
<1>1. job # NoJob /\ job.todo = <<>> /\ job.then = "ahead" /\ RowsInv /\ Save(job.id, job.s, flips)
  BY DEF AskAhead, At, CastInv
<1>2. job.id \in SessionId /\ Live(job.id)
  BY <1>1, JobFields
<1>3. ready \subseteq ready' /\ spoken \subseteq spoken'
  BY AsksGrow DEF AskAhead
<1>4. flips \in Nat /\ setbacks \in Nat /\ Within(job.s, <<>>, flips, ready, spoken, setbacks)
  BY <1>1, FlipsFields
<1>5. Within(job.s, <<>>, flips, ready', spoken', setbacks)
  BY <1>3, <1>4, WithinShrinks
<1> QED
  BY <1>1, <1>2, <1>4, <1>5, SaveFlips

LEMMA CreateFlips == ASSUME CastInv, FlipsInv, Create PROVE FlipsInv'
<1>1. /\ job # NoJob /\ job.todo = <<>> /\ job.then = "create" /\ job' = NoJob
      /\ ready' = ready /\ spoken' = spoken /\ flips' = flips
  BY DEF Create, At, ghosts
<1>2. /\ flips = 0 /\ setbacks \in Nat /\ flips \in Nat
      /\ Within(job.s, <<>>, flips, ready, spoken, setbacks)
  BY <1>1, FlipsFields
<1>3. CASE setbacks' = setbacks + 1
  BY <1>1, <1>2, <1>3, FlipsFields, FlipsForgiven
<1>4. CASE /\ sessions' = [id \in DOMAIN sessions \cup {job.id} |->
                             IF id = job.id THEN job.s
                             ELSE IF Live(id) THEN Stored(End(sessions[id], "replaced"))
                             ELSE sessions[id]]
           /\ setbacks' = setbacks
  <2>1. \A k \in SessionId : Live(k)' => k = job.id
    BY <1>4, OnlyTheNewIsLive
  <2>2. sessions'[job.id] = job.s
    BY <1>4
  <2>3. \A k \in SessionId : Live(k)' => Within(sessions'[k], <<>>, flips', ready', spoken', setbacks')
    BY <1>1, <1>2, <1>4, <2>1, <2>2, Zenon
  <2>4. flips <= Bound(setbacks)
    BY FlipsFields
  <2> QED BY <1>1, <1>2, <1>4, <2>3, <2>4, FlipsRest, Zenon
<1> QED
  BY <1>3, <1>4, Zenon DEF Create, Fails

LEMMA StopSpeakerFlips == ASSUME CastInv, FlipsInv, StopSpeaker PROVE FlipsInv'
<1>1. /\ job # NoJob /\ job.todo # <<>> /\ Head(job.todo).do = "stop" /\ ready' = ready
      /\ spoken' = spoken /\ Proceed(job.then, job.id, Rest(job.s), flips)
  BY DEF StopSpeaker, Doing
<1>2. Head(job.todo).do # "load"
  BY <1>1
<1> QED
  BY <1>1, <1>2, RestFlips

LEMMA RecordFlips == ASSUME CastInv, FlipsInv, Record PROVE FlipsInv'
<1>1. /\ job # NoJob /\ job.todo # <<>> /\ Head(job.todo).do = "record" /\ ready' = ready
      /\ spoken' = spoken /\ Proceed(job.then, job.id, Rest(job.s), flips)
  BY DEF Record, Doing
<1>2. Head(job.todo).do # "load"
  BY <1>1
<1> QED
  BY <1>1, <1>2, RestFlips

LEMMA SpeakerMovesFlips == ASSUME FlipsInv, SpeakerMoves PROVE FlipsInv'
<1>1. /\ flips' = flips /\ setbacks' = setbacks /\ ready' = ready /\ spoken' = spoken
      /\ job' = job /\ sessions' = sessions
  BY DEF SpeakerMoves, memory
<1> QED
  BY <1>1, FlipsStay

LEMMA StartSessionFlips ==
  ASSUME FlipsInv, NEW id, NEW ids, NEW at, NEW start, NEW narration,
         StartSession(id, ids, at, start, narration)
  PROVE  FlipsInv'
<1> DEFINE from == IF StartOf(ids, at) # at THEN 0 ELSE start
           d == LoadAt(NewSession(QueueFor(ids), narration), StartOf(ids, at), from)
<1>1. /\ job = NoJob /\ job' = Work("create", id, d) /\ flips' = 0 /\ setbacks' = setbacks
      /\ sessions' = sessions /\ ready' = ready
      /\ \E told \in SUBSET (Vietnamese \cap Range(QueueFor(ids))) : spoken' = spoken \cup told
  BY Zenon DEF StartSession, CatalogTells
<1>2. d.todo = <<LoadIt>>
  BY DEF LoadAt, Decide
<1> HIDE DEF d
<1>3. job'.s = d.s /\ job'.todo = d.todo /\ job'.then = "create"
  BY <1>1, WorkIsSound
<1>4. setbacks \in Nat /\ 0 \in Nat
  BY FlipsFields
<1>5. d.todo \in Loads
  BY <1>2, ShortTodos
<1>6. Within(d.s, d.todo, 0, ready', spoken', setbacks)
  BY <1>4, <1>5, LeftIsSmall, FreshIsWithin
<1>7. 0 <= Bound(setbacks)
  BY <1>4 DEF Bound
<1>8. job' # NoJob
  BY <1>3 DEF NoJob
<1>9. \A k \in SessionId : Live(k)' => Remembered(sessions'[k], <<>>, ready', setbacks')
  BY <1>1, FlipsFields, Zenon DEF Live
<1> QED
  BY <1>1, <1>3, <1>4, <1>6, <1>7, <1>8, <1>9, Zenon DEF FlipsInv

LEMMA CommandsFlips ==
  ASSUME CastInv, FlipsInv, NEW id \in SessionId, Live(id), Commands(id) PROVE FlipsInv'
<1> DEFINE s == sessions[id]
<1>1. PICK d : Commanded(id, d)
  BY CommandsCommand
<1>2. /\ Proceed("save", id, d, 0) /\ ready \subseteq ready' /\ RowsInv
      /\ d.todo \in Loads \/ d.s.state = "ended" \/ SameForm(s, d.s)
  BY <1>1, Zenon DEF Commanded, CastInv
<1>3. heard \in Hearing
  BY DEF CastInv, MemoryInv
<1>4. s.state # "ended"
  BY <1>2, <1>3, LiveFields
<1>5. setbacks \in Nat /\ Remembered(s, <<>>, ready, setbacks) /\ 0 \in Nat
  BY FlipsFields
<1>6. Remembered(s, <<>>, ready', setbacks)
  BY <1>2, <1>5, Zenon DEF Remembered
<1>7. Remembered(d.s, d.todo, ready', setbacks)
  BY <1>2, <1>4, <1>5, <1>6, DecidedIsRemembered
<1>8. Within(d.s, d.todo, 0, ready', spoken', setbacks)
  BY <1>5, <1>7, FreshIsWithin
<1> QED
  BY <1>2, <1>5, <1>8, ProceedFlips

LEMMA TimePassesFlips ==
  ASSUME CastInv, FlipsInv, NEW id \in SessionId, TimePasses(id) PROVE FlipsInv'
<1> DEFINE s == sessions[id]
<1>1. /\ Live(id) /\ job = NoJob /\ job' = job /\ ready' = ready /\ spoken' = spoken
      /\ flips' = flips /\ setbacks' = setbacks /\ id \in DOMAIN sessions
  BY DEF TimePasses, memory, ghosts, bounds, Live
<1>2. s \in Session
  <2>1. RowsInv /\ heard \in Hearing
    BY DEF CastInv, MemoryInv
  <2> QED BY <1>1, <2>1, LiveFields, Zenon DEF WellFormed
<1>3. PICK row \in {[s EXCEPT !.silent = TRUE], [s EXCEPT !.late = TRUE]} :
        sessions' = [sessions EXCEPT ![id] = row]
  BY DEF TimePasses
<1>4. /\ row.state = s.state /\ Current(row) = Current(s) /\ row.loaded = s.loaded
      /\ row.narration = s.narration /\ row.forced = s.forced
  BY <1>2, <1>3 DEF Session, Current
<1>5. sessions'[id] = row /\ \A k : k # id => (Live(k)' <=> Live(k)) /\ sessions'[k] = sessions[k]
  BY <1>1, <1>3 DEF Live
<1>6. \A k \in SessionId : Live(k)' => Live(k)
  BY <1>1, <1>5, Zenon
<1>7. \A k \in SessionId : Live(k)' => Within(sessions'[k], <<>>, flips', ready', spoken', setbacks')
  <2>1. Within(row, <<>>, flips, ready, spoken, setbacks)
    BY <1>1, <1>4, FlipsFields, LeftReads, Zenon
  <2> QED BY <1>1, <1>5, <1>6, <2>1, FlipsFields, Zenon
<1> QED
  BY <1>1, <1>7, FlipsFields, FlipsRest, Zenon

\* More is known, of songs others play too, or less.
LEMMA AskedElsewhereFlips == ASSUME FlipsInv, AskedElsewhere PROVE FlipsInv'
<1>1. job' = job /\ sessions' = sessions /\ flips' = flips
  BY DEF AskedElsewhere, ghosts
<1>2. flips \in Nat /\ setbacks \in Nat /\ flips <= Bound(setbacks)
  BY FlipsFields
<1>3. CASE setbacks' = setbacks /\ ready \subseteq ready' /\ spoken \subseteq spoken'
  <2>1. \A s, todo : Within(s, todo, flips, ready, spoken, setbacks)
                       => Within(s, todo, flips, ready', spoken', setbacks)
    BY <1>2, <1>3, WithinShrinks
  <2>2. \A s, todo : Remembered(s, todo, ready, setbacks) => Remembered(s, todo, ready', setbacks)
    BY <1>3, Zenon DEF Remembered
  <2>3. \A id \in SessionId : Live(id)' => Live(id)
    BY <1>1, Zenon DEF Live
  <2> QED BY <1>1, <1>2, <1>3, <2>1, <2>2, <2>3, FlipsFields, Zenon DEF FlipsInv
<1>4. CASE setbacks' = setbacks + 1
  BY <1>1, <1>2, <1>4, FlipsFields, FlipsForgiven
<1> QED
  BY <1>3, <1>4 DEF AskedElsewhere, Fails

LEMMA CrashFlips == ASSUME FlipsInv, Crash PROVE FlipsInv'
<1>1. job' = NoJob /\ flips' = flips /\ setbacks' = setbacks + 1
  BY DEF Crash, Fails
<1> QED
  BY <1>1, FlipsFields, FlipsForgiven

LEMMA FlipsInvInit == ASSUME Init PROVE FlipsInv
<1>1. DOMAIN sessions = {} /\ job = NoJob /\ flips = 0 /\ setbacks = 0
  BY DEF Init
<1>2. 0 \in Nat /\ 0 <= Bound(0)
  BY DEF Bound
<1> QED
  BY <1>1, <1>2, Zenon DEF FlipsInv, Live

LEMMA FlipsInvStep == ASSUME CastInv, FlipsInv, [Next]_vars PROVE FlipsInv'
<1>1. CASE SpeakerMoves
  BY <1>1, SpeakerMovesFlips
<1>2. CASE AskedElsewhere \/ Crash
  BY <1>2, AskedElsewhereFlips, CrashFlips
<1>3. CASE HolderSteps
  BY <1>3, LoadSongFlips, StopSpeakerFlips, RecordFlips, FollowNarrationFlips, AskAheadFlips, CreateFlips
     DEF HolderSteps
<1>4. ASSUME NEW id \in SessionId, FollowSession(id) \/ TimePasses(id) \/ Starts(id) \/ (Live(id) /\ Commands(id))
      PROVE  FlipsInv'
  BY <1>4, FollowSessionFlips, TimePassesFlips, StartSessionFlips, CommandsFlips DEF Starts
<1>5. CASE UNCHANGED vars
  BY <1>5, FlipsStay, Zenon DEF vars, memory, ghosts, bounds
<1> QED
  BY <1>1, <1>2, <1>3, <1>4, <1>5, Zenon DEF Next

\* Left alone, the loop reloads a song at most twice to settle on its sound, and
\* three times more for every setback, for every speaker and every answer of the
\* gateway (Engine.narrationSwitch): the song's language is learnt once, and that
\* its narrated sound is ready is forgotten only by a restart, or when another
\* speaker's loop is answered otherwise.
THEOREM NarrationComesToRest == Spec => []NarrationSettles
<1>1. Init => FlipsInv
  BY FlipsInvInit
<1>2. CastInv /\ FlipsInv /\ [Next]_vars => FlipsInv'
  BY FlipsInvStep
<1>3. FlipsInv => NarrationSettles
  BY DEF FlipsInv, NarrationSettles, Bound
<1> QED
  BY <1>1, <1>2, <1>3, CastInvHolds, PTL DEF Spec
=============================================================================
