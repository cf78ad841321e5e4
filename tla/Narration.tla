------------------------------- MODULE Narration -------------------------------
(***************************************************************************)
(* The narration of one recorded video (GW/narration_manifest.go,           *)
(* narrated_stream.go, narrated_audio.go): passes over its caption lines    *)
(* that translate and speak them one by one, speakers that stream the song  *)
(* with the lines mixed in while a pass is still working, and the file that *)
(* is mixed when it is done.                                                *)
(*                                                                          *)
(* A step holds one lock or ends one call.  A line is one cue, and a block  *)
(* of the stream is as long as it; a clip is known by its line and voice.   *)
(* What is on disk of translations and clips only saves calls that might    *)
(* fail, and is left out with them.  A broadcast has passes of its own.     *)
(***************************************************************************)
EXTENDS Integers, Sequences, FiniteSetsExt

CONSTANTS
  Lines,        \* how many cues the caption file has
  Far,          \* narrationRetargetSeconds, in cues
  FirstBatch,   \* narrationFirstBatch
  BatchSize,    \* narrationBatchSize
  Voice,
  Runner,       \* bound: goroutines under way at once
  Stream,       \* speakers that stream
  Obj,          \* names of passes: more than can be held at once
  NoObj,
  Together,     \* bound: whether a speaker streams or waits for the file
  MaxEvents,    \* bound: what listeners and the household do
  MaxFaults     \* bound: calls that fail, crashes

Cue == 1..Lines

ASSUME NarrationAssumption ==
  /\ Lines \in Nat \ {0} /\ Far \in Nat \ {0}
  /\ FirstBatch \in Nat \ {0} /\ BatchSize \in Nat \ {0}
  /\ Voice # {} /\ IsFiniteSet(Runner) /\ IsFiniteSet(Stream) /\ IsFiniteSet(Obj)
  /\ Cardinality(Obj) > 1 + Cardinality(Runner) + Cardinality(Stream)
  /\ NoObj \notin Obj /\ Together \subseteq SUBSET {"stream", "file"}
  /\ MaxEvents \in Nat /\ MaxFaults \in Nat

VARIABLES
  captions,    \* the caption file is on disk
  voice,       \* the voice set for speech
  pass,        \* narration.passes of the video
  run,         \* the goroutines of passes, replaced ones included
  stream,      \* what each speaker was sent, and which lines its mixer has
  asker,       \* a request of prepareNarrated, and that the cast service was told ready
  files,       \* narrated-*.m4a in the video's directory, by what they are made from
  mixing,      \* narratedMixes.running, and how far each mix is
  failed,      \* narratedMixes.failed, less than narratedRetryAfter ago
  kinds,       \* bound: what speakers ask for in this behaviour
  events, faults

mixes  == <<files, mixing, failed>>
bounds == <<kinds, events, faults>>
vars   == <<captions, voice, pass, run, stream, asker, mixes, bounds>>

NoClips == [c \in {} |-> 0]
Clips   == UNION {[S -> Voice] : S \in SUBSET Cue}

NoPass   == [id |-> NoObj, status |-> "none", gen |-> 0, from |-> 1,
             known |-> FALSE, spoken |-> {}, clips |-> NoClips, rev |-> 0]
NoRun    == [pc |-> "free", id |-> NoObj, gen |-> 0, first |-> 1, nth |-> 1,
             voice |-> CHOOSE v \in Voice : TRUE, translated |-> FALSE, cancelled |-> FALSE]
NoStream == [pc |-> "idle", at |-> 1, seen |-> [id |-> NoObj, rev |-> 0], lines |-> NoClips,
             asked |-> FALSE, patient |-> TRUE]
NoAsk    == [pc |-> "idle", clips |-> NoClips]

Init ==
  /\ captions \in BOOLEAN /\ voice = CHOOSE v \in Voice : TRUE
  /\ pass = NoPass
  /\ run = [g \in Runner |-> NoRun]
  /\ stream = [s \in Stream |-> NoStream]
  /\ asker = NoAsk
  /\ files = {} /\ mixing = [k \in {} |-> "mixing"] /\ failed = {}
  /\ kinds \in Together /\ events = 0 /\ faults = 0

Event == events < MaxEvents /\ events' = events + 1 /\ UNCHANGED <<kinds, faults>>
Fault == faults < MaxFaults /\ faults' = faults + 1 /\ UNCHANGED <<kinds, events>>

Names == {pass.id} \cup {run[g].id : g \in Runner} \cup {stream[s].seen.id : s \in Stream}
Fresh == CHOOSE id \in Obj : id \notin Names

-----------------------------------------------------------------------------
(* startNarrationPass.                                                      *)

Near(a, b) == a - b < Far /\ b - a < Far

Launched(id, gen, from) ==
  [NoRun EXCEPT !.pc = "begin", !.id = id, !.gen = gen, !.first = from]

\* The context of the generation the pass is at.
Cancelled ==
  [g \in Runner |-> IF run[g].id = pass.id /\ run[g].gen = pass.gen
                    THEN [run[g] EXCEPT !.cancelled = TRUE] ELSE run[g]]

\* A pass that runs is moved, over the same object, which keeps its lines; one
\* that does not gives way to a new object.
StartPass(from) ==
  \/ /\ pass.status = "running" /\ Near(pass.from, from)
     /\ UNCHANGED <<pass, run>>
  \/ /\ pass.status = "running" /\ ~Near(pass.from, from)
     /\ pass' = [pass EXCEPT !.from = from, !.gen = @ + 1]
     /\ \E g \in Runner :
          /\ run[g].pc = "free"
          /\ run' = [Cancelled EXCEPT ![g] = Launched(pass.id, pass.gen + 1, from)]
  \/ /\ pass.status # "running"
     /\ pass' = [NoPass EXCEPT !.id = Fresh, !.status = "running", !.gen = 1, !.from = from]
     /\ \E g \in Runner :
          /\ run[g].pc = "free"
          /\ run' = [run EXCEPT ![g] = Launched(Fresh, 1, from)]

PressStart(from) ==
  /\ Event
  /\ StartPass(from)
  /\ UNCHANGED <<captions, voice, stream, asker, mixes>>

PressStop ==
  /\ Event
  /\ run' = Cancelled
  /\ UNCHANGED <<captions, voice, pass, stream, asker, mixes>>

-----------------------------------------------------------------------------
(* runNarration: from where the viewer is to the end, then the start.       *)

\* current(): the generation is all a goroutine knows of its pass.
Current(g) == pass.gen = run[g].gen

At(g, pc)     == run[g].pc = pc
RunUnchanged  == UNCHANGED <<captions, voice, stream, asker, mixes>>

\* ctx.Err() before a batch and before a line.
Goes(g, state) ==
  run' = [run EXCEPT ![g] = IF state.cancelled /\ state.pc \in {"translating", "speaking"}
                            THEN [state EXCEPT !.pc = "stopped"] ELSE state]

\* finishNarration and failNarration.
Report(g, status) ==
  /\ run' = [run EXCEPT ![g] = NoRun]
  /\ pass' = IF Current(g) THEN [pass EXCEPT !.status = status] ELSE pass

\* Variant: the lines before are not come to.
LineOfBeyond(g) == run[g].first + run[g].nth - 1

\* The lines from where the viewer is to the end, then those before; and
\* whether the nth of them is the first of its batch.
LineOf(g) == 1 + ((run[g].first + run[g].nth - 2) % Lines)

BeginsBatch(first, nth) ==
  LET ahead == Lines + 1 - first
      past  == IF nth <= ahead THEN nth - 1 ELSE nth - ahead - 1
  IN  past = 0 \/ (past >= FirstBatch /\ (past - FirstBatch) % BatchSize = 0)

Begins(g) ==
  /\ At(g, "begin")
  /\ \/ /\ captions
        /\ Goes(g, [run[g] EXCEPT !.pc = "translating", !.voice = voice])
        /\ pass' = IF Current(g) THEN [pass EXCEPT !.known = TRUE] ELSE pass
        /\ UNCHANGED bounds
     \/ ~captions /\ Report(g, "done") /\ UNCHANGED bounds
     \/ Fault /\ Report(g, "failed")
  /\ RunUnchanged

\* Variant: it goes without a word.
StopsSilently(g) == run' = [run EXCEPT ![g] = NoRun] /\ UNCHANGED pass

Stops(g) == Report(g, "idle")

Stopped(g) ==
  /\ At(g, "stopped")
  /\ Stops(g)
  /\ UNCHANGED bounds /\ RunUnchanged

\* A call of a pass that was cancelled may fail by that alone.
Fails(g) == IF run[g].cancelled THEN UNCHANGED bounds ELSE Fault

\* A batch that failed is not asked for again in this pass.
BatchEnds(g) ==
  /\ At(g, "translating")
  /\ \/ Goes(g, [run[g] EXCEPT !.pc = "speaking", !.translated = TRUE]) /\ UNCHANGED bounds
     \/ Goes(g, [run[g] EXCEPT !.pc = "speaking", !.translated = FALSE]) /\ Fails(g)
  /\ UNCHANGED pass /\ RunUnchanged

With(clips, c, v) == [d \in DOMAIN clips \cup {c} |-> IF d = c THEN v ELSE clips[d]]

\* Variant: a line that is spoken again does not count.
AddNarrationClipOnce(g) ==
  pass' = IF Current(g)
          THEN [pass EXCEPT !.rev = IF LineOf(g) \in DOMAIN pass.clips THEN @ ELSE @ + 1,
                            !.clips = With(pass.clips, LineOf(g), run[g].voice)]
          ELSE pass

AddNarrationClip(g) ==
  pass' = IF Current(g)
          THEN [pass EXCEPT !.rev = @ + 1, !.clips = With(pass.clips, LineOf(g), run[g].voice)]
          ELSE pass

LineEnds(g) ==
  /\ At(g, "speaking")
  /\ Goes(g, [run[g] EXCEPT !.pc = "spoken"])
  /\ \/ run[g].translated /\ AddNarrationClip(g) /\ UNCHANGED bounds
     \/ run[g].translated /\ Fails(g) /\ UNCHANGED pass
     \/ ~run[g].translated /\ UNCHANGED <<pass, bounds>>
  /\ RunUnchanged

\* Said or not, and on to the next line.
CueDone(g) ==
  /\ At(g, "spoken")
  /\ pass' = IF Current(g) THEN [pass EXCEPT !.spoken = @ \cup {LineOf(g)}] ELSE pass
  /\ LET next == run[g].nth + 1
     IN  IF next > Lines THEN Goes(g, [run[g] EXCEPT !.pc = "end"])
         ELSE Goes(g, [run[g] EXCEPT !.nth = next,
                         !.pc = IF BeginsBatch(run[g].first, next) THEN "translating" ELSE "speaking"])
  /\ UNCHANGED bounds /\ RunUnchanged

Ends(g) ==
  /\ At(g, "end")
  /\ Report(g, "done")
  /\ UNCHANGED bounds /\ RunUnchanged

RunGoesOn(g) ==
  Begins(g) \/ Stopped(g) \/ BatchEnds(g) \/ LineEnds(g) \/ CueDone(g) \/ Ends(g)

-----------------------------------------------------------------------------
(* streamNarrated and linesUntil: a block of the song at a time.            *)

StreamGoes(s, to)  == stream' = [stream EXCEPT ![s] = to]
StreamUnchanged    == UNCHANGED <<captions, voice, asker, mixes>>

Opens(s, from) ==
  /\ "stream" \in kinds /\ stream[s].pc = "idle" /\ Event
  /\ StreamGoes(s, [NoStream EXCEPT !.pc = "wait", !.at = from])
  /\ UNCHANGED <<pass, run>> /\ StreamUnchanged

Leaves(s) ==
  /\ stream[s].pc # "idle"
  /\ StreamGoes(s, NoStream)
  /\ UNCHANGED <<pass, run, bounds>> /\ StreamUnchanged

Ready(s) ==
  \/ pass.status \in {"done", "failed"}
  \/ pass.known /\ stream[s].at \in pass.spoken

\* linesSeen: the pass and its revision.
Now == [id |-> pass.id, rev |-> pass.rev]

\* Variant: of another pass, the same revision.
RefreshedByRev(s) == IF Now.rev # stream[s].seen.rev THEN pass.clips ELSE stream[s].lines

Refreshed(s) == IF Now # stream[s].seen THEN pass.clips ELSE stream[s].lines

\* The block goes out, with the lines the mixer then has.
SendsBlock(s) ==
  /\ stream[s].pc = "wait" /\ (Ready(s) \/ ~stream[s].patient)
  /\ StreamGoes(s, IF stream[s].at = Lines THEN NoStream
                   ELSE [stream[s] EXCEPT !.at = @ + 1, !.asked = FALSE,
                                          !.seen = Now, !.lines = Refreshed(s)])
  /\ UNCHANGED <<pass, run, bounds>> /\ StreamUnchanged

\* streamLineWait, over the whole stream.
PatienceEnds(s) ==
  /\ stream[s].pc = "wait" /\ ~Ready(s) /\ stream[s].patient
  /\ StreamGoes(s, [stream[s] EXCEPT !.patient = FALSE])
  /\ UNCHANGED <<pass, run, bounds>> /\ StreamUnchanged

\* No pass, or after streamRetargetAfter one that may work somewhere else.
WantsPass(s) ==
  /\ stream[s].pc = "wait" /\ ~Ready(s) /\ stream[s].patient
  /\ pass.status \in {"none", "idle"} \/ ~stream[s].asked
  /\ StreamGoes(s, [stream[s] EXCEPT !.pc = "ask"])
  /\ UNCHANGED <<pass, run, bounds>> /\ StreamUnchanged

AsksForPass(s) ==
  /\ stream[s].pc = "ask"
  /\ StartPass(stream[s].at)
  /\ StreamGoes(s, [stream[s] EXCEPT !.pc = "wait", !.asked = TRUE])
  /\ UNCHANGED bounds /\ StreamUnchanged

StreamGoesOn(s) ==
  SendsBlock(s) \/ PatienceEnds(s) \/ WantsPass(s) \/ AsksForPass(s)

-----------------------------------------------------------------------------
(* prepareNarrated and mixNarrated.                                         *)

AskUnchanged == UNCHANGED <<captions, voice, pass, run, stream>>

\* The cast service asks every second until it is told ready; only an answer
\* that begins something is a step.
Asks ==
  /\ "file" \in kinds /\ asker.pc = "idle"
  /\ \/ /\ pass.status \in {"none", "idle"}
        /\ asker' = [NoAsk EXCEPT !.pc = "start"]
     \/ /\ pass.status = "done" /\ pass.clips # NoClips
        /\ asker' = [pc |-> "look", clips |-> pass.clips]
  /\ UNCHANGED <<mixes, bounds>> /\ AskUnchanged

\* Ready is final: what becomes of the file then, nobody asks.
AskLooks ==
  /\ asker.pc = "look"
  /\ asker' = IF asker.clips \in files THEN [NoAsk EXCEPT !.pc = "told"]
              ELSE [asker EXCEPT !.pc = "mix"]
  /\ UNCHANGED <<mixes, bounds>> /\ AskUnchanged

AskStarts(from) ==
  /\ asker.pc = "start" /\ asker' = NoAsk
  /\ StartPass(from)
  /\ UNCHANGED <<captions, voice, stream, mixes, bounds>>

AskMixes ==
  /\ asker.pc = "mix" /\ asker' = NoAsk
  /\ mixing' = IF asker.clips \in failed \cup DOMAIN mixing THEN mixing
               ELSE [k \in DOMAIN mixing \cup {asker.clips} |->
                       IF k = asker.clips THEN "mixing" ELSE mixing[k]]
  /\ UNCHANGED <<files, failed, bounds>> /\ AskUnchanged

MixUnchanged == UNCHANGED <<captions, voice, pass, run, stream, asker>>

Without(k) == [j \in DOMAIN mixing \ {k} |-> mixing[j]]

\* Variant: the key stays taken.
MixFailsTaken(k) ==
  /\ failed' = failed \cup {k}
  /\ mixing' = [mixing EXCEPT ![k] = "over"]

MixFails(k) ==
  /\ failed' = failed \cup {k}
  /\ mixing' = Without(k)

Renames(k) ==
  /\ k \in DOMAIN mixing /\ mixing[k] = "mixing"
  /\ \/ /\ files' = files \cup {k}
        /\ mixing' = [mixing EXCEPT ![k] = "cleaning"]
        /\ UNCHANGED <<failed, bounds>>
     \/ Fault /\ MixFails(k) /\ UNCHANGED files
  /\ MixUnchanged

\* Every other mix of the video goes, earlier or not.
Cleans(k) ==
  /\ k \in DOMAIN mixing /\ mixing[k] = "cleaning"
  /\ files' = files \cap {k}
  /\ mixing' = Without(k) /\ failed' = failed \ {k}
  /\ UNCHANGED bounds /\ MixUnchanged

RetryElapses(k) ==
  /\ k \in failed /\ failed' = failed \ {k}
  /\ UNCHANGED <<files, mixing, bounds>> /\ MixUnchanged

-----------------------------------------------------------------------------
(* The household, and the process.                                          *)

SettingsChange ==
  /\ Event
  /\ voice' \in Voice \ {voice}
  /\ UNCHANGED <<captions, pass, run, stream, asker, mixes>>

CaptionsArrive ==
  /\ ~captions /\ Event
  /\ captions' = TRUE
  /\ UNCHANGED <<voice, pass, run, stream, asker, mixes>>

\* The catalog's sweep takes the mixes with the video's file.
Evicted ==
  /\ files # {} /\ Event
  /\ files' = {}
  /\ UNCHANGED <<mixing, failed>> /\ MixUnchanged

\* What the cast service was told it only forgets with its process.
CastRestarts ==
  /\ asker.pc = "told" /\ Event
  /\ asker' = NoAsk
  /\ UNCHANGED mixes /\ AskUnchanged

Crash ==
  /\ Fault
  /\ pass' = NoPass /\ run' = [g \in Runner |-> NoRun]
  /\ stream' = [s \in Stream |-> NoStream]
  /\ asker' = IF asker.pc = "told" THEN asker ELSE NoAsk
  /\ mixing' = [k \in {} |-> "mixing"] /\ failed' = {}
  /\ UNCHANGED <<captions, voice, files>>

Next ==
  \/ \E from \in Cue : PressStart(from) \/ AskStarts(from) \/ \E s \in Stream : Opens(s, from)
  \/ \E g \in Runner : RunGoesOn(g)
  \/ \E s \in Stream : StreamGoesOn(s) \/ Leaves(s)
  \/ \E k \in Clips : Renames(k) \/ Cleans(k) \/ RetryElapses(k)
  \/ PressStop \/ Asks \/ AskLooks \/ AskMixes
  \/ SettingsChange \/ CaptionsArrive \/ Evicted \/ CastRestarts \/ Crash

Spec == Init /\ [][Next]_vars
=============================================================================
