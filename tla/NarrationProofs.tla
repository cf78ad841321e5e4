---------------------------- MODULE NarrationProofs ----------------------------
(***************************************************************************)
(* For any number of lines, voices, goroutines and speakers: a pass that     *)
(* says it is running has a goroutine that will report for it, and a stream  *)
(* never mixes lines that are not the manifest's.  The revision of an object *)
(* only grows, its lines change only with it, and a new object has a name    *)
(* that no stream holds; so a stream that has seen the object at this        *)
(* revision has these lines.                                                 *)
(***************************************************************************)
EXTENDS NarrationProperties, FiniteSetTheorems, TLAPS

Status == {"none", "idle", "running", "done", "failed"}

APass   == [id : Obj \cup {NoObj}, status : Status, gen : Nat, from : Cue,
            known : BOOLEAN, spoken : SUBSET Cue, clips : Clips, rev : Nat]
ARun    == [pc : Pc, id : Obj \cup {NoObj}, gen : Nat, first : Cue, nth : Cue,
            voice : Voice, translated : BOOLEAN, cancelled : BOOLEAN]
AStream == [pc : {"idle", "wait", "ask"}, at : Cue,
            seen : [id : Obj \cup {NoObj}, rev : Nat], lines : Clips,
            asked : BOOLEAN, patient : BOOLEAN]

Shape ==
  /\ voice \in Voice /\ pass \in APass
  /\ run \in [Runner -> ARun]
  /\ stream \in [Stream -> AStream]

\* Nobody reports for an object that is not there.
Absent ==
  /\ pass.status = "none" => pass = NoPass
  /\ pass.id = NoObj => pass = NoPass
  /\ \A g \in Runner : run[g].pc # "free" => run[g].gen # 0

\* What a speaker s has seen, of the pass p.
Linked(s, p) ==
  s.seen.id = p.id => /\ s.seen.rev <= p.rev
                      /\ s.seen.rev = p.rev => s.lines = p.clips

Links == \A s \in Stream : Linked(stream[s], pass)

\* Mixes are made of lines.
Made ==
  /\ asker \in [pc : {"idle", "start", "look", "mix", "told"}, clips : Clips]
  /\ asker.pc \in {"look", "mix"} => asker.clips # NoClips
  /\ files \cup failed \cup DOMAIN mixing \subseteq Clips \ {NoClips}

NarrationInv == Shape /\ Absent /\ Links /\ Made /\ RunningIsRun

-----------------------------------------------------------------------------
(* There is always a name nobody holds.                                     *)
LEMMA UnionIsFew ==
  ASSUME NEW S, IsFiniteSet(S), NEW T, IsFiniteSet(T)
  PROVE  /\ IsFiniteSet(S \cup T)
         /\ Cardinality(S \cup T) \in Nat
         /\ Cardinality(S \cup T) <= Cardinality(S) + Cardinality(T)
<1>1. /\ IsFiniteSet(S \cup T)
      /\ Cardinality(S \cup T) = Cardinality(S) + Cardinality(T) - Cardinality(S \cap T)
  BY FS_Union
<1>2. IsFiniteSet(S \cap T)
  BY FS_Intersection
<1>3. /\ Cardinality(S) \in Nat /\ Cardinality(T) \in Nat
      /\ Cardinality(S \cap T) \in Nat /\ Cardinality(S \cup T) \in Nat
  BY <1>1, <1>2, FS_CardinalityType
<1> QED
  BY <1>1, <1>3

LEMMA NamesAreFew ==
  /\ IsFiniteSet(Names)
  /\ Cardinality(Names) \in Nat
  /\ Cardinality(Names) <= 1 + Cardinality(Runner) + Cardinality(Stream)
<1> DEFINE ran  == [g \in Runner |-> run[g].id]
           saw  == [s \in Stream |-> stream[s].seen.id]
           Rans == {run[g].id : g \in Runner}
           Saws == {stream[s].seen.id : s \in Stream}
<1>1. IsFiniteSet(Rans) /\ Cardinality(Rans) <= Cardinality(Runner)
  <2>1. ran \in Surjection(Runner, Rans)
    BY DEF Surjection
  <2> QED
    BY <2>1, NarrationAssumption, FS_Surjection
<1>2. IsFiniteSet(Saws) /\ Cardinality(Saws) <= Cardinality(Stream)
  <2>1. saw \in Surjection(Stream, Saws)
    BY DEF Surjection
  <2> QED
    BY <2>1, NarrationAssumption, FS_Surjection
<1>3. IsFiniteSet({pass.id}) /\ Cardinality({pass.id}) = 1
  BY FS_Singleton
<1>4. Names = {pass.id} \cup (Rans \cup Saws)
  BY DEF Names
<1> HIDE DEF Rans, Saws
<1>5. /\ Cardinality(Rans) \in Nat /\ Cardinality(Saws) \in Nat
      /\ Cardinality(Runner) \in Nat /\ Cardinality(Stream) \in Nat
  BY <1>1, <1>2, NarrationAssumption, FS_CardinalityType
<1>6. /\ IsFiniteSet(Rans \cup Saws) /\ Cardinality(Rans \cup Saws) \in Nat
      /\ Cardinality(Rans \cup Saws) <= Cardinality(Rans) + Cardinality(Saws)
  BY <1>1, <1>2, UnionIsFew
<1>7. /\ IsFiniteSet(Names) /\ Cardinality(Names) \in Nat
      /\ Cardinality(Names) <= 1 + Cardinality(Rans \cup Saws)
  BY <1>3, <1>4, <1>6, UnionIsFew
<1> QED
  BY <1>1, <1>2, <1>5, <1>6, <1>7

LEMMA FreshIsNobodys ==
  /\ Fresh \in Obj /\ Fresh # NoObj /\ Fresh # pass.id
  /\ \A s \in Stream : stream[s].seen.id # Fresh
<1>1. ~(Obj \subseteq Names)
  <2>1. SUFFICES ASSUME Obj \subseteq Names PROVE FALSE
    OBVIOUS
  <2>2. Cardinality(Obj) <= Cardinality(Names)
    BY <2>1, NamesAreFew, FS_Subset
  <2>3. /\ Cardinality(Obj) \in Nat /\ Cardinality(Runner) \in Nat
        /\ Cardinality(Stream) \in Nat
    BY NarrationAssumption, FS_CardinalityType
  <2> QED
    BY <2>2, <2>3, NamesAreFew, NarrationAssumption
<1>2. Fresh \in Obj /\ Fresh \notin Names
  BY <1>1 DEF Fresh
<1> QED
  BY <1>2, NarrationAssumption DEF Names

-----------------------------------------------------------------------------
(* The values that are built.                                               *)
LEMMA NoClipsIsClips ==
  NoClips \in Clips /\ DOMAIN NoClips = {}
BY DEF NoClips, Clips

LEMMA WithIsClips ==
  ASSUME NEW k \in Clips, NEW c \in Cue, NEW v \in Voice
  PROVE  With(k, c, v) \in Clips
<1>1. PICK S \in SUBSET Cue : k \in [S -> Voice]
  BY DEF Clips
<1>2. With(k, c, v) \in [S \cup {c} -> Voice]
  BY <1>1 DEF With
<1> QED
  BY <1>2 DEF Clips

LEMMA OneIsCue ==
  1 \in Cue /\ Lines \in Cue
BY NarrationAssumption DEF Cue

LEMMA EmptyOnes ==
  NoPass \in APass /\ NoRun \in ARun /\ NoStream \in AStream
<1>1. (CHOOSE v \in Voice : TRUE) \in Voice
  BY NarrationAssumption
<1> QED
  BY <1>1, OneIsCue, NoClipsIsClips
  DEF NoPass, NoRun, NoStream, APass, ARun, AStream, Status, Pc

LEMMA LaunchedIsRun ==
  ASSUME NEW id \in Obj, NEW gen \in Nat, gen # 0, NEW from \in Cue
  PROVE  /\ Launched(id, gen, from) \in ARun
         /\ Launched(id, gen, from).pc = "begin"
         /\ Launched(id, gen, from).id = id /\ Launched(id, gen, from).gen = gen
BY EmptyOnes DEF Launched, ARun, NoRun, Pc

LEMMA LineIsCue ==
  ASSUME NEW g \in Runner, run[g] \in ARun
  PROVE  LineOf(g) \in Cue
<1>1. run[g].first \in Nat /\ run[g].nth \in Nat /\ run[g].first >= 1 /\ run[g].nth >= 1
  BY DEF ARun, Cue
<1>2. run[g].first + run[g].nth - 2 \in Int
  BY <1>1
<1>3. (run[g].first + run[g].nth - 2) % Lines \in 0..(Lines - 1)
  BY <1>2, NarrationAssumption
<1> QED
  BY <1>3, NarrationAssumption DEF LineOf, Cue

-----------------------------------------------------------------------------
(* What a step does to the pass and its goroutines.                         *)

PassKept ==
  /\ pass' \in APass /\ run' \in [Runner -> ARun]
  /\ Absent' /\ RunningIsRun'
  /\ \A s \in Stream : Linked(stream[s], pass')

\* Nobody begins or ends, and the object is the same, further on.
LEMMA GoingOnKeeps ==
  ASSUME NarrationInv, run' \in [Runner -> ARun],
         \A h \in Runner : /\ run'[h].id = run[h].id /\ run'[h].gen = run[h].gen
                           /\ run'[h].pc = "free" <=> run[h].pc = "free",
         pass' \in APass, pass'.id = pass.id, pass'.gen = pass.gen,
         pass'.status = pass.status, pass'.rev >= pass.rev,
         pass'.rev = pass.rev => pass'.clips = pass.clips,
         pass = NoPass => pass' = NoPass
  PROVE  PassKept
<1>1. Absent'
  BY DEF NarrationInv, Absent, Shape
<1>2. RunningIsRun'
  <2>1. SUFFICES ASSUME pass'.status = "running"
                 PROVE  \E g \in Runner : run'[g].pc # "free" /\ run'[g].id = pass'.id
                                                              /\ run'[g].gen = pass'.gen
    BY DEF RunningIsRun
  <2>2. PICK g \in Runner : run[g].pc # "free" /\ run[g].id = pass.id /\ run[g].gen = pass.gen
    BY <2>1 DEF NarrationInv, RunningIsRun
  <2> QED
    BY <2>2
<1>3. ASSUME NEW s \in Stream PROVE Linked(stream[s], pass')
  <2>1. stream[s].seen.rev \in Nat /\ pass.rev \in Nat /\ pass'.rev \in Nat
    BY DEF NarrationInv, Shape, AStream, APass
  <2> QED
    BY <2>1 DEF NarrationInv, Links, Linked
<1> QED
  BY <1>1, <1>2, <1>3 DEF PassKept

LEMMA GoesKeepsRuns ==
  ASSUME Shape, NEW g \in Runner, NEW state \in ARun, Goes(g, state),
         state.id = run[g].id, state.gen = run[g].gen, state.pc # "free", run[g].pc # "free"
  PROVE  /\ run' \in [Runner -> ARun]
         /\ \A h \in Runner : /\ run'[h].id = run[h].id /\ run'[h].gen = run[h].gen
                              /\ run'[h].pc = "free" <=> run[h].pc = "free"
<1> DEFINE to == IF state.cancelled /\ state.pc \in {"translating", "speaking"}
                 THEN [state EXCEPT !.pc = "stopped"] ELSE state
<1>1. run' = [run EXCEPT ![g] = to]
  BY DEF Goes
<1>2. to \in ARun /\ to.id = state.id /\ to.gen = state.gen /\ to.pc # "free"
  BY DEF ARun, Pc
<1> HIDE DEF to
<1> QED
  BY <1>1, <1>2 DEF Shape

\* It reports for its pass, or for nothing.
LEMMA ReportKeeps ==
  ASSUME NarrationInv, NEW g \in Runner, run[g].pc # "free",
         NEW status \in {"idle", "done", "failed"}, Report(g, status)
  PROVE  PassKept
<1>1. run' = [run EXCEPT ![g] = NoRun] /\ run' \in [Runner -> ARun]
  BY EmptyOnes DEF Report, NarrationInv, Shape
<1>2. pass' = (IF Current(g) THEN [pass EXCEPT !.status = status] ELSE pass) /\ pass' \in APass
  BY DEF Report, NarrationInv, Shape, APass, Status
<1>3. pass'.id = pass.id /\ pass'.rev = pass.rev /\ pass'.clips = pass.clips /\ pass'.gen = pass.gen
  BY <1>2 DEF NarrationInv, Shape, APass
<1>4. pass = NoPass => ~Current(g)
  BY DEF NarrationInv, Absent, Current, NoPass
<1>5. Absent'
  <2>1. \A h \in Runner : run'[h].pc # "free" => run'[h].gen # 0
    BY <1>1 DEF NarrationInv, Absent, NoRun, Shape
  <2>2. pass.status = "none" \/ pass.id = NoObj => pass' = NoPass
    BY <1>2, <1>4 DEF NarrationInv, Absent
  <2>3. pass'.status = "none" => pass.status = "none"
    BY <1>2 DEF NarrationInv, Shape, APass
  <2> QED
    BY <1>3, <2>1, <2>2, <2>3 DEF Absent
<1>6. RunningIsRun'
  <2>1. SUFFICES ASSUME pass'.status = "running"
                 PROVE  \E h \in Runner : run'[h].pc # "free" /\ run'[h].id = pass'.id
                                                              /\ run'[h].gen = pass'.gen
    BY DEF RunningIsRun
  <2>2. ~Current(g) /\ pass' = pass
    BY <1>2, <2>1 DEF NarrationInv, Shape, APass
  <2>3. PICK h \in Runner : run[h].pc # "free" /\ run[h].id = pass.id /\ run[h].gen = pass.gen
    BY <2>1, <2>2 DEF NarrationInv, RunningIsRun
  <2>4. h # g
    BY <2>2, <2>3 DEF Current
  <2> QED
    BY <1>1, <2>2, <2>3, <2>4 DEF NarrationInv, Shape
<1>7. \A s \in Stream : Linked(stream[s], pass')
  BY <1>3 DEF NarrationInv, Links, Linked
<1> QED
  BY <1>1, <1>2, <1>5, <1>6, <1>7 DEF PassKept

LEMMA BeginsKeeps ==
  ASSUME NarrationInv, NEW g \in Runner, Begins(g)
  PROVE  PassKept
<1>1. At(g, "begin") /\ run[g].pc # "free"
  BY DEF Begins, At
<1>2. CASE captions /\ Goes(g, [run[g] EXCEPT !.pc = "translating", !.voice = voice])
             /\ pass' = IF Current(g) THEN [pass EXCEPT !.known = TRUE] ELSE pass
  <2> DEFINE to == [run[g] EXCEPT !.pc = "translating", !.voice = voice]
  <2>1. to \in ARun /\ to.id = run[g].id /\ to.gen = run[g].gen /\ to.pc # "free"
    BY DEF NarrationInv, Shape, ARun, Pc
  <2>2. /\ run' \in [Runner -> ARun]
        /\ \A h \in Runner : /\ run'[h].id = run[h].id /\ run'[h].gen = run[h].gen
                             /\ run'[h].pc = "free" <=> run[h].pc = "free"
    <3> HIDE DEF to
    <3> QED
      BY <1>1, <2>1, <1>2, GoesKeepsRuns DEF NarrationInv, to
  <2>3. /\ pass' \in APass /\ pass'.id = pass.id /\ pass'.gen = pass.gen
        /\ pass'.status = pass.status /\ pass'.rev >= pass.rev /\ pass'.clips = pass.clips
    <3>1. pass \in APass /\ pass.rev >= pass.rev
      BY DEF NarrationInv, Shape, APass
    <3>2. CASE pass' = pass
      BY <3>1, <3>2
    <3>3. CASE pass' = [pass EXCEPT !.known = TRUE]
      BY <3>1, <3>3 DEF APass
    <3> QED
      BY <1>2, <3>2, <3>3
  <2>4. pass = NoPass => pass' = NoPass
    BY <1>1, <1>2 DEF NarrationInv, Absent, Current, NoPass
  <2> QED
    BY <2>2, <2>3, <2>4, GoingOnKeeps
<1>3. CASE Report(g, "done") \/ Report(g, "failed")
  BY <1>1, <1>3, ReportKeeps
<1> QED
  BY <1>2, <1>3 DEF Begins

LEMMA BatchEndsKeeps ==
  ASSUME NarrationInv, NEW g \in Runner, BatchEnds(g)
  PROVE  PassKept
<1>1. At(g, "translating") /\ run[g].pc # "free" /\ pass' = pass
  BY DEF BatchEnds, At
<1>2. PICK t \in BOOLEAN : Goes(g, [run[g] EXCEPT !.pc = "speaking", !.translated = t])
  BY DEF BatchEnds
<1> DEFINE to == [run[g] EXCEPT !.pc = "speaking", !.translated = t]
<1>3. to \in ARun /\ to.id = run[g].id /\ to.gen = run[g].gen /\ to.pc # "free"
  BY DEF NarrationInv, Shape, ARun, Pc
<1>4. /\ run' \in [Runner -> ARun]
      /\ \A h \in Runner : /\ run'[h].id = run[h].id /\ run'[h].gen = run[h].gen
                           /\ run'[h].pc = "free" <=> run[h].pc = "free"
  <2>1. Goes(g, to)
    BY <1>2
  <2> HIDE DEF to
  <2> QED
    BY <1>1, <1>3, <2>1, GoesKeepsRuns DEF NarrationInv
<1>5. pass.rev >= pass.rev /\ pass \in APass
  BY DEF NarrationInv, Shape, APass
<1> QED
  BY <1>1, <1>4, <1>5, GoingOnKeeps

LEMMA LineEndsKeeps ==
  ASSUME NarrationInv, NEW g \in Runner, LineEnds(g)
  PROVE  PassKept
<1>1. At(g, "speaking") /\ run[g].pc # "free" /\ run[g] \in ARun
  BY DEF LineEnds, At, NarrationInv, Shape
<1> DEFINE to == [run[g] EXCEPT !.pc = "spoken"]
<1>2. to \in ARun /\ to.id = run[g].id /\ to.gen = run[g].gen /\ to.pc # "free"
  BY <1>1 DEF ARun, Pc
<1>3. /\ run' \in [Runner -> ARun]
      /\ \A h \in Runner : /\ run'[h].id = run[h].id /\ run'[h].gen = run[h].gen
                           /\ run'[h].pc = "free" <=> run[h].pc = "free"
  <2>1. Goes(g, to)
    BY DEF LineEnds
  <2> HIDE DEF to
  <2> QED
    BY <1>1, <1>2, <2>1, GoesKeepsRuns DEF NarrationInv
<1>4. pass \in APass /\ pass.rev \in Nat /\ pass.clips \in Clips
  BY DEF NarrationInv, Shape, APass
<1>5. CASE pass' = pass
  BY <1>3, <1>4, <1>5, GoingOnKeeps
<1>6. CASE Current(g) /\ pass' = [pass EXCEPT !.rev = @ + 1, !.clips = With(pass.clips, LineOf(g), run[g].voice)]
  <2> DEFINE clips == With(pass.clips, LineOf(g), run[g].voice)
  <2>1. clips \in Clips
    BY <1>1, <1>4, LineIsCue, WithIsClips DEF ARun
  <2>2. /\ pass' \in APass /\ pass'.id = pass.id /\ pass'.gen = pass.gen
        /\ pass'.status = pass.status /\ pass'.rev = pass.rev + 1
    <3>1. pass' = [pass EXCEPT !.rev = @ + 1, !.clips = clips]
      BY <1>6
    <3> DEFINE rev == pass.rev + 1
    <3>2. rev \in Nat
      BY <1>4
    <3>3. pass' = [pass EXCEPT !.rev = rev, !.clips = clips]
      BY <1>4, <3>1 DEF APass
    <3> HIDE DEF clips, rev
    <3>4. pass' \in APass
      BY <1>4, <2>1, <3>2, <3>3 DEF APass
    <3>5. pass'.rev = rev /\ UNCHANGED <<pass.id, pass.gen, pass.status>>
      BY <1>4, <3>3 DEF APass
    <3> QED
      BY <3>4, <3>5 DEF rev
  <2>3. pass # NoPass
    BY <1>1, <1>6 DEF NarrationInv, Absent, Current, NoPass
  <2>4. pass'.rev >= pass.rev /\ pass'.rev # pass.rev
    BY <1>4, <2>2
  <2> QED
    BY <1>3, <2>2, <2>3, <2>4, GoingOnKeeps
<1> QED
  BY <1>5, <1>6 DEF LineEnds, AddNarrationClip

LEMMA CueDoneKeeps ==
  ASSUME NarrationInv, NEW g \in Runner, CueDone(g)
  PROVE  PassKept
<1>1. At(g, "spoken") /\ run[g].pc # "free" /\ run[g] \in ARun
  BY DEF CueDone, At, NarrationInv, Shape
<1>2. PICK to \in ARun : /\ Goes(g, to) /\ to.id = run[g].id /\ to.gen = run[g].gen
                         /\ to.pc # "free"
  <2> DEFINE next == run[g].nth + 1
             pc   == IF BeginsBatch(run[g].first, next) THEN "translating" ELSE "speaking"
             last == [run[g] EXCEPT !.pc = "end"]
             more == [run[g] EXCEPT !.nth = next, !.pc = pc]
  <2>1. last \in ARun /\ last.id = run[g].id /\ last.gen = run[g].gen /\ last.pc # "free"
    BY <1>1 DEF ARun, Pc
  <2>2. CASE next > Lines
    <3>1. Goes(g, last)
      BY <2>2 DEF CueDone
    <3> HIDE DEF last
    <3> QED
      BY <2>1, <3>1
  <2>3. CASE ~(next > Lines)
    <3>1. Goes(g, more)
      BY <2>3 DEF CueDone
    <3>2. next \in Cue
      BY <1>1, <2>3, NarrationAssumption DEF ARun, Cue
    <3>3. pc \in {"translating", "speaking"}
      OBVIOUS
    <3>4. more \in ARun /\ more.id = run[g].id /\ more.gen = run[g].gen /\ more.pc # "free"
      <4> HIDE DEF next, pc
      <4> QED
        BY <1>1, <3>2, <3>3 DEF ARun, Pc
    <3> HIDE DEF more
    <3> QED
      BY <3>1, <3>4
  <2> QED
    BY <2>2, <2>3
<1>3. /\ run' \in [Runner -> ARun]
      /\ \A h \in Runner : /\ run'[h].id = run[h].id /\ run'[h].gen = run[h].gen
                           /\ run'[h].pc = "free" <=> run[h].pc = "free"
  BY <1>1, <1>2, GoesKeepsRuns DEF NarrationInv
<1>4. pass' = IF Current(g) THEN [pass EXCEPT !.spoken = @ \cup {LineOf(g)}] ELSE pass
  BY DEF CueDone
<1>5. /\ pass' \in APass /\ pass'.id = pass.id /\ pass'.gen = pass.gen
      /\ pass'.status = pass.status /\ pass'.rev >= pass.rev /\ pass'.clips = pass.clips
  BY <1>1, <1>4, LineIsCue DEF NarrationInv, Shape, APass
<1>6. pass = NoPass => pass' = NoPass
  BY <1>1, <1>4 DEF NarrationInv, Absent, Current, NoPass
<1> QED
  BY <1>3, <1>5, <1>6, GoingOnKeeps

LEMMA RunnerKeeps ==
  ASSUME NarrationInv, NEW g \in Runner, RunGoesOn(g)
  PROVE  PassKept
<1>1. CASE Stopped(g)
  BY <1>1, ReportKeeps DEF Stopped, Stops, At
<1>2. CASE Ends(g)
  BY <1>2, ReportKeeps DEF Ends, At
<1> QED
  BY <1>1, <1>2, BeginsKeeps, BatchEndsKeeps, LineEndsKeeps, CueDoneKeeps DEF RunGoesOn

LEMMA CancelledKeeps ==
  ASSUME Shape
  PROVE  /\ Cancelled \in [Runner -> ARun]
         /\ \A h \in Runner : /\ Cancelled[h].id = run[h].id /\ Cancelled[h].gen = run[h].gen
                              /\ Cancelled[h].pc = run[h].pc
BY DEF Shape, Cancelled, ARun

LEMMA StartPassKeeps ==
  ASSUME NarrationInv, NEW from \in Cue, StartPass(from)
  PROVE  PassKept
<1>1. CASE UNCHANGED <<pass, run>>
  <2>1. pass.rev >= pass.rev /\ pass \in APass
    BY DEF NarrationInv, Shape, APass
  <2> QED
    BY <1>1, <2>1, GoingOnKeeps DEF NarrationInv, Shape
<1>2. ASSUME pass.status = "running", NEW g \in Runner, run[g].pc = "free",
             pass' = [pass EXCEPT !.from = from, !.gen = @ + 1],
             run' = [Cancelled EXCEPT ![g] = Launched(pass.id, pass.gen + 1, from)]
      PROVE  PassKept
  <2>1. pass \in APass /\ pass # NoPass /\ pass.id \in Obj /\ pass.gen + 1 \in Nat \ {0}
    BY <1>2 DEF NarrationInv, Shape, APass, Absent, NoPass
  <2>2. /\ pass' \in APass /\ pass'.id = pass.id /\ pass'.gen = pass.gen + 1
        /\ pass'.status = "running" /\ pass'.rev = pass.rev /\ pass'.clips = pass.clips
    BY <1>2, <2>1 DEF APass
  <2> DEFINE new == Launched(pass.id, pass.gen + 1, from)
  <2>3. new \in ARun /\ new.pc = "begin" /\ new.id = pass.id /\ new.gen = pass.gen + 1
    BY <2>1, LaunchedIsRun
  <2> HIDE DEF new
  <2>4. run' \in [Runner -> ARun] /\ run'[g] = new
    BY <1>2, <2>3, CancelledKeeps DEF NarrationInv, new
  <2>5. Absent'
    <3>1. ASSUME NEW h \in Runner, run'[h].pc # "free" PROVE run'[h].gen # 0
      <4>1. CASE h = g
        BY <2>1, <2>3, <2>4, <4>1
      <4>2. CASE h # g
        <5>1. run'[h] = Cancelled[h]
          BY <1>2, <4>2, CancelledKeeps DEF NarrationInv
        <5> QED
          BY <3>1, <5>1, CancelledKeeps DEF NarrationInv, Absent
      <4> QED
        BY <4>1, <4>2
    <3> QED
      BY <2>1, <2>2, <3>1, NarrationAssumption DEF Absent
  <2>6. RunningIsRun'
    BY <2>2, <2>3, <2>4 DEF RunningIsRun
  <2>7. \A s \in Stream : Linked(stream[s], pass')
    BY <2>2 DEF NarrationInv, Links, Linked
  <2> QED
    BY <2>2, <2>4, <2>5, <2>6, <2>7 DEF PassKept
<1>3. ASSUME NEW g \in Runner, run[g].pc = "free",
             pass' = [NoPass EXCEPT !.id = Fresh, !.status = "running", !.gen = 1, !.from = from],
             run' = [run EXCEPT ![g] = Launched(Fresh, 1, from)]
      PROVE  PassKept
  <2>1. /\ pass' \in APass /\ pass'.id = Fresh /\ pass'.gen = 1 /\ pass'.status = "running"
    BY <1>3, EmptyOnes, FreshIsNobodys DEF APass, Status
  <2> DEFINE new == Launched(Fresh, 1, from)
  <2>2. new \in ARun /\ new.pc = "begin" /\ new.id = Fresh /\ new.gen = 1
    BY FreshIsNobodys, LaunchedIsRun
  <2> HIDE DEF new
  <2>3. run' \in [Runner -> ARun] /\ run'[g] = new /\ \A h \in Runner \ {g} : run'[h] = run[h]
    BY <1>3, <2>2 DEF NarrationInv, Shape, new
  <2>4. Absent'
    BY <2>1, <2>2, <2>3, FreshIsNobodys DEF NarrationInv, Absent
  <2>5. RunningIsRun'
    BY <2>1, <2>2, <2>3 DEF RunningIsRun
  <2>6. \A s \in Stream : Linked(stream[s], pass')
    BY <2>1, FreshIsNobodys DEF Linked
  <2> QED
    BY <2>1, <2>3, <2>4, <2>5, <2>6 DEF PassKept
<1> QED
  BY <1>1, <1>2, <1>3 DEF StartPass

-----------------------------------------------------------------------------
(* What a stream does.                                                      *)
LEMMA NoStreamIsLinked ==
  ASSUME Shape, Absent
  PROVE  Linked(NoStream, pass)
BY DEF Shape, Absent, Linked, NoStream, NoPass, APass

LEMMA StreamKeeps ==
  ASSUME NarrationInv, PassKept, NEW s \in Stream, NEW to \in AStream,
         StreamGoes(s, to), Linked(to, pass')
  PROVE  stream' \in [Stream -> AStream] /\ Links'
<1>1. stream' = [stream EXCEPT ![s] = to]
  BY DEF StreamGoes
<1>2. stream' \in [Stream -> AStream]
  BY <1>1 DEF NarrationInv, Shape
<1>3. ASSUME NEW r \in Stream PROVE Linked(stream[r], pass)'
  <2>1. stream'[r] = to \/ stream'[r] = stream[r]
    BY <1>1 DEF NarrationInv, Shape
  <2> QED
    BY <2>1 DEF PassKept, Linked
<1> QED
  BY <1>2, <1>3 DEF Links

LEMMA PassUnchangedKeeps ==
  ASSUME NarrationInv, UNCHANGED <<pass, run>>
  PROVE  PassKept
<1>1. pass.rev >= pass.rev /\ pass \in APass
  BY DEF NarrationInv, Shape, APass
<1> QED
  BY <1>1, GoingOnKeeps DEF NarrationInv, Shape

LEMMA StreamStepKeeps ==
  ASSUME NarrationInv, NEW s \in Stream,
         StreamGoesOn(s) \/ Leaves(s) \/ \E from \in Cue : Opens(s, from)
  PROVE  PassKept /\ stream' \in [Stream -> AStream] /\ Links'
<1>1. stream[s] \in AStream /\ Linked(stream[s], pass) /\ Linked(NoStream, pass)
  BY NoStreamIsLinked DEF NarrationInv, Shape, Links
<1>2. CASE \E from \in Cue : Opens(s, from)
  <2>1. PICK from \in Cue : Opens(s, from)
    BY <1>2
  <2> DEFINE to == [NoStream EXCEPT !.pc = "wait", !.at = from]
  <2>2. to \in AStream /\ to.seen = NoStream.seen /\ to.lines = NoStream.lines
    BY EmptyOnes DEF AStream, NoStream
  <2>3. StreamGoes(s, to) /\ UNCHANGED <<pass, run>>
    BY <2>1 DEF Opens
  <2>4. Linked(to, pass')
    BY <1>1, <2>2, <2>3 DEF Linked
  <2> HIDE DEF to
  <2> QED
    BY <2>2, <2>3, <2>4, PassUnchangedKeeps, StreamKeeps
<1>3. CASE Leaves(s)
  <2>1. StreamGoes(s, NoStream) /\ UNCHANGED <<pass, run>>
    BY <1>3 DEF Leaves
  <2> QED
    BY <1>1, <2>1, EmptyOnes, PassUnchangedKeeps, StreamKeeps
<1>4. CASE SendsBlock(s)
  <2>1. UNCHANGED <<pass, run>> /\ pass \in APass
    BY <1>4 DEF SendsBlock, NarrationInv, Shape
  <2>2. CASE stream[s].at = Lines
    <3>1. StreamGoes(s, NoStream)
      BY <1>4, <2>2 DEF SendsBlock
    <3> QED
      BY <1>1, <2>1, <3>1, EmptyOnes, PassUnchangedKeeps, StreamKeeps
  <2>3. CASE stream[s].at # Lines
    <3> DEFINE to == [stream[s] EXCEPT !.at = @ + 1, !.asked = FALSE,
                                       !.seen = Now, !.lines = Refreshed(s)]
    <3>1. StreamGoes(s, to)
      BY <1>4, <2>3 DEF SendsBlock
    <3>2. Refreshed(s) = pass.clips
      BY <1>1 DEF Refreshed, Now, Linked
    <3>3. stream[s].at + 1 \in Cue
      BY <1>1, <2>3, NarrationAssumption DEF AStream, Cue
    <3>4. Now \in [id : Obj \cup {NoObj}, rev : Nat]
      BY <2>1 DEF Now, APass
    <3>5. to \in AStream /\ to.seen = Now /\ to.lines = pass.clips
      BY <1>1, <2>1, <3>2, <3>3, <3>4 DEF AStream, APass
    <3>6. Linked(to, pass')
      BY <2>1, <3>5 DEF Linked, Now, APass
    <3> HIDE DEF to
    <3> QED
      BY <2>1, <3>1, <3>5, <3>6, PassUnchangedKeeps, StreamKeeps
  <2> QED
    BY <2>2, <2>3
<1>5. ASSUME PassKept, NEW to \in AStream, StreamGoes(s, to),
             to.seen = stream[s].seen, to.lines = stream[s].lines
      PROVE  PassKept /\ stream' \in [Stream -> AStream] /\ Links'
  <2>1. Linked(to, pass')
    BY <1>5 DEF PassKept, Linked
  <2> QED
    BY <1>5, <2>1, StreamKeeps
<1>6. CASE PatienceEnds(s)
  <2> DEFINE to == [stream[s] EXCEPT !.patient = FALSE]
  <2>1. to \in AStream /\ to.seen = stream[s].seen /\ to.lines = stream[s].lines
    BY <1>1 DEF AStream
  <2>2. StreamGoes(s, to) /\ UNCHANGED <<pass, run>>
    BY <1>6 DEF PatienceEnds
  <2> HIDE DEF to
  <2> QED
    BY <1>5, <2>1, <2>2, PassUnchangedKeeps
<1>7. CASE WantsPass(s)
  <2> DEFINE to == [stream[s] EXCEPT !.pc = "ask"]
  <2>1. to \in AStream /\ to.seen = stream[s].seen /\ to.lines = stream[s].lines
    BY <1>1 DEF AStream
  <2>2. StreamGoes(s, to) /\ UNCHANGED <<pass, run>>
    BY <1>7 DEF WantsPass
  <2> HIDE DEF to
  <2> QED
    BY <1>5, <2>1, <2>2, PassUnchangedKeeps
<1>8. CASE AsksForPass(s)
  <2> DEFINE to == [stream[s] EXCEPT !.pc = "wait", !.asked = TRUE]
  <2>1. to \in AStream /\ to.seen = stream[s].seen /\ to.lines = stream[s].lines
    BY <1>1 DEF AStream
  <2>2. StreamGoes(s, to) /\ StartPass(stream[s].at)
    BY <1>8 DEF AsksForPass
  <2>3. PassKept
    BY <1>1, <2>2, StartPassKeeps DEF AStream
  <2> HIDE DEF to
  <2> QED
    BY <1>5, <2>1, <2>2, <2>3
<1> QED
  BY <1>2, <1>3, <1>4, <1>6, <1>7, <1>8 DEF StreamGoesOn

-----------------------------------------------------------------------------
(* What requests and mixes do.                                              *)
LEMMA AskersKeep ==
  ASSUME NarrationInv,
         \/ Asks \/ AskLooks \/ AskMixes \/ CastRestarts \/ \E from \in Cue : AskStarts(from)
         \/ \E k \in Clips : Renames(k) \/ Cleans(k) \/ RetryElapses(k)
  PROVE  Made'
<1>0. pass.clips \in Clips /\ NoClips \in Clips
  BY NoClipsIsClips DEF NarrationInv, Shape, APass
<1>1. ASSUME asker' = NoAsk \/ asker' = [NoAsk EXCEPT !.pc = "told"],
             UNCHANGED <<files, mixing, failed>>
      PROVE  Made'
  BY <1>0, <1>1 DEF NoAsk, NarrationInv, Made
<1>2. CASE Asks
  <2>1. \/ asker' = [NoAsk EXCEPT !.pc = "start"]
        \/ asker' = [pc |-> "look", clips |-> pass.clips] /\ pass.clips # NoClips
    BY <1>2 DEF Asks
  <2> QED
    BY <1>0, <1>2, <2>1 DEF Asks, NoAsk, mixes, NarrationInv, Made
<1>3. CASE AskLooks
  <2>1. CASE asker' = [NoAsk EXCEPT !.pc = "told"]
    BY <1>1, <1>3, <2>1 DEF AskLooks, mixes
  <2>2. CASE asker' = [asker EXCEPT !.pc = "mix"]
    BY <1>3, <2>2 DEF AskLooks, mixes, NarrationInv, Made
  <2> QED
    BY <1>3, <2>1, <2>2 DEF AskLooks
<1>4. CASE AskMixes
  <2>1. asker.clips \in Clips \ {NoClips}
    BY <1>4 DEF AskMixes, NarrationInv, Made
  <2>2. DOMAIN mixing' \subseteq DOMAIN mixing \cup {asker.clips}
    BY <1>4 DEF AskMixes
  <2> QED
    BY <1>0, <1>4, <2>1, <2>2 DEF AskMixes, NarrationInv, Made, NoAsk
<1>5. CASE CastRestarts \/ \E from \in Cue : AskStarts(from)
  BY <1>1, <1>5 DEF CastRestarts, AskStarts, mixes
<1>6. ASSUME NEW k \in Clips, Renames(k) \/ Cleans(k) \/ RetryElapses(k)
      PROVE  Made'
  <2>1. files' \cup failed' \cup DOMAIN mixing' \subseteq files \cup failed \cup DOMAIN mixing
    BY <1>6 DEF Renames, Cleans, RetryElapses, MixFails, Without
  <2>2. asker' = asker
    BY <1>6 DEF Renames, Cleans, RetryElapses, MixUnchanged
  <2> QED
    BY <2>1, <2>2 DEF NarrationInv, Made
<1> QED
  BY <1>2, <1>3, <1>4, <1>5, <1>6

-----------------------------------------------------------------------------
(* The invariant.                                                           *)
LEMMA NarrationInvInit ==
  ASSUME Init
  PROVE  NarrationInv
<1>1. voice \in Voice
  BY NarrationAssumption DEF Init
<1>2. Shape
  BY <1>1, EmptyOnes DEF Init, Shape
<1>3. Absent
  BY DEF Init, Absent, NoRun
<1>4. Links
  BY <1>2, <1>3, NoStreamIsLinked DEF Init, Links
<1>5. Made
  BY NoClipsIsClips DEF Init, Made, NoAsk
<1>6. RunningIsRun
  BY DEF Init, RunningIsRun, NoPass
<1> QED
  BY <1>2, <1>3, <1>4, <1>5, <1>6 DEF NarrationInv

\* The pass and its goroutines went on, and nobody else moved.
LEMMA OthersKeep ==
  ASSUME NarrationInv, PassKept, voice' \in Voice, UNCHANGED stream, Made'
  PROVE  NarrationInv'
<1>1. Shape'
  BY DEF NarrationInv, Shape, PassKept
<1>2. Links'
  BY DEF PassKept, Links
<1> QED
  BY <1>1, <1>2 DEF NarrationInv, PassKept

LEMMA MadeIsKept ==
  ASSUME Made, UNCHANGED <<asker, files, mixing, failed>>
  PROVE  Made'
BY DEF Made

LEMMA NarrationInvStep ==
  ASSUME NarrationInv, [Next]_vars
  PROVE  NarrationInv'
<1>0. voice \in Voice
  BY DEF NarrationInv, Shape
<1>1. CASE UNCHANGED vars
  BY <1>0, <1>1, PassUnchangedKeeps, OthersKeep, MadeIsKept DEF NarrationInv, vars, mixes
<1>2. ASSUME NEW from \in Cue, PressStart(from)
      PROVE  NarrationInv'
  BY <1>0, <1>2, StartPassKeeps, OthersKeep, MadeIsKept DEF PressStart, NarrationInv, mixes
<1>3. ASSUME NEW from \in Cue, AskStarts(from)
      PROVE  NarrationInv'
  BY <1>0, <1>3, StartPassKeeps, OthersKeep, AskersKeep DEF AskStarts
<1>4. ASSUME NEW g \in Runner, RunGoesOn(g)
      PROVE  NarrationInv'
  <2>1. UNCHANGED <<voice, stream, asker, files, mixing, failed>>
    BY <1>4 DEF RunGoesOn, Begins, Stopped, BatchEnds, LineEnds, CueDone, Ends, RunUnchanged, mixes
  <2> QED
    BY <1>0, <1>4, <2>1, RunnerKeeps, OthersKeep, MadeIsKept DEF NarrationInv
<1>5. ASSUME NEW s \in Stream,
             StreamGoesOn(s) \/ Leaves(s) \/ \E from \in Cue : Opens(s, from)
      PROVE  NarrationInv'
  <2>1. PassKept /\ stream' \in [Stream -> AStream] /\ Links'
    BY <1>5, StreamStepKeeps
  <2>2. UNCHANGED <<voice, asker, files, mixing, failed>>
    BY <1>5 DEF StreamGoesOn, SendsBlock, PatienceEnds, WantsPass, AsksForPass, Leaves, Opens,
                StreamUnchanged, mixes
  <2>3. Shape'
    BY <1>0, <2>1, <2>2 DEF PassKept, Shape
  <2> QED
    BY <2>1, <2>2, <2>3, MadeIsKept DEF NarrationInv, PassKept
<1>6. CASE PressStop
  <2>1. PassKept
    <3>1. pass.rev >= pass.rev /\ pass \in APass
      BY DEF NarrationInv, Shape, APass
    <3> QED
      BY <1>6, <3>1, CancelledKeeps, GoingOnKeeps DEF PressStop, NarrationInv
  <2> QED
    BY <1>0, <1>6, <2>1, OthersKeep, MadeIsKept DEF PressStop, NarrationInv, mixes
<1>7. CASE \/ Asks \/ AskLooks \/ AskMixes \/ CastRestarts
           \/ \E k \in Clips : Renames(k) \/ Cleans(k) \/ RetryElapses(k)
  <2>1. UNCHANGED <<voice, pass, run, stream>>
    BY <1>7 DEF Asks, AskLooks, AskMixes, CastRestarts, AskUnchanged, Renames, Cleans, RetryElapses, MixUnchanged
  <2> QED
    BY <1>0, <1>7, <2>1, AskersKeep, PassUnchangedKeeps, OthersKeep
<1>8. CASE SettingsChange \/ CaptionsArrive
  <2>1. UNCHANGED <<pass, run, stream, asker, files, mixing, failed>> /\ voice' \in Voice
    BY <1>0, <1>8 DEF SettingsChange, CaptionsArrive, mixes
  <2> QED
    BY <2>1, PassUnchangedKeeps, OthersKeep, MadeIsKept DEF NarrationInv
<1>9. CASE Evicted
  <2>1. UNCHANGED <<voice, pass, run, stream>> /\ Made'
    BY <1>9 DEF Evicted, MixUnchanged, NarrationInv, Made
  <2> QED
    BY <1>0, <2>1, PassUnchangedKeeps, OthersKeep
<1>10. CASE Crash
  <2>1. Shape'
    BY <1>0, <1>10, EmptyOnes DEF Crash, Shape
  <2>2. Absent'
    BY <1>10 DEF Crash, Absent, NoRun
  <2>3. Links'
    <3>1. Linked(NoStream, NoPass)
      BY DEF Linked, NoStream, NoPass
    <3> QED
      BY <1>10, <3>1 DEF Crash, Links
  <2>4. Made'
    BY <1>10, NoClipsIsClips DEF Crash, NarrationInv, Made, NoAsk
  <2>5. RunningIsRun'
    BY <1>10 DEF Crash, RunningIsRun, NoPass
  <2> QED
    BY <2>1, <2>2, <2>3, <2>4, <2>5 DEF NarrationInv
<1> QED
  BY <1>1, <1>2, <1>3, <1>4, <1>5, <1>6, <1>7, <1>8, <1>9, <1>10 DEF Next

LEMMA NarrationInvMeans ==
  ASSUME NarrationInv
  PROVE  NarrationTypeOK /\ RunningIsRun /\ BlockHasTheLines
<1>1. NarrationTypeOK
  <2>1. (pass.id = NoObj) = (pass.status = "none")
    BY DEF NarrationInv, Absent, NoPass
  <2>2. pass.status \in Status /\ pass.spoken \subseteq Cue /\ pass.clips \in Clips
    BY DEF NarrationInv, Shape, APass
  <2>3. \A g \in Runner : run[g].pc \in Pc /\ run[g].nth \in Cue /\ run[g].first \in Cue
    BY DEF NarrationInv, Shape, ARun
  <2>4. \A s \in Stream : stream[s].at \in Cue /\ stream[s].lines \in Clips
    BY DEF NarrationInv, Shape, AStream
  <2> QED
    BY <2>1, <2>2, <2>3, <2>4 DEF NarrationInv, Made, NarrationTypeOK, Status
<1>2. BlockHasTheLines
  BY DEF NarrationInv, Links, Linked, BlockHasTheLines, Refreshed, Now
<1> QED
  BY <1>1, <1>2 DEF NarrationInv

LEMMA NarrationInvHolds ==
  Spec => []NarrationInv
<1>1. Init => NarrationInv
  BY NarrationInvInit
<1>2. NarrationInv /\ [Next]_vars => NarrationInv'
  BY NarrationInvStep
<1> QED
  BY <1>1, <1>2, PTL DEF Spec

\* Passes, goroutines, streams and mixes are well formed, whoever starts, stops
\* and listens (the handlers of narration_manifest.go, narrated_stream.go and
\* narrated_audio.go).
THEOREM NarrationIsTyped ==
  Spec => []NarrationTypeOK
<1>1. NarrationInv => NarrationTypeOK
  BY NarrationInvMeans
<1> QED
  BY <1>1, NarrationInvHolds, PTL

\* A pass that says it is running has a goroutine of its own that will report
\* for it (startNarrationPass, finishNarration and failNarration).
THEOREM RunningAlwaysRuns ==
  Spec => []RunningIsRun
<1>1. NarrationInv => RunningIsRun
  BY NarrationInvMeans
<1> QED
  BY <1>1, NarrationInvHolds, PTL

\* A stream sends every block with the lines the manifest has at that moment
\* (linesUntil, addNarrationClip).
THEOREM BlocksHaveTheLines ==
  Spec => []BlockHasTheLines
<1>1. NarrationInv => BlockHasTheLines
  BY NarrationInvMeans
<1> QED
  BY <1>1, NarrationInvHolds, PTL
=============================================================================
