-------------------------- MODULE NarrationProperties --------------------------
(* What the narration of a video keeps.                                     *)
EXTENDS Narration

Pc == {"free", "begin", "translating", "speaking", "spoken", "end", "stopped"}

\* Passes, goroutines and streams are well formed; no mix is under way that was
\* not asked for of a set of lines.
NarrationTypeOK ==
  /\ pass.status \in {"none", "idle", "running", "done", "failed"}
  /\ (pass.id = NoObj) = (pass.status = "none")
  /\ pass.spoken \subseteq Cue /\ pass.clips \in Clips
  /\ \A g \in Runner : run[g].pc \in Pc /\ run[g].nth \in Cue /\ run[g].first \in Cue
  /\ \A s \in Stream : stream[s].at \in Cue /\ stream[s].lines \in Clips
  /\ asker \in [pc : {"idle", "start", "look", "mix", "told"}, clips : Clips]
  /\ files \cup failed \cup DOMAIN mixing \subseteq Clips \ {NoClips}

\* A pass that says it is running has a goroutine that will report for it:
\* while it says so, a start from about there does nothing and a request for
\* the narrated sound waits.
RunningIsRun ==
  pass.status = "running" =>
    \E g \in Runner : run[g].pc # "free" /\ run[g].id = pass.id /\ run[g].gen = pass.gen

\* Whenever a block is sent it is mixed with the manifest's lines of that
\* moment, whether the stream takes them anew or holds on to those it has,
\* however the pass was moved, replaced or spoken anew meanwhile (linesUntil:
\* "nil when they are still the ones `seen`").
BlockHasTheLines ==
  \A s \in Stream : stream[s].pc = "wait" => Refreshed(s) = pass.clips

-----------------------------------------------------------------------------
\* Calls return by their timeouts, and while a speaker has the song the cast
\* service asks every second for as long as it was not told ready.
Fairness ==
  /\ \A g \in Runner : WF_vars(RunGoesOn(g))
  /\ \A s \in Stream : WF_vars(StreamGoesOn(s))
  /\ WF_vars(Asks) /\ WF_vars(AskLooks) /\ WF_vars(AskMixes)
  /\ WF_vars(\E from \in Cue : AskStarts(from))
  /\ \A k \in Clips : WF_vars(Renames(k) \/ Cleans(k)) /\ WF_vars(RetryElapses(k))

FairSpec == Spec /\ Fairness

\* Once a pass stays done with lines spoken, the cast service is told ready in
\* the end, whichever older mixes end late and take this one with them, fail,
\* rest or are evicted before it looks.  That the mix stays is not promised: it
\* does not look again.
ReadyIsToldInTheEnd ==
  <>[]("file" \in kinds /\ pass.status = "done" /\ pass.clips # NoClips) => <>[](asker.pc = "told")
=============================================================================
