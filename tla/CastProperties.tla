--------------------------- MODULE CastProperties ---------------------------
(***************************************************************************)
(* What the cast service keeps of one speaker, and that it implements the   *)
(* sessions the household is promised.                                      *)
(***************************************************************************)
EXTENDS CastEngine

\* Unless the very write of it was lost, what the speaker was handed last is what
\* the row of the session that has it says was loaded, in that form, and it is
\* the session's current song: after skips, refused loads, edits of the queue,
\* takeovers by other sessions and crashes in the middle (Session.LoadedMediaKey:
\* "what was handed to the speaker for the current item").
LoadedIsCurrent ==
  job = NoJob /\ ~unsaved =>
    \A id \in DOMAIN sessions :
      Live(id) => sessions[id].loaded = handed /\ handed.video = Current(sessions[id])

\* What is written to a listener's history never says more of a song than the speaker played of
\* it or was sent to in it, but for the slack near its end that a speaker is
\* given which does not say why it is idle: another song's position, read
\* while ours was loading, is never credited to ours.
HistoryWasHeard ==
  Doing("record") =>
    LET note == Head(job.todo)
    IN  note.pos <= heard[note.video] + EndSlack

\* Left alone, the loop reloads a song at most twice to settle on its sound,
\* to the narrated one, and back when it turns out to speak Vietnamese; a
\* restart, a lost write of the row, or an answer to somebody else that made it
\* forget what it knew of the song costs three more at most.
NarrationSettles == flips <= 2 + 3 * setbacks

\* The loop and the commands give the household its sessions: the rows of the
\* speaker, less what only the service reads.
Sessions == INSTANCE CastSessions WITH
  Queues   <- {QueueFor(ids) : ids \in Asked \cup Edits} \ {<<>>},
  sessions <- [id \in DOMAIN sessions |-> Public(sessions[id])]

SessionsSpec == Sessions!CastSessionsSpec
OneLiveSession == Sessions!OneLiveSession

-----------------------------------------------------------------------------
\* Run ticks for as long as the process lives, a call returns within its
\* timeout, and time passes: strongly, because the model only counts it between
\* two jobs.  Nothing is owed by the speaker or the remotes.
Fairness ==
  /\ \A id \in SessionId : WF_vars(FollowSession(id)) /\ SF_vars(TimePasses(id))
  /\ WF_vars(HolderSteps)

FairSpec == Spec /\ Fairness

\* A song that does not start is skipped in the end, and the session with it
\* when nothing is left, whatever the speaker says or does not say.
LoadingIsResolved ==
  \A id \in SessionId :
    (Live(id) /\ sessions[id].state = "loading")
      ~> ~(Live(id) /\ sessions[id].state = "loading")

\* A speaker that shows another song of ours than the row says, the one before
\* or one whose write was lost, is not followed for long: it comes to show the
\* one in the row, or the session moves on or is over.
WrongSongIsNoticed ==
  LET Wrong(id) == /\ Live(id) /\ speaker.online
                   /\ speaker.key \in Key /\ speaker.key # sessions[id].loaded
  IN  \A id \in SessionId : Wrong(id) ~> ~Wrong(id)

\* A speaker that is gone for good keeps no session.
LostSpeakerIsGivenUp ==
  <>[]~speaker.online => <>[](\A id \in SessionId : ~Live(id))
=============================================================================
