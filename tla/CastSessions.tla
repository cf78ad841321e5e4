---------------------------- MODULE CastSessions ----------------------------
(***************************************************************************)
(* What the household is promised of a speaker's sessions, whatever speaker *)
(* and service do: one at a time has the speaker; an ended one stays as it  *)
(* ended; its version says which song of which queue it is on, so that an   *)
(* edit made on an older one can be told (services/cast/migrations and      *)
(* services/cast/internal/domain/session.go).                               *)
(***************************************************************************)
EXTENDS Integers, Sequences

CONSTANTS
  SessionId,    \* session ids of one speaker
  Queues        \* the queues remotes may ask for, none empty

VARIABLE sessions    \* the speaker's rows of cast.sessions, by id

Playing == {"loading", "playing", "paused"}

Row == [state : Playing \cup {"ended"}, reason : STRING,
        queue : Queues, index : Nat \ {0}, version : Nat \ {0}]

Rows == UNION {[D -> Row] : D \in SUBSET SessionId}

Live(id) == id \in DOMAIN sessions /\ sessions[id].state \in Playing

CastSessionsInit == sessions = [id \in {} |-> [state |-> "ended"]]

\* A new session takes the speaker from the one that has it.
Begin(id, row) ==
  /\ id \notin DOMAIN sessions
  /\ row.state = "loading" /\ row.version = 1 /\ row.reason = ""
  /\ row.index \in DOMAIN row.queue
  /\ sessions' = [k \in DOMAIN sessions \cup {id} |->
                    IF k = id THEN row
                    ELSE IF Live(k)
                    THEN [sessions[k] EXCEPT !.state = "ended", !.reason = "replaced"]
                    ELSE sessions[k]]

\* The song or the queue moves, and the version with it.
Moved(old, new) ==
  /\ new.version > old.version
  /\ new.index \in DOMAIN new.queue

\* Playing, paused, loaded once more in its other form: the song stays.
Stays(old, new) ==
  /\ new.queue = old.queue
  /\ new.index = old.index
  /\ new.version = old.version

Go(id, row) ==
  /\ Live(id)
  /\ row.state \in Playing /\ row.reason = ""
  /\ Moved(sessions[id], row) \/ Stays(sessions[id], row)
  /\ sessions' = [sessions EXCEPT ![id] = row]

Finish(id, row) ==
  /\ Live(id)
  /\ row.state = "ended" /\ row.reason # ""
  /\ Moved(sessions[id], row) \/ Stays(sessions[id], row)
  /\ sessions' = [sessions EXCEPT ![id] = row]

CastSessionsNext ==
  \E id \in SessionId :
    /\ id \in DOMAIN sessions'
    /\ LET row == sessions'[id] IN Begin(id, row) \/ Go(id, row) \/ Finish(id, row)

CastSessionsSpec == CastSessionsInit /\ [][CastSessionsNext]_sessions

-----------------------------------------------------------------------------
\* The rows are well formed, the index inside the queue.
CastSessionsTypeOK ==
  /\ sessions \in Rows
  /\ \A id \in DOMAIN sessions : sessions[id].index \in DOMAIN sessions[id].queue

\* One session has the speaker at a time (sessions_one_active_per_device).
OneLiveSession ==
  \A k, l \in DOMAIN sessions : Live(k) /\ Live(l) => k = l
=============================================================================
