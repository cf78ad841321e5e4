----------------------------- MODULE SavedPins -----------------------------
(***************************************************************************)
(* The catalog's shelf: saved holds who keeps which video, videos.pinned    *)
(* whether anybody does, which is what the eviction sweep reads.  SetPinned *)
(* and DeleteUserData both write the two in one READ COMMITTED transaction, *)
(* and only their isolation keeps them in step.                             *)
(*                                                                          *)
(* One step is one statement.  A statement sees what was committed when it  *)
(* began and its own transaction's writes.  An UPDATE that meets a locked   *)
(* row waits, then reads that row again, but its subquery still sees what   *)
(* was committed when the statement began.  A member is not saving videos   *)
(* while their own profile is deleted.                                      *)
(***************************************************************************)
EXTENDS Naturals

CONSTANTS
  User, Video,
  Tx,          \* transactions that may run at once
  NoTx,        \* the holder of a free row lock
  MaxDeletes   \* bound: profiles deleted

ASSUME PinsAssumption == NoTx \notin Tx /\ MaxDeletes \in Nat

VARIABLES
  saved,     \* the committed rows of saved, as pairs <<user, video>>
  pinned,    \* the committed videos.pinned
  locked,    \* who holds the row lock of each video
  tx,        \* the transactions
  deletes    \* profiles deleted, for MaxDeletes

vars == <<saved, pinned, locked, tx, deletes>>

\* view: what the UPDATE sees of saved.  todo: the rows it has still to visit.
\* new: the values it has written, not yet committed.
NoWork == [pc |-> "idle", kind |-> "none", users |-> {}, videos |-> {}, view |-> {},
           todo |-> {}, new |-> [v \in {} |-> FALSE]]

Work == [pc     : {"idle", "lock", "shelf", "update", "visit"},
         kind   : {"none", "save", "unsave", "delete"},
         users  : SUBSET User,            \* whose shelf
         videos : SUBSET Video,           \* which videos of it
         view   : SUBSET (User \X Video),
         todo   : SUBSET Video,
         new    : UNION {[V -> BOOLEAN] : V \in SUBSET Video}]

PinsTypeOK ==
  /\ saved \subseteq User \X Video
  /\ pinned \in [Video -> BOOLEAN]
  /\ locked \in [Video -> Tx \cup {NoTx}]
  /\ tx \in [Tx -> Work]
  /\ deletes \in 0..MaxDeletes
  /\ \A v \in Video : locked[v] # NoTx => tx[locked[v]] # NoWork   \* none is leaked

IsKept(rows, v) == \E u \in User : <<u, v>> \in rows

Init ==
  /\ saved \in SUBSET (User \X Video)
  /\ pinned = [v \in Video |-> IsKept(saved, v)]
  /\ locked = [v \in Video |-> NoTx]
  /\ tx = [t \in Tx |-> NoWork]
  /\ deletes = 0

-----------------------------------------------------------------------------
\* saved as transaction t leaves it, over what others committed.
Shelf(t, rows) == LET own == tx[t].users \X tx[t].videos IN
                  IF tx[t].kind = "save" THEN rows \cup own ELSE rows \ own

Deleting(u) == \E t \in Tx : tx[t].kind = "delete" /\ u \in tx[t].users
Busy(u)     == \E t \in Tx : u \in tx[t].users

SetPinned(t, u, v, kind) ==
  /\ tx[t] = NoWork
  /\ ~Deleting(u)
  /\ tx' = [tx EXCEPT ![t].pc = "lock", ![t].kind = kind, ![t].users = {u}, ![t].videos = {v}]
  /\ UNCHANGED <<saved, pinned, locked, deletes>>

\* Variant: SELECT true without FOR UPDATE.
LockRowNot(t) ==
  /\ tx[t].pc = "lock"
  /\ tx' = [tx EXCEPT ![t].pc = "shelf"]
  /\ UNCHANGED <<saved, pinned, locked, deletes>>

\* SELECT true FROM videos ... FOR UPDATE
LockRow(t) ==
  /\ tx[t].pc = "lock"
  /\ \A v \in tx[t].videos : locked[v] = NoTx
  /\ locked' = [v \in Video |-> IF v \in tx[t].videos THEN t ELSE locked[v]]
  /\ tx' = [tx EXCEPT ![t].pc = "shelf"]
  /\ UNCHANGED <<saved, pinned, deletes>>

DeleteUserData(t, u) ==
  /\ deletes < MaxDeletes
  /\ tx[t] = NoWork
  /\ ~Busy(u)
  /\ deletes' = deletes + 1
  /\ tx' = [tx EXCEPT ![t].pc = "shelf", ![t].kind = "delete",
                      ![t].users = {u}, ![t].videos = Video]
  /\ UNCHANGED <<saved, pinned, locked>>

\* The INSERT or DELETE on saved: visible to others at the commit only.
WriteShelf(t) ==
  /\ tx[t].pc = "shelf"
  /\ tx' = [tx EXCEPT ![t].pc = "update"]
  /\ UNCHANGED <<saved, pinned, locked, deletes>>

(* UPDATE videos SET pinned = EXISTS (...) begins: its snapshot, and the    *)
(* rows it will visit, SetPinned's one or all that are pinned.              *)
BeginUpdate(t) ==
  /\ tx[t].pc = "update"
  /\ tx' = [tx EXCEPT ![t].pc   = "visit",
                      ![t].view = Shelf(t, saved),
                      ![t].todo = IF tx[t].kind = "delete" THEN {v \in Video : pinned[v]}
                                  ELSE tx[t].videos]
  /\ UNCHANGED <<saved, pinned, locked, deletes>>

VisitRow(t, v) ==
  /\ tx[t].pc = "visit"
  /\ v \in tx[t].todo
  /\ locked[v] \in {t, NoTx}
  /\ IF tx[t].kind = "delete" /\ ~pinned[v]          \* the WHERE, read again
     THEN /\ tx' = [tx EXCEPT ![t].todo = @ \ {v}]
          /\ UNCHANGED locked
     ELSE /\ tx' = [tx EXCEPT ![t].todo = @ \ {v},
                              ![t].new = [w \in DOMAIN @ \cup {v} |->
                                            IF w = v THEN IsKept(tx[t].view, v) ELSE @[w]]]
          /\ locked' = [locked EXCEPT ![v] = t]
  /\ UNCHANGED <<saved, pinned, deletes>>

Unlock(t) == locked' = [v \in Video |-> IF locked[v] = t THEN NoTx ELSE locked[v]]

Commit(t) ==
  /\ tx[t].pc = "visit"
  /\ tx[t].todo = {}
  /\ saved' = Shelf(t, saved)
  /\ pinned' = [v \in Video |-> IF v \in DOMAIN tx[t].new THEN tx[t].new[v] ELSE pinned[v]]
  /\ Unlock(t)
  /\ tx' = [tx EXCEPT ![t] = NoWork]
  /\ UNCHANGED deletes

\* Variant: an early return without the deferred Rollback.
RollbackForgotten(t) ==
  /\ tx[t] # NoWork
  /\ tx' = [tx EXCEPT ![t] = NoWork]
  /\ UNCHANGED <<saved, pinned, locked, deletes>>

\* A lost connection, or the victim of a deadlock between two UPDATEs.
Rollback(t) ==
  /\ tx[t] # NoWork
  /\ Unlock(t)
  /\ tx' = [tx EXCEPT ![t] = NoWork]
  /\ UNCHANGED <<saved, pinned, deletes>>

TxStep(t) ==
  \/ \E u \in User, v \in Video, kind \in {"save", "unsave"} : SetPinned(t, u, v, kind)
  \/ \E u \in User : DeleteUserData(t, u)
  \/ LockRow(t) \/ WriteShelf(t) \/ BeginUpdate(t)
  \/ \E v \in Video : VisitRow(t, v)
  \/ Commit(t) \/ Rollback(t)

Next == \E t \in Tx : TxStep(t)

Spec == Init /\ [][Next]_vars

-----------------------------------------------------------------------------
(* repository.go:1107-1112: pinned "is derived from the shelf ... the two   *)
(* can never drift", so the sweep spares exactly what somebody keeps.       *)
PinnedIffSaved == \A v \in Video : pinned[v] <=> IsKept(saved, v)

(* As long as no profile is deleted they do not: however many saves and     *)
(* unsaves of however many members overlap, and whichever of them roll      *)
(* back, a video is pinned exactly when somebody keeps it (SetPinned).      *)
SavesKeepPins == deletes = 0 => PinnedIffSaved
=============================================================================
