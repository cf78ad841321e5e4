-------------------------- MODULE SavedPinsProofs --------------------------
(***************************************************************************)
(* Saving and unsaving alone, any number of members, videos and overlapping *)
(* transactions: videos.pinned and the shelf agree at every commit.  The    *)
(* argument is the row lock.  Between a transaction's FOR UPDATE and its    *)
(* commit nobody else commits a change to its video's column of saved, so   *)
(* what its UPDATE saw is still so when it commits.  DeleteUserData takes   *)
(* no such lock first; the argument ends where the first one begins.  That  *)
(* no lock is ever leaked holds with deletions too, and comes last.         *)
(***************************************************************************)
EXTENDS SavedPins, TLAPS

Shape ==
  /\ saved \subseteq User \X Video
  /\ pinned \in [Video -> BOOLEAN]
  /\ locked \in [Video -> Tx \cup {NoTx}]
  /\ tx \in [Tx -> Work]

\* Rows s and r of saved agree on video v.
SameColumn(s, r, v) == \A u \in User : <<u, v>> \in s <=> <<u, v>> \in r

Holds(t) == \A v \in tx[t].videos : locked[v] = t

\* What its UPDATE saw of its video is still so, and what it wrote follows.
IsCurrent(t) ==
  /\ tx[t].todo \subseteq tx[t].videos
  /\ DOMAIN tx[t].new = tx[t].videos \ tx[t].todo
  /\ \A v \in tx[t].videos : SameColumn(tx[t].view, Shelf(t, saved), v)
  /\ \A v \in DOMAIN tx[t].new : tx[t].new[v] = IsKept(tx[t].view, v)

TxInv(t) ==
  /\ tx[t].kind # "delete"
  /\ tx[t].pc \in {"shelf", "update", "visit"} => Holds(t)
  /\ tx[t].pc # "visit" => DOMAIN tx[t].new = {}
  /\ tx[t].pc = "visit" => IsCurrent(t)

PinsInv == Shape /\ (\A t \in Tx : TxInv(t)) /\ PinnedIffSaved

-----------------------------------------------------------------------------
LEMMA NoWorkIsWork == NoWork \in Work
<1>1. NoWork.new \in [{} -> BOOLEAN] /\ {} \in SUBSET Video
  BY DEF NoWork
<1>2. NoWork.new \in UNION {[V -> BOOLEAN] : V \in SUBSET Video}
  BY <1>1
<1> QED
  BY <1>2 DEF NoWork, Work

\* One field of a transaction at a time.
LEMMA WorkFields ==
  ASSUME NEW r \in Work
  PROVE  /\ \A x \in {"idle", "lock", "shelf", "update", "visit"} : [r EXCEPT !.pc = x] \in Work
         /\ \A x \in {"save", "unsave", "delete"} : [r EXCEPT !.kind = x] \in Work
         /\ \A x \in SUBSET User : [r EXCEPT !.users = x] \in Work
         /\ \A x \in SUBSET Video : [r EXCEPT !.videos = x] \in Work
         /\ \A x \in SUBSET (User \X Video) : [r EXCEPT !.view = x] \in Work
         /\ \A x \in SUBSET Video : [r EXCEPT !.todo = x] \in Work
         /\ \A x \in UNION {[V -> BOOLEAN] : V \in SUBSET Video} : [r EXCEPT !.new = x] \in Work
<1>1. \A x \in {"idle", "lock", "shelf", "update", "visit"} : [r EXCEPT !.pc = x] \in Work
  BY DEF Work
<1>2. \A x \in {"save", "unsave", "delete"} : [r EXCEPT !.kind = x] \in Work
  BY DEF Work
<1>3. \A x \in SUBSET User : [r EXCEPT !.users = x] \in Work
  BY DEF Work
<1>4. \A x \in SUBSET Video : [r EXCEPT !.videos = x] \in Work
  BY DEF Work
<1>5. \A x \in SUBSET (User \X Video) : [r EXCEPT !.view = x] \in Work
  BY DEF Work
<1>6. \A x \in SUBSET Video : [r EXCEPT !.todo = x] \in Work
  BY DEF Work
<1>7. \A x \in UNION {[V -> BOOLEAN] : V \in SUBSET Video} : [r EXCEPT !.new = x] \in Work
  BY DEF Work
<1> QED
  BY <1>1, <1>2, <1>3, <1>4, <1>5, <1>6, <1>7

LEMMA SameColumnSameAnswer ==
  ASSUME NEW s, NEW r, NEW v, SameColumn(s, r, v) PROVE IsKept(s, v) <=> IsKept(r, v)
BY DEF SameColumn, IsKept

\* What a step of t leaves of the other transactions.
LEMMA OthersKeep ==
  ASSUME NEW t \in Tx, NEW s \in Tx, TxInv(s), tx'[s] = tx[s], tx \in [Tx -> Work],
         \A v \in Video : locked[v] = s =>
            locked'[v] = s /\ SameColumn(saved, saved', v)
  PROVE  TxInv(s)'
<1>1. tx[s].videos \subseteq Video
  BY DEF Work
<1>2. tx[s].pc \in {"shelf", "update", "visit"} => Holds(s)'
  BY <1>1 DEF TxInv, Holds
<1>3. ASSUME tx[s].pc = "visit" PROVE IsCurrent(s)'
  <2>1. ASSUME NEW v \in tx[s].videos
        PROVE  SameColumn(Shelf(s, saved), Shelf(s, saved)', v)
    <3>1. SameColumn(saved, saved', v)
      BY <1>1, <1>3 DEF TxInv, Holds
    <3> QED
      BY <3>1 DEF SameColumn, Shelf
  <2>2. ASSUME NEW v \in tx[s].videos
        PROVE  SameColumn(tx[s].view, Shelf(s, saved)', v)
    BY <1>3, <2>1 DEF TxInv, IsCurrent, SameColumn
  <2> QED
    BY <1>3, <2>2 DEF TxInv, IsCurrent, SameColumn
<1> QED
  BY <1>2, <1>3 DEF TxInv

\* A step of t that commits nothing.
LEMMA UncommittedKeeps ==
  ASSUME PinsInv, NEW t \in Tx, UNCHANGED <<saved, pinned>>, tx' \in [Tx -> Work],
         \A s \in Tx \ {t} : tx'[s] = tx[s],
         locked' \in [Video -> Tx \cup {NoTx}],
         \A v \in Video, s \in Tx \ {t} : locked[v] = s => locked'[v] = s,
         TxInv(t)'
  PROVE  PinsInv'
<1>1. ASSUME NEW s \in Tx, s # t PROVE TxInv(s)'
  BY <1>1, OthersKeep DEF PinsInv, Shape, SameColumn
<1> QED
  BY <1>1 DEF PinsInv, Shape, PinnedIffSaved

LEMMA PinsInvInit == Init => PinsInv
<1> SUFFICES ASSUME Init PROVE PinsInv
  OBVIOUS
<1>1. Shape
  BY NoWorkIsWork DEF Init, Shape, IsKept
<1>2. ASSUME NEW t \in Tx PROVE TxInv(t)
  BY DEF Init, TxInv, NoWork
<1> QED
  BY <1>1, <1>2 DEF Init, PinsInv, PinnedIffSaved

-----------------------------------------------------------------------------
LEMMA SetPinnedKeeps ==
  ASSUME PinsInv, NEW t \in Tx, NEW u \in User, NEW v \in Video, NEW kind \in {"save", "unsave"},
         SetPinned(t, u, v, kind)
  PROVE  PinsInv'
<1>1. tx \in [Tx -> Work] /\ tx[t] = NoWork
  BY DEF PinsInv, Shape, SetPinned
<1>2. tx' \in [Tx -> Work] /\ \A s \in Tx \ {t} : tx'[s] = tx[s]
  <2> DEFINE r1 == [tx[t] EXCEPT !.pc = "lock"]
             r2 == [r1 EXCEPT !.kind = kind]
             r3 == [r2 EXCEPT !.users = {u}]
             to == [r3 EXCEPT !.videos = {v}]
  <2>1. r1 \in Work
    BY <1>1, WorkFields
  <2>2. r2 \in Work
    BY <2>1, WorkFields
  <2>3. r3 \in Work
    BY <2>2, WorkFields
  <2>4. to \in Work
    BY <2>3, WorkFields
  <2>5. tx' = [s \in Tx |-> IF s = t THEN to ELSE tx[s]]
    BY <1>1, Zenon DEF SetPinned
  <2> QED
    BY <1>1, <2>4, <2>5, Zenon
<1>3. tx'[t].pc = "lock" /\ tx'[t].kind = kind /\ tx'[t].new = tx[t].new
  BY <1>1 DEF SetPinned, Work
<1>4. TxInv(t)'
  BY <1>1, <1>3 DEF TxInv, NoWork
<1> QED
  BY <1>2, <1>4, UncommittedKeeps DEF SetPinned, PinsInv, Shape

LEMMA LockRowKeeps == ASSUME PinsInv, NEW t \in Tx, LockRow(t) PROVE PinsInv'
<1>1. tx \in [Tx -> Work] /\ TxInv(t)
  BY DEF PinsInv, Shape
<1>2. tx' \in [Tx -> Work] /\ \A s \in Tx \ {t} : tx'[s] = tx[s]
  BY <1>1 DEF LockRow, Work
<1>3. /\ tx'[t].pc = "shelf" /\ tx'[t].kind = tx[t].kind
      /\ tx'[t].videos = tx[t].videos /\ tx'[t].new = tx[t].new
  BY <1>1 DEF LockRow, Work
<1>4. tx[t].videos \subseteq Video
  BY <1>1 DEF Work
<1>5. TxInv(t)'
  BY <1>1, <1>3, <1>4 DEF TxInv, Holds, LockRow
<1>6. locked' \in [Video -> Tx \cup {NoTx}]
  BY DEF LockRow, PinsInv, Shape
<1>7. \A v \in Video, s \in Tx \ {t} : locked[v] = s => locked'[v] = s
  BY PinsAssumption DEF LockRow
<1> QED
  BY <1>2, <1>5, <1>6, <1>7, UncommittedKeeps DEF LockRow

LEMMA WriteShelfKeeps == ASSUME PinsInv, NEW t \in Tx, WriteShelf(t) PROVE PinsInv'
<1>1. tx \in [Tx -> Work] /\ TxInv(t)
  BY DEF PinsInv, Shape
<1>2. tx' \in [Tx -> Work] /\ \A s \in Tx \ {t} : tx'[s] = tx[s]
  BY <1>1 DEF WriteShelf, Work
<1>3. /\ tx'[t].pc = "update" /\ tx'[t].kind = tx[t].kind
      /\ tx'[t].videos = tx[t].videos /\ tx'[t].new = tx[t].new
  BY <1>1 DEF WriteShelf, Work
<1>4. TxInv(t)'
  BY <1>1, <1>3 DEF TxInv, Holds, WriteShelf
<1> QED
  BY <1>2, <1>4, UncommittedKeeps DEF WriteShelf, PinsInv, Shape
LEMMA BeginUpdateKeeps == ASSUME PinsInv, NEW t \in Tx, BeginUpdate(t) PROVE PinsInv'
<1>1. tx \in [Tx -> Work] /\ TxInv(t)
  BY DEF PinsInv, Shape
<1>2. Shelf(t, saved) \subseteq User \X Video
  <2>1. tx[t].users \subseteq User /\ tx[t].videos \subseteq Video
    BY <1>1 DEF Work
  <2> QED
    BY <2>1 DEF Shelf, PinsInv, Shape
<1>3. tx' = [tx EXCEPT ![t].pc = "visit", ![t].view = Shelf(t, saved), ![t].todo = tx[t].videos]
  BY <1>1 DEF BeginUpdate, TxInv
<1>4. tx' \in [Tx -> Work] /\ \A s \in Tx \ {t} : tx'[s] = tx[s]
  <2> DEFINE r1 == [tx[t] EXCEPT !.pc = "visit"]
             r2 == [r1 EXCEPT !.view = Shelf(t, saved)]
             to == [r2 EXCEPT !.todo = tx[t].videos]
  <2>0. tx[t].videos \in SUBSET Video
    BY <1>1 DEF Work
  <2>1. r1 \in Work
    BY <1>1, WorkFields
  <2>2. r2 \in Work
    BY <1>2, <2>1, WorkFields
  <2>3. to \in Work
    BY <2>0, <2>2, WorkFields
  <2>4. tx' = [s \in Tx |-> IF s = t THEN to ELSE tx[s]]
    BY <1>1, <1>3, Zenon
  <2> QED
    BY <1>1, <2>3, <2>4, Zenon
<1>5. /\ tx'[t].pc = "visit" /\ tx'[t].kind = tx[t].kind /\ tx'[t].users = tx[t].users
      /\ tx'[t].videos = tx[t].videos /\ tx'[t].new = tx[t].new
      /\ tx'[t].view = Shelf(t, saved) /\ tx'[t].todo = tx[t].videos
  BY <1>1, <1>3 DEF Work
<1>6. Shelf(t, saved)' = Shelf(t, saved)
  BY <1>5 DEF Shelf, BeginUpdate
<1>7. TxInv(t)'
  BY <1>1, <1>5, <1>6 DEF TxInv, Holds, IsCurrent, SameColumn, BeginUpdate
<1> QED
  BY <1>4, <1>7, UncommittedKeeps DEF BeginUpdate, PinsInv, Shape

LEMMA VisitRowKeeps ==
  ASSUME PinsInv, NEW t \in Tx, NEW v \in Video, VisitRow(t, v) PROVE PinsInv'
<1> DEFINE new == [w \in DOMAIN tx[t].new \cup {v} |->
                     IF w = v THEN IsKept(tx[t].view, v) ELSE tx[t].new[w]]
<1>1. tx \in [Tx -> Work] /\ TxInv(t) /\ tx[t].pc = "visit" /\ IsCurrent(t) /\ Holds(t)
  BY DEF PinsInv, Shape, VisitRow, TxInv
<1>2. new \in UNION {[V -> BOOLEAN] : V \in SUBSET Video}
  <2>1. tx[t].new \in UNION {[V -> BOOLEAN] : V \in SUBSET Video}
    BY <1>1 DEF Work
  <2> PICK V \in SUBSET Video : tx[t].new \in [V -> BOOLEAN]
    BY <2>1
  <2>2. new \in [V \cup {v} -> BOOLEAN] /\ V \cup {v} \in SUBSET Video
    BY DEF IsKept
  <2> QED BY <2>2
<1>3. /\ tx' = [tx EXCEPT ![t].todo = tx[t].todo \ {v}, ![t].new = new]
      /\ locked' = [locked EXCEPT ![v] = t]
  BY <1>1 DEF VisitRow, TxInv
<1> HIDE DEF new
<1>4. tx' \in [Tx -> Work] /\ \A s \in Tx \ {t} : tx'[s] = tx[s]
  <2> DEFINE r1 == [tx[t] EXCEPT !.todo = tx[t].todo \ {v}]
             to == [r1 EXCEPT !.new = new]
  <2>1. tx[t].todo \ {v} \in SUBSET Video
    BY <1>1 DEF Work
  <2>2. r1 \in Work
    BY <1>1, <2>1, WorkFields
  <2>3. to \in Work
    BY <1>2, <2>2, WorkFields
  <2>4. tx' = [s \in Tx |-> IF s = t THEN to ELSE tx[s]]
    BY <1>1, <1>3, Zenon
  <2> QED
    BY <1>1, <2>3, <2>4, Zenon
<1>5. /\ tx'[t].pc = "visit" /\ tx'[t].kind = tx[t].kind /\ tx'[t].users = tx[t].users
      /\ tx'[t].videos = tx[t].videos /\ tx'[t].new = new
      /\ tx'[t].view = tx[t].view /\ tx'[t].todo = tx[t].todo \ {v}
  BY <1>1, <1>3 DEF Work
<1>6. locked' \in [Video -> Tx \cup {NoTx}] /\ locked'[v] = t /\ \A w \in Video \ {v} : locked'[w] = locked[w]
  BY <1>3 DEF PinsInv, Shape
<1>7. v \in tx[t].videos /\ locked[v] = t /\ v \in tx[t].todo
  BY <1>1 DEF VisitRow, IsCurrent, Holds
<1>8. IsCurrent(t)'
  <2>1. Shelf(t, saved)' = Shelf(t, saved)
    BY <1>5 DEF Shelf, VisitRow
  <2>2. DOMAIN new = tx[t].videos \ (tx[t].todo \ {v})
    BY <1>1, <1>7 DEF new, IsCurrent
  <2>3. \A w \in DOMAIN new : new[w] = IsKept(tx[t].view, w)
    BY <1>1 DEF new, IsCurrent
  <2> QED
    BY <1>1, <1>5, <2>1, <2>2, <2>3 DEF IsCurrent, SameColumn, IsKept
<1>9. TxInv(t)'
  <2>1. Holds(t)'
    BY <1>1, <1>5, <1>6 DEF Holds, Work
  <2> QED
    BY <1>1, <1>5, <1>8, <2>1 DEF TxInv
<1> QED
  BY <1>4, <1>6, <1>7, <1>9, UncommittedKeeps DEF VisitRow

\* A rollback, and the end of a commit.
LEMMA IdleIsFine ==
  ASSUME NEW t \in Tx, tx \in [Tx -> Work], tx' = [tx EXCEPT ![t] = NoWork]
  PROVE  /\ tx' \in [Tx -> Work]
         /\ \A s \in Tx \ {t} : tx'[s] = tx[s]
         /\ TxInv(t)'
<1>1. tx' \in [Tx -> Work] /\ tx'[t] = NoWork /\ \A s \in Tx \ {t} : tx'[s] = tx[s]
  BY NoWorkIsWork
<1> QED
  BY <1>1 DEF TxInv, NoWork

LEMMA UnlockFreesOwn ==
  ASSUME NEW t \in Tx, Unlock(t), locked \in [Video -> Tx \cup {NoTx}]
  PROVE  /\ locked' \in [Video -> Tx \cup {NoTx}]
         /\ \A v \in Video, s \in Tx \ {t} : locked[v] = s => locked'[v] = s
BY DEF Unlock

LEMMA CommitKeeps == ASSUME PinsInv, NEW t \in Tx, Commit(t) PROVE PinsInv'
<1>1. tx \in [Tx -> Work] /\ TxInv(t) /\ IsCurrent(t) /\ Holds(t) /\ DOMAIN tx[t].new = tx[t].videos
  BY DEF PinsInv, Shape, Commit, TxInv, IsCurrent
<1>2. tx[t].users \subseteq User /\ tx[t].videos \subseteq Video
  BY <1>1 DEF Work
<1>3. saved' = Shelf(t, saved) /\ saved' \subseteq User \X Video
  BY <1>2 DEF Commit, Shelf, PinsInv, Shape
<1>4. ASSUME NEW v \in Video, v \notin tx[t].videos PROVE SameColumn(saved, saved', v)
  BY <1>3, <1>4 DEF SameColumn, Shelf
<1>5. ASSUME NEW s \in Tx, s # t PROVE TxInv(s)'
  <2>1. ASSUME NEW v \in Video, locked[v] = s PROVE locked'[v] = s /\ SameColumn(saved, saved', v)
    <3>1. v \notin tx[t].videos
      BY <1>1, <1>5, <2>1 DEF Holds
    <3> QED
      BY <1>4, <1>5, <2>1, <3>1, UnlockFreesOwn DEF Commit, PinsInv, Shape
  <2> QED
    BY <1>1, <1>5, <2>1, IdleIsFine, OthersKeep DEF PinsInv, Commit
<1>6. ASSUME NEW v \in Video PROVE pinned'[v] <=> IsKept(saved', v)
  <2>1. CASE v \in tx[t].videos
    <3>1. pinned'[v] = IsKept(tx[t].view, v)
      BY <1>1, <2>1 DEF Commit, IsCurrent
    <3>2. SameColumn(tx[t].view, saved', v)
      BY <1>1, <1>3, <2>1 DEF IsCurrent
    <3> QED
      BY <3>1, <3>2, SameColumnSameAnswer
  <2>2. CASE v \notin tx[t].videos
    <3>1. pinned'[v] = pinned[v]
      BY <1>1, <2>2 DEF Commit
    <3> QED
      BY <1>4, <2>2, <3>1, SameColumnSameAnswer DEF PinsInv, PinnedIffSaved
  <2> QED BY <2>1, <2>2
<1>7. pinned' \in [Video -> BOOLEAN]
  BY <1>1, <1>2 DEF Commit, PinsInv, Shape, IsCurrent, IsKept
<1> QED
  BY <1>1, <1>3, <1>5, <1>6, <1>7, IdleIsFine, UnlockFreesOwn
     DEF PinsInv, Shape, PinnedIffSaved, Commit

LEMMA RollbackKeeps == ASSUME PinsInv, NEW t \in Tx, Rollback(t) PROVE PinsInv'
BY IdleIsFine, UnlockFreesOwn, UncommittedKeeps DEF Rollback, PinsInv, Shape

-----------------------------------------------------------------------------
\* What is inductive: PinsInv for as long as no deletion has begun.
SavesInv == deletes \in Nat /\ (deletes = 0 => PinsInv)

LEMMA NoDeletionBegins ==
  ASSUME deletes \in Nat, [Next]_vars
  PROVE  /\ deletes' \in Nat
         /\ deletes' = 0 => /\ deletes = 0
                           /\ \A t \in Tx, u \in User : ~DeleteUserData(t, u)
<1>1. ASSUME NEW t \in Tx, TxStep(t)
      PROVE  deletes' = deletes \/ deletes' = deletes + 1
  BY <1>1 DEF TxStep, SetPinned, DeleteUserData, LockRow, WriteShelf, BeginUpdate, VisitRow, Commit,
     Rollback
<1>2. deletes' = deletes \/ deletes' = deletes + 1
  BY <1>1 DEF Next, vars
<1>3. \A t \in Tx, u \in User : DeleteUserData(t, u) => deletes' = deletes + 1
  BY DEF DeleteUserData
<1>4. deletes' \in Nat /\ (deletes' = 0 => deletes' # deletes + 1 /\ deletes = 0)
  BY <1>2
<1> QED
  BY <1>3, <1>4

LEMMA PinsInvStep ==
  ASSUME PinsInv, [Next]_vars, \A t \in Tx, u \in User : ~DeleteUserData(t, u)
  PROVE  PinsInv'
<1>1. CASE UNCHANGED vars
  BY <1>1 DEF vars, PinsInv, Shape, PinnedIffSaved, TxInv, Holds, IsCurrent, Shelf
<1>2. ASSUME NEW t \in Tx, TxStep(t) PROVE PinsInv'
  BY <1>2, SetPinnedKeeps, LockRowKeeps, WriteShelfKeeps, BeginUpdateKeeps, VisitRowKeeps,
     CommitKeeps, RollbackKeeps DEF TxStep
<1> QED
  BY <1>1, <1>2 DEF Next

(* As long as no profile is deleted, a video is pinned exactly when         *)
(* somebody keeps it, however many saves and unsaves of however many        *)
(* members overlap and whichever of them roll back (SetPinned).             *)
THEOREM SavesAloneKeepPins == Spec => []SavesKeepPins
<1>1. Init => SavesInv
  BY PinsInvInit DEF Init, SavesInv
<1>2. SavesInv /\ [Next]_vars => SavesInv'
  BY NoDeletionBegins, PinsInvStep DEF SavesInv
<1>3. SavesInv => SavesKeepPins
  BY DEF SavesInv, SavesKeepPins, PinsInv
<1> QED
  BY <1>1, <1>2, <1>3, PTL DEF Spec
-----------------------------------------------------------------------------
(* Deletions included: whoever holds a lock is in a step that will end.     *)

Working == {"shelf", "update", "visit"}

LockInv ==
  /\ Shape
  /\ deletes \in 0..MaxDeletes
  /\ \A v \in Video : locked[v] # NoTx => tx[locked[v]].pc \in Working

\* A step of t that leaves it in the middle of its work, or without a lock.
LEMMA LocksStayHeld ==
  ASSUME LockInv, NEW t \in Tx, NEW to \in Work, tx' = [tx EXCEPT ![t] = to],
         saved' \subseteq User \X Video, pinned' \in [Video -> BOOLEAN],
         deletes' \in 0..MaxDeletes,
         locked' \in [Video -> Tx \cup {NoTx}],
         \A v \in Video : locked'[v] \in {locked[v], t, NoTx},
         to.pc \in Working \/ \A v \in Video : locked'[v] # t
  PROVE  LockInv'
<1>1. tx' \in [Tx -> Work] /\ tx'[t] = to /\ \A s \in Tx \ {t} : tx'[s] = tx[s]
  BY DEF LockInv, Shape
<1>2. ASSUME NEW v \in Video, locked'[v] # NoTx PROVE tx'[locked'[v]].pc \in Working
  <2>1. CASE locked'[v] = t
    BY <1>1, <2>1
  <2>2. CASE locked'[v] # t
    BY <1>1, <1>2, <2>2 DEF LockInv, Shape
  <2> QED BY <2>1, <2>2
<1> QED
  BY <1>1, <1>2 DEF LockInv, Shape

LEMMA SetPinnedLocks ==
  ASSUME LockInv, NEW t \in Tx, NEW u \in User, NEW v \in Video, NEW kind \in {"save", "unsave"},
         SetPinned(t, u, v, kind)
  PROVE  LockInv'
<1> DEFINE r1 == [tx[t] EXCEPT !.pc = "lock"]
           r2 == [r1 EXCEPT !.kind = kind]
           r3 == [r2 EXCEPT !.users = {u}]
           to == [r3 EXCEPT !.videos = {v}]
<1>1. tx \in [Tx -> Work] /\ tx[t] = NoWork
  BY DEF LockInv, Shape, SetPinned
<1>2. r1 \in Work /\ r2 \in Work /\ r3 \in Work
  BY <1>1, WorkFields
<1>3. to \in Work
  BY <1>2, WorkFields
<1>4. tx' = [tx EXCEPT ![t] = to]
  BY <1>1, Zenon DEF SetPinned
<1>5. \A w \in Video : locked'[w] # t
  BY <1>1, PinsAssumption DEF LockInv, SetPinned, NoWork, Working
<1> HIDE DEF to
<1> QED
  BY <1>1, <1>3, <1>4, <1>5, LocksStayHeld DEF LockInv, Shape, SetPinned

LEMMA DeleteUserDataLocks ==
  ASSUME LockInv, NEW t \in Tx, NEW u \in User, DeleteUserData(t, u) PROVE LockInv'
<1> DEFINE r1 == [tx[t] EXCEPT !.pc = "shelf"]
           r2 == [r1 EXCEPT !.kind = "delete"]
           r3 == [r2 EXCEPT !.users = {u}]
           to == [r3 EXCEPT !.videos = Video]
<1>1. tx \in [Tx -> Work] /\ tx[t] = NoWork
  BY DEF LockInv, Shape, DeleteUserData
<1>2. r1 \in Work /\ r2 \in Work /\ r3 \in Work
  BY <1>1, WorkFields
<1>3. to \in Work /\ to.pc \in Working
  <2>1. to \in Work
    BY <1>2, WorkFields
  <2>2. to.pc = "shelf"
    BY <1>1 DEF NoWork
  <2> QED BY <2>1, <2>2 DEF Working
<1>4. tx' = [tx EXCEPT ![t] = to]
  BY <1>1, Zenon DEF DeleteUserData
<1>5. deletes' \in 0..MaxDeletes
  BY PinsAssumption DEF LockInv, DeleteUserData
<1> HIDE DEF to
<1> QED
  BY <1>1, <1>3, <1>4, <1>5, LocksStayHeld DEF LockInv, Shape, DeleteUserData

LEMMA LockRowLocks == ASSUME LockInv, NEW t \in Tx, LockRow(t) PROVE LockInv'
<1> DEFINE to == [tx[t] EXCEPT !.pc = "shelf"]
<1>0. tx \in [Tx -> Work] /\ to.pc \in Working
  BY DEF LockInv, Shape, Working, Work
<1>1. tx[t] \in Work /\ to \in Work
  BY <1>0, WorkFields
<1>2. tx' = [tx EXCEPT ![t] = to]
  BY <1>0, Zenon DEF LockRow
<1>3. /\ locked' \in [Video -> Tx \cup {NoTx}]
      /\ \A v \in Video : locked'[v] \in {locked[v], t, NoTx}
  BY DEF LockRow, LockInv, Shape
<1> HIDE DEF to
<1> QED
  BY <1>0, <1>1, <1>2, <1>3, LocksStayHeld DEF LockInv, Shape, LockRow

LEMMA WriteShelfLocks == ASSUME LockInv, NEW t \in Tx, WriteShelf(t) PROVE LockInv'
<1> DEFINE to == [tx[t] EXCEPT !.pc = "update"]
<1>0. tx \in [Tx -> Work] /\ to.pc \in Working
  BY DEF LockInv, Shape, Working, Work
<1>1. tx[t] \in Work /\ to \in Work
  BY <1>0, WorkFields
<1>2. tx' = [tx EXCEPT ![t] = to]
  BY <1>0, Zenon DEF WriteShelf
<1> HIDE DEF to
<1> QED
  BY <1>0, <1>1, <1>2, LocksStayHeld DEF LockInv, Shape, WriteShelf

LEMMA BeginUpdateLocks == ASSUME LockInv, NEW t \in Tx, BeginUpdate(t) PROVE LockInv'
<1> DEFINE todo == IF tx[t].kind = "delete" THEN {v \in Video : pinned[v]} ELSE tx[t].videos
           r1 == [tx[t] EXCEPT !.pc = "visit"]
           r2 == [r1 EXCEPT !.view = Shelf(t, saved)]
           to == [r2 EXCEPT !.todo = todo]
<1>0. tx \in [Tx -> Work] /\ tx[t] \in Work
  BY DEF LockInv, Shape
<1>1. r1 \in Work
  BY <1>0, WorkFields
<1>2. Shelf(t, saved) \subseteq User \X Video /\ todo \subseteq Video
  <2>1. tx[t].users \subseteq User /\ tx[t].videos \subseteq Video
    BY <1>0 DEF Work
  <2> QED
    BY <2>1 DEF Shelf, LockInv, Shape
<1>3. r2 \in Work
  BY <1>1, <1>2, WorkFields
<1>4. to \in Work /\ to.pc \in Working
  <2>1. to \in Work
    <3> HIDE DEF r1, r2, todo
    <3> QED BY <1>2, <1>3, WorkFields
  <2>2. to.pc = "visit"
    BY <1>0 DEF Work
  <2> QED BY <2>1, <2>2 DEF Working
<1>5. tx' = [tx EXCEPT ![t] = to]
  BY <1>0, Zenon DEF BeginUpdate
<1> HIDE DEF to
<1> QED
  BY <1>4, <1>5, LocksStayHeld DEF LockInv, Shape, BeginUpdate

LEMMA VisitRowLocks ==
  ASSUME LockInv, NEW t \in Tx, NEW v \in Video, VisitRow(t, v) PROVE LockInv'
<1> DEFINE new == [w \in DOMAIN tx[t].new \cup {v} |->
                     IF w = v THEN IsKept(tx[t].view, v) ELSE tx[t].new[w]]
           r1 == [tx[t] EXCEPT !.todo = tx[t].todo \ {v}]
           r2 == [r1 EXCEPT !.new = new]
<1>1. tx \in [Tx -> Work] /\ tx[t].pc \in Working /\ tx[t].todo \ {v} \subseteq Video
  BY DEF LockInv, Shape, Working, Work, VisitRow
<1>2. new \in UNION {[V -> BOOLEAN] : V \in SUBSET Video}
  <2>1. tx[t].new \in UNION {[V -> BOOLEAN] : V \in SUBSET Video}
    BY <1>1 DEF Work
  <2> PICK V \in SUBSET Video : tx[t].new \in [V -> BOOLEAN]
    BY <2>1
  <2>2. new \in [V \cup {v} -> BOOLEAN] /\ V \cup {v} \in SUBSET Video
    BY DEF IsKept
  <2> QED BY <2>2
<1> HIDE DEF new
<1>3. r1 \in Work /\ r2 \in Work
  <2>1. tx[t] \in Work
    BY <1>1
  <2>2. r1 \in Work
    BY <1>1, <2>1, WorkFields
  <2>3. r2 \in Work
    BY <1>2, <2>2, WorkFields
  <2> QED BY <2>2, <2>3
<1>4. r1.pc \in Working /\ r2.pc \in Working
  BY <1>1 DEF Work
<1>5. CASE tx[t].kind = "delete" /\ ~pinned[v]
  <2>1. tx' = [tx EXCEPT ![t] = r1] /\ locked' = locked
    BY <1>1, <1>5, Zenon DEF VisitRow
  <2> HIDE DEF r1
  <2> QED
    BY <1>1, <1>3, <1>4, <2>1, LocksStayHeld DEF LockInv, Shape, VisitRow
<1>6. CASE ~(tx[t].kind = "delete" /\ ~pinned[v])
  <2>1. tx' = [tx EXCEPT ![t] = r2] /\ locked' = [locked EXCEPT ![v] = t]
    BY <1>1, <1>6, Zenon DEF VisitRow, new
  <2>2. /\ locked' \in [Video -> Tx \cup {NoTx}]
        /\ \A w \in Video : locked'[w] \in {locked[w], t, NoTx}
    BY <2>1 DEF LockInv, Shape
  <2> HIDE DEF r2
  <2> QED
    BY <1>1, <1>3, <1>4, <2>1, <2>2, LocksStayHeld DEF LockInv, Shape, VisitRow
<1> QED BY <1>5, <1>6

\* A commit or a rollback, which free what t held.
LEMMA EndLocks ==
  ASSUME LockInv, NEW t \in Tx, Unlock(t), tx' = [tx EXCEPT ![t] = NoWork], UNCHANGED deletes,
         saved' \subseteq User \X Video, pinned' \in [Video -> BOOLEAN]
  PROVE  LockInv'
<1>1. \A v \in Video : locked'[v] # t /\ locked'[v] \in {locked[v], NoTx}
  BY PinsAssumption DEF Unlock
<1>2. locked' \in [Video -> Tx \cup {NoTx}]
  BY DEF Unlock, LockInv, Shape
<1> QED
  BY <1>1, <1>2, NoWorkIsWork, LocksStayHeld DEF LockInv, Shape

LEMMA CommitLocks == ASSUME LockInv, NEW t \in Tx, Commit(t) PROVE LockInv'
<1>1. tx[t] \in Work
  BY DEF LockInv, Shape
<1>2. saved' \subseteq User \X Video
  BY <1>1 DEF Commit, Shelf, LockInv, Shape, Work
<1>3. pinned' \in [Video -> BOOLEAN]
  <2>1. tx[t].new \in UNION {[V -> BOOLEAN] : V \in SUBSET Video}
    BY <1>1 DEF Work
  <2> PICK V \in SUBSET Video : tx[t].new \in [V -> BOOLEAN]
    BY <2>1
  <2> QED
    BY DEF Commit, LockInv, Shape
<1> QED
  BY <1>2, <1>3, EndLocks DEF Commit

LEMMA RollbackLocks == ASSUME LockInv, NEW t \in Tx, Rollback(t) PROVE LockInv'
BY EndLocks DEF Rollback, LockInv, Shape

LEMMA LockInvInit == Init => LockInv
<1> SUFFICES ASSUME Init PROVE LockInv
  OBVIOUS
<1>1. Shape
  BY PinsInvInit DEF PinsInv
<1> QED
  BY <1>1, PinsAssumption DEF Init, LockInv

LEMMA LockInvStep == ASSUME LockInv, [Next]_vars PROVE LockInv'
<1>1. CASE UNCHANGED vars
  BY <1>1 DEF vars, LockInv, Shape
<1>2. ASSUME NEW t \in Tx, TxStep(t) PROVE LockInv'
  BY <1>2, SetPinnedLocks, DeleteUserDataLocks, LockRowLocks, WriteShelfLocks, BeginUpdateLocks,
     VisitRowLocks, CommitLocks, RollbackLocks DEF TxStep
<1> QED
  BY <1>1, <1>2 DEF Next

(* Rows and transactions are well formed, and every row lock is held by a   *)
(* transaction that still runs, deletions of profiles and rollbacks of      *)
(* either kind included (the deferred Rollback of SetPinned and             *)
(* DeleteUserData).                                                         *)
THEOREM NoLockIsLeaked == Spec => []PinsTypeOK
<1>1. LockInv => PinsTypeOK
  BY DEF LockInv, Shape, PinsTypeOK, NoWork, Working
<1> QED
  BY <1>1, LockInvInit, LockInvStep, PTL DEF Spec
=============================================================================
