---------------------------- MODULE AccountProofs ----------------------------
(***************************************************************************)
(* What the mirror of the members' accounts keeps in the catalog and in     *)
(* accounts.json, for any number of members, playlists and videos, of any   *)
(* length, and whatever fails: rows are well formed and no two videos share *)
(* a place (AccountsAreTyped), and a video goes only if it was read to be   *)
(* gone, or its row could not be written (OnlyUnseenAreRemoved).            *)
(*                                                                          *)
(* AccountInv follows a pass from the read to the writing of it: what an    *)
(* import has in hand is a read of one content of its list (RecordOK).  Of  *)
(* an account it counts the passes that hold its session (Counted): a       *)
(* session given up is taken by no further pass, but both passes may hold   *)
(* one when it is.                                                          *)
(***************************************************************************)
EXTENDS AccountProperties, SequenceTheorems, WellFoundedInduction, TLAPS

-----------------------------------------------------------------------------
(* Sequences and their parts.                                               *)

\* Induction, with a set in the place of the predicate.
LEMMA SetInduction ==
  ASSUME NEW S, 0 \in S, \A n \in Nat : n \in S => n + 1 \in S
  PROVE  Nat \subseteq S
<1> DEFINE T == Nat \ S
           Less == OpToRel(<, Nat)
<1>1. \A m, n \in Nat : m < n => <<m, n>> \in Less
  BY Zenon DEF OpToRel
<1>2. IsWellFoundedOn(Less, Nat)
  BY NatLessThanWellFounded, Zenon
<1> HIDE DEF Less
<1>3. SUFFICES ASSUME T # {} PROVE FALSE
  OBVIOUS
<1>4. PICK x \in T : \A y \in T : ~(<<y, x>> \in Less)
  BY <1>2, <1>3, WFMin, Zenon
<1>5. x \in Nat /\ x # 0
  OBVIOUS
<1>6. x - 1 \in Nat /\ x - 1 < x /\ x = (x - 1) + 1
  BY <1>5
<1>7. x - 1 \in T
  BY <1>6
<1> QED
  BY <1>1, <1>4, <1>5, <1>6, <1>7

\* What a step of the filter makes of the part before it.
Part(q, s, f, n) ==
  IF n = 0 THEN <<>> ELSE IF q[n] \in s THEN Append(f[n - 1], q[n]) ELSE f[n - 1]

LEMMA PartsExist ==
  ASSUME NEW S, NEW q \in Seq(S), NEW s
  PROVE  \E f : f = [n \in 0..Len(q) |-> Part(q, s, f, n)]
<1> DEFINE len == Len(q)
           Built(k) == \E f \in [0..k -> Seq(S)] : \A n \in 0..k : f[n] = Part(q, s, f, n)
           Done == {k \in Nat : k <= len => Built(k)}
<1>0. len \in Nat /\ \A n \in 1..len : q[n] \in S
  OBVIOUS
<1>1. 0 \in Done
  <2>1. Built(0)
    <3> DEFINE f == [n \in 0..0 |-> <<>>]
    <3>1. f \in [0..0 -> Seq(S)] /\ \A n \in 0..0 : f[n] = Part(q, s, f, n)
      BY DEF Part
    <3> QED
      BY <3>1
  <2> HIDE DEF Built
  <2> QED
    BY <2>1
<1>2. ASSUME NEW k \in Nat, k \in Done PROVE k + 1 \in Done
  <2> HIDE DEF Built
  <2> SUFFICES ASSUME k + 1 <= len PROVE Built(k + 1)
    OBVIOUS
  <2>1. Built(k)
    BY <1>0, <1>2
  <2> USE DEF Built
  <2>2. PICK f \in [0..k -> Seq(S)] : \A n \in 0..k : f[n] = Part(q, s, f, n)
    BY <2>1
  <2> DEFINE g == [n \in 0..(k + 1) |-> IF n <= k THEN f[n] ELSE Part(q, s, f, k + 1)]
  <2>3. Part(q, s, f, k + 1) \in Seq(S)
    <3>1. k + 1 \in 1..len /\ f[k] \in Seq(S) /\ (k + 1) - 1 = k /\ k + 1 # 0
      BY <1>0
    <3>2. q[k + 1] \in S
      BY <1>0, <3>1
    <3> QED
      BY <3>1, <3>2 DEF Part
  <2>4. g \in [0..(k + 1) -> Seq(S)]
    BY <2>3
  <2>5. \A n \in 0..k : g[n] = f[n]
    OBVIOUS
  <2>6. g[k + 1] = Part(q, s, f, k + 1)
    OBVIOUS
  <2> HIDE DEF g
  <2>7. \A n \in 0..(k + 1) : g[n] = Part(q, s, g, n)
    <3> TAKE n \in 0..(k + 1)
    <3>1. n = 0 \/ n - 1 \in 0..k
      OBVIOUS
    <3>2. Part(q, s, g, n) = Part(q, s, f, n)
      BY <2>5, <3>1 DEF Part
    <3> QED
      BY <2>2, <2>5, <2>6, <3>2
  <2> QED
    BY <2>4, <2>7
<1>3. Built(len)
  <2> HIDE DEF Built
  <2>1. Nat \subseteq Done
    BY <1>1, <1>2, SetInduction
  <2> QED
    BY <1>0, <2>1
<1>4. PICK f \in [0..len -> Seq(S)] : \A n \in 0..len : f[n] = Part(q, s, f, n)
  BY <1>3
<1>5. f = [n \in 0..len |-> Part(q, s, f, n)]
  BY <1>4
<1> QED
  BY <1>5

\* What Only keeps of a sequence: what is in the set, once if it was there once.
LEMMA OnlyIs ==
  ASSUME NEW S, NEW q \in Seq(S), NEW s
  PROVE  /\ Only(q, s) \in Seq(S)
         /\ Range(Only(q, s)) = Range(q) \cap s
         /\ IsInjective(q) => IsInjective(Only(q, s))
<1> DEFINE len == Len(q)
           Fills(f) == f = [n \in 0..len |-> Part(q, s, f, n)]
           upTo == CHOOSE f : Fills(f)
<1>1. len \in Nat /\ DOMAIN q = 1..len /\ \A n \in 1..len : q[n] \in S
  OBVIOUS
<1>2. Fills(upTo)
  <2>1. \E f : Fills(f)
    BY PartsExist
  <2> HIDE DEF Fills
  <2> QED
    BY <2>1
<1>3. Only(q, s) = upTo[len]
  BY DEF Only, Part
<1> HIDE DEF upTo
<1>4. \A n \in 0..len : upTo[n] = Part(q, s, upTo, n)
  BY <1>2
<1> DEFINE Begun(k) == {q[i] : i \in 1..k}
           Good(k) == /\ upTo[k] \in Seq(S)
                      /\ Range(upTo[k]) = Begun(k) \cap s
                      /\ IsInjective(q) => IsInjective(upTo[k])
           Goods == {k \in Nat : k <= len => Good(k)}
<1>5. 0 \in Goods
  <2>1. upTo[0] = <<>>
    BY <1>1, <1>4 DEF Part
  <2>2. Begun(0) = {} /\ upTo[0] \in Seq(S) /\ DOMAIN upTo[0] = {}
    BY <2>1
  <2> QED
    BY <2>2 DEF Range, IsInjective
<1>6. ASSUME NEW k \in Nat, k \in Goods PROVE k + 1 \in Goods
  <2> SUFFICES ASSUME k + 1 <= len PROVE Good(k + 1)
    OBVIOUS
  <2>1. k + 1 \in 1..len /\ k + 1 \in 0..len /\ (k + 1) - 1 = k /\ k + 1 # 0 /\ k <= len
    BY <1>1
  <2>2. Good(k) /\ q[k + 1] \in S
    BY <1>1, <1>6, <2>1
  <2>3. upTo[k + 1] = IF q[k + 1] \in s THEN Append(upTo[k], q[k + 1]) ELSE upTo[k]
    BY <1>4, <2>1 DEF Part
  <2>4. Begun(k + 1) = Begun(k) \cup {q[k + 1]}
    OBVIOUS
  <2>5. CASE q[k + 1] \notin s
    BY <2>2, <2>3, <2>4, <2>5
  <2>6. CASE q[k + 1] \in s
    <3> DEFINE p == upTo[k]
               r == Append(p, q[k + 1])
    <3> HIDE DEF p
    <3>1. p \in Seq(S) /\ Range(p) = Begun(k) \cap s /\ (IsInjective(q) => IsInjective(p))
      BY <2>2 DEF p
    <3>2. /\ r \in Seq(S) /\ Len(p) \in Nat /\ DOMAIN p = 1..Len(p) /\ DOMAIN r = 1..(Len(p) + 1)
          /\ \A i \in 1..Len(p) : r[i] = p[i]
          /\ r[Len(p) + 1] = q[k + 1]
      BY <2>2, <3>1
    <3> HIDE DEF r
    <3>3. Range(r) = Range(p) \cup {q[k + 1]}
      <4>1. \A i \in DOMAIN r : i \in DOMAIN p \/ i = Len(p) + 1
        BY <3>2
      <4>2. \A i \in DOMAIN p : i \in DOMAIN r
        BY <3>2
      <4>3. Len(p) + 1 \in DOMAIN r
        BY <3>2
      <4> QED
        BY <3>2, <4>1, <4>2, <4>3 DEF Range
    <3>4. IsInjective(q) => IsInjective(r)
      <4> SUFFICES ASSUME IsInjective(q), NEW i \in DOMAIN r, NEW j \in DOMAIN r, r[i] = r[j]
                   PROVE  i = j
        BY DEF IsInjective
      <4>1. q[k + 1] \notin Begun(k)
        BY <1>1, <2>1 DEF IsInjective
      <4>2. \A n \in DOMAIN p : p[n] # q[k + 1]
        BY <3>1, <4>1 DEF Range
      <4>3. (i \in DOMAIN p \/ i = Len(p) + 1) /\ (j \in DOMAIN p \/ j = Len(p) + 1)
        BY <3>2
      <4> QED
        BY <3>1, <3>2, <4>2, <4>3 DEF IsInjective
    <3>5. upTo[k + 1] = r
      BY <2>3, <2>6 DEF r, p
    <3> QED
      BY <2>4, <2>6, <3>1, <3>2, <3>3, <3>4, <3>5
  <2> QED
    BY <2>5, <2>6
<1>7. Good(len)
  <2> HIDE DEF Good
  <2>1. Nat \subseteq Goods
    BY <1>5, <1>6, SetInduction
  <2> QED
    BY <1>1, <2>1
<1>8. Begun(len) = Range(q)
  BY <1>1 DEF Range
<1> QED
  BY <1>3, <1>7, <1>8

\* A set of naturals with a bound has a greatest.
LEMMA BoundedHasMax ==
  ASSUME NEW S \in SUBSET Nat, S # {}, NEW n \in Nat, \A x \in S : x <= n
  PROVE  Max(S) \in S /\ \A x \in S : x <= Max(S)
<1>1. \E x \in S : \A y \in S : x >= y
  <2> SUFFICES ASSUME \A x \in S : \E y \in S : y > x PROVE FALSE
    OBVIOUS
  <2> DEFINE T == {k \in Nat : \E x \in S : x >= k}
  <2>1. 0 \in T
    <3>1. PICK x \in S : TRUE
      OBVIOUS
    <3>2. x \in Nat /\ x >= 0
      OBVIOUS
    <3> QED
      BY <3>2
  <2>2. \A k \in Nat : k \in T => k + 1 \in T
    <3> SUFFICES ASSUME NEW k \in Nat, k \in T PROVE \E y \in S : y >= k + 1
      OBVIOUS
    <3>1. PICK x \in S : x >= k
      OBVIOUS
    <3>2. PICK y \in S : y > x
      OBVIOUS
    <3>3. x \in Nat /\ y \in Nat
      OBVIOUS
    <3> QED
      BY <3>1, <3>2, <3>3
  <2>3. n + 1 \in T
    <3> HIDE DEF T
    <3> QED
      BY <2>1, <2>2, SetInduction
  <2> QED
    BY <2>3
<1> QED
  BY <1>1 DEF Max

-----------------------------------------------------------------------------
(* What an import makes of the places of a playlist.                        *)
Items == UNION {[videos -> Nat] : videos \in SUBSET Video}

Bounded(items) == \E n \in Nat : \A v \in DOMAIN items : items[v] <= n

Placed(items) == items \in Items /\ IsInjective(items) /\ Bounded(items)

LEMMA ItemsAre ==
  ASSUME NEW items
  PROVE  items \in Items <=> items \in [DOMAIN items -> Nat] /\ DOMAIN items \subseteq Video
BY DEF Items

LEMMA PlaceIs ==
  ASSUME NEW q \in Seq(Video), NEW v \in Range(q)
  PROVE  Place(q, v) \in 1..Len(q) /\ q[Place(q, v)] = v
<1>1. DOMAIN q = 1..Len(q)
  OBVIOUS
<1>2. \E i \in DOMAIN q : q[i] = v
  BY DEF Range
<1> QED
  BY <1>1, <1>2 DEF Place

LEMMA ImportIsPlaced ==
  ASSUME NEW items, Placed(items), NEW ids \in Seq(Video), NEW complete
  PROVE  /\ Placed(Imported(items, ids, complete))
         /\ \A v \in DOMAIN items \ DOMAIN Imported(items, ids, complete) :
              complete /\ v \notin Range(ids)
<1> DEFINE both == DOMAIN items \cap Range(ids)
           kept == IF complete /\ ids # <<>> THEN [v \in both |-> Place(ids, v)] ELSE items
           new  == Only(ids, Video \ DOMAIN items)
           last == Max({0} \cup Range(kept))
           all  == [v \in DOMAIN kept \cup Range(new) |->
                      IF v \in DOMAIN kept THEN kept[v] ELSE last + Place(new, v)]
<1>1. Imported(items, ids, complete) = all
  BY DEF Imported
<1>2. items \in [DOMAIN items -> Nat] /\ DOMAIN items \subseteq Video /\ IsInjective(items)
  BY ItemsAre DEF Placed
<1>3. new \in Seq(Video) /\ Len(new) \in Nat /\ Range(new) = Range(ids) \ DOMAIN items
  <2>1. Range(ids) \subseteq Video
    BY DEF Range
  <2>2. new \in Seq(Video) /\ Range(new) = Range(ids) \cap (Video \ DOMAIN items)
    BY OnlyIs
  <2> HIDE DEF new
  <2> QED
    BY <2>1, <2>2
<1>4. Len(ids) \in Nat /\ \A v \in both : Place(ids, v) \in 1..Len(ids) /\ ids[Place(ids, v)] = v
  BY PlaceIs
<1>5. /\ kept \in [DOMAIN kept -> Nat] /\ DOMAIN kept \subseteq DOMAIN items /\ IsInjective(kept)
      /\ Bounded(kept)
      /\ \A v \in DOMAIN items \ DOMAIN kept : complete /\ v \notin Range(ids)
  <2>1. CASE complete /\ ids # <<>>
    <3> DEFINE f == [v \in both |-> Place(ids, v)]
    <3>1. DOMAIN f = both /\ \A v \in both : f[v] = Place(ids, v)
      OBVIOUS
    <3>2. f \in [both -> Nat] /\ \A v \in both : f[v] <= Len(ids)
      BY <1>4
    <3>3. kept = f
      BY <2>1
    <3> HIDE DEF f, kept
    <3>4. IsInjective(f)
      <4> SUFFICES ASSUME NEW v \in both, NEW w \in both, f[v] = f[w] PROVE v = w
        BY <3>1 DEF IsInjective
      <4> QED
        BY <1>4, <3>1
    <3> QED
      BY <1>4, <2>1, <3>1, <3>2, <3>3, <3>4 DEF Bounded
  <2>2. CASE ~(complete /\ ids # <<>>)
    <3>1. kept = items
      BY <2>2
    <3> HIDE DEF kept
    <3> QED
      BY <1>2, <3>1 DEF Placed
  <2> QED
    BY <2>1, <2>2
<1> HIDE DEF kept, new
<1>6. last \in Nat /\ \A v \in DOMAIN kept : kept[v] <= last
  <2> DEFINE places == {0} \cup Range(kept)
  <2>1. PICK n \in Nat : \A v \in DOMAIN kept : kept[v] <= n
    BY <1>5 DEF Bounded
  <2>2. places \in SUBSET Nat /\ places # {} /\ \A x \in places : x <= n
    BY <1>5, <2>1 DEF Range
  <2>3. \A v \in DOMAIN kept : kept[v] \in places
    BY DEF Range
  <2> HIDE DEF places
  <2>4. Max(places) \in places /\ \A x \in places : x <= Max(places)
    BY <2>2, BoundedHasMax
  <2>5. last = Max(places)
    BY DEF places
  <2> HIDE DEF last
  <2> QED
    BY <2>2, <2>3, <2>4, <2>5
<1> HIDE DEF last
<1>7. /\ DOMAIN all = DOMAIN kept \cup Range(new)
      /\ \A v \in DOMAIN kept : all[v] = kept[v]
      /\ \A v \in Range(new) \ DOMAIN kept : all[v] = last + Place(new, v)
  OBVIOUS
<1>8. \A v \in Range(new) : Place(new, v) \in 1..Len(new) /\ new[Place(new, v)] = v
  BY <1>3, PlaceIs
<1>9. all \in Items
  <2>1. \A v \in DOMAIN all : all[v] \in Nat
    BY <1>3, <1>5, <1>6, <1>7, <1>8
  <2>2. DOMAIN all \subseteq Video
    BY <1>2, <1>3, <1>5, <1>7 DEF Range
  <2>3. all = [v \in DOMAIN all |-> all[v]]
    OBVIOUS
  <2> HIDE DEF all
  <2>4. all \in [DOMAIN all -> Nat]
    BY <2>1, <2>3
  <2> QED
    BY <2>2, <2>4, ItemsAre
<1> HIDE DEF all
<1>10. IsInjective(all)
  <2> SUFFICES ASSUME NEW v \in DOMAIN all, NEW w \in DOMAIN all, all[v] = all[w] PROVE v = w
    BY DEF IsInjective
  <2>1. CASE v \in DOMAIN kept /\ w \in DOMAIN kept
    BY <1>5, <1>7, <2>1 DEF IsInjective
  <2>2. CASE v \notin DOMAIN kept /\ w \notin DOMAIN kept
    <3>1. /\ all[v] = last + Place(new, v) /\ all[w] = last + Place(new, w)
          /\ Place(new, v) \in 1..Len(new) /\ Place(new, w) \in 1..Len(new)
          /\ new[Place(new, v)] = v /\ new[Place(new, w)] = w
      BY <1>7, <1>8, <2>2
    <3> DEFINE i == Place(new, v)
               j == Place(new, w)
    <3>2. last + i = last + j /\ new[i] = v /\ new[j] = w
      BY <3>1, Zenon
    <3>3. i \in Nat /\ j \in Nat
      BY <1>3, <3>1
    <3> HIDE DEF i, j
    <3>4. i = j
      BY <1>6, <3>2, <3>3
    <3> QED
      BY <3>2, <3>4
  <2>3. ASSUME NEW a \in DOMAIN kept, NEW b \in DOMAIN all \ DOMAIN kept PROVE all[a] # all[b]
    <3>1. all[a] = kept[a] /\ kept[a] \in Nat /\ kept[a] <= last
      BY <1>5, <1>6, <1>7
    <3>2. all[b] = last + Place(new, b) /\ Place(new, b) \in 1..Len(new)
      BY <1>7, <1>8
    <3> QED
      BY <1>3, <1>6, <3>1, <3>2
  <2> QED
    BY <2>1, <2>2, <2>3
<1>11. Bounded(all)
  <2>1. ASSUME NEW v \in DOMAIN all PROVE all[v] <= last + Len(new)
    <3>1. CASE v \in DOMAIN kept
      <4>1. all[v] = kept[v] /\ kept[v] \in Nat /\ kept[v] <= last
        BY <1>5, <1>6, <1>7, <3>1
      <4> QED
        BY <1>3, <1>6, <4>1
    <3>2. CASE v \notin DOMAIN kept
      <4>1. all[v] = last + Place(new, v) /\ Place(new, v) \in 1..Len(new)
        BY <1>7, <1>8, <3>2
      <4> QED
        BY <1>3, <1>6, <4>1
    <3> QED
      BY <3>1, <3>2
  <2>2. last + Len(new) \in Nat
    BY <1>3, <1>6
  <2> QED
    BY <2>1, <2>2 DEF Bounded
<1> QED
  BY <1>1, <1>5, <1>7, <1>9, <1>10, <1>11 DEF Placed

-----------------------------------------------------------------------------
(* The invariant.                                                           *)

\* Where a pass has a member's session in hand and will record how it went.
Signed == {"channels", "playlists", "lists", "feeds", "later", "record"}

RecordOK(r) ==
  /\ r.pc \in Signed => r.m \in Member
  /\ r.pc = "lists" => r.seen \subseteq List
  /\ r.pc \in {"feeds", "later"} => r.ids \subseteq Video
  /\ r.pc = "read" => r.l \in List
  /\ r.pc = "import" =>
       /\ r.l \in List
       /\ \E q \in Contents : r.read = Read(q) /\ r.all = Range(q)

Holds(r, m) == IF r.pc \in Signed /\ r.m = m THEN 1 ELSE 0

Counted(m) ==
  /\ account[m].state = "EXPIRED" <=> account[m].failures >= FailureLimit
  /\ account[m].failures + Holds(pass[Timer], m) + Holds(pass[Button], m) <= FailureLimit + 1

Upstreams == [listed : SUBSET List, contents : [List \ Unreadable -> Contents],
              later : [Member -> Contents]]

PassesOK == DOMAIN pass = Pass /\ \A p \in Pass : RecordOK(pass[p])

AccountsOK == account \in [Member -> Account] /\ \A m \in Member : Counted(m)

Row == [items : Items, unavailable : BOOLEAN]

RowsOK == /\ DOMAIN rows \subseteq List
          /\ \A l \in DOMAIN rows : rows[l] \in Row /\ Placed(rows[l].items)

StampsOK == stamped \in Seq(List) /\ IsInjective(stamped) /\ Range(stamped) \subseteq DOMAIN rows

Things == UNION {Follows[m] \cup Likes[m] : m \in Member}
Taste  == [follows : SUBSET Things, likes : SUBSET Things, ranked : SUBSET Things]

TasteOK ==
  /\ taste \in [Member -> Taste]
  /\ \A m \in Member : /\ taste[m].follows \subseteq Follows[m]
                       /\ taste[m].likes \subseteq Likes[m]

LaterOK == later \in [Member -> SUBSET Video]

AccountInv ==
  /\ upstream \in Upstreams
  /\ PassesOK /\ AccountsOK
  /\ RowsOK /\ StampsOK /\ TasteOK /\ LaterOK

-----------------------------------------------------------------------------
\* A pass goes on to a record that is fine and holds no session it did not.
Advances(p) ==
  \E r : /\ Goes(p, r) /\ RecordOK(r)
        /\ \A m \in Member : Holds(r, m) <= Holds(pass[p], m)

LEMMA TwoPasses == Pass = {Timer, Button} /\ Timer # Button
BY AccountMirrorAssumption DEF Pass

LEMMA OneOrNone ==
  ASSUME NEW r, NEW m PROVE Holds(r, m) \in {0, 1}
BY DEF Holds

LEMMA GoingIs ==
  ASSUME PassesOK, NEW p \in Pass, NEW r, Goes(p, r)
  PROVE  /\ DOMAIN pass' = Pass /\ pass'[p] = r
         /\ \A q \in Pass \ {p} : pass'[q] = pass[q]
BY DEF PassesOK, Goes

LEMMA GoingKeeps ==
  ASSUME PassesOK, NEW p \in Pass, NEW r, Goes(p, r), RecordOK(r)
  PROVE  PassesOK'
<1>1. /\ DOMAIN pass' = Pass /\ pass'[p] = r
      /\ \A q \in Pass \ {p} : pass'[q] = pass[q]
  BY GoingIs
<1>2. \A q \in Pass : RecordOK(pass'[q])
  BY <1>1 DEF PassesOK
<1> QED
  BY <1>1, <1>2 DEF PassesOK

LEMMA AdvanceKeeps ==
  ASSUME PassesOK, AccountsOK, NEW p \in Pass, Advances(p), account' = account
  PROVE  PassesOK' /\ AccountsOK'
<1>1. PICK r : /\ Goes(p, r) /\ RecordOK(r)
               /\ \A m \in Member : Holds(r, m) <= Holds(pass[p], m)
  BY DEF Advances
<1>2. /\ PassesOK' /\ pass'[p] = r
      /\ \A q \in Pass \ {p} : pass'[q] = pass[q]
  BY <1>1, GoingIs, GoingKeeps
<1>3. ASSUME NEW m \in Member PROVE Counted(m)'
  <2>1. /\ Holds(pass'[Timer], m) \in {0, 1} /\ Holds(pass'[Button], m) \in {0, 1}
        /\ Holds(pass[Timer], m) \in {0, 1} /\ Holds(pass[Button], m) \in {0, 1}
    BY OneOrNone
  <2>2. /\ Holds(pass'[Timer], m) <= Holds(pass[Timer], m)
        /\ Holds(pass'[Button], m) <= Holds(pass[Button], m)
    BY <1>1, <1>2, <2>1, TwoPasses
  <2>3. Counted(m) /\ account[m].failures \in Nat /\ FailureLimit \in Nat
    BY AccountMirrorAssumption DEF AccountsOK, Account
  <2> QED
    BY <2>1, <2>2, <2>3 DEF Counted
<1> QED
  BY <1>2, <1>3 DEF AccountsOK

\* What a step must say of what it does not touch, or how.
LEMMA PassStepKeeps ==
  ASSUME AccountInv, NEW p \in Pass, Advances(p), account' = account,
         upstream' = upstream, UNCHANGED <<rows, stamped>> \/ (RowsOK' /\ StampsOK'),
         taste' = taste \/ TasteOK', later' = later \/ LaterOK'
  PROVE  AccountInv'
<1>1. PassesOK' /\ AccountsOK'
  BY AdvanceKeeps DEF AccountInv
<1>2. RowsOK' /\ StampsOK'
  BY DEF AccountInv, RowsOK, StampsOK
<1>3. TasteOK'
  BY DEF AccountInv, TasteOK
<1>4. LaterOK'
  BY DEF AccountInv, LaterOK
<1> QED
  BY <1>1, <1>2, <1>3, <1>4 DEF AccountInv

LEMMA InitKeeps == Init => AccountInv
<1> SUFFICES ASSUME Init PROVE AccountInv
  OBVIOUS
<1>1. upstream \in Upstreams
  BY DEF Init, Upstreams
<1>2. \A p \in Pass : pass[p].pc = "idle" /\ DOMAIN pass = Pass
  BY DEF Init, Idle
<1>3. PassesOK
  BY <1>2, TwoPasses DEF PassesOK, RecordOK, Signed
<1>4. AccountsOK
  <2>1. account \in [Member -> Account] /\ \A m \in Member : account[m].state = "OK" /\ account[m].failures = 0
    BY DEF Init, Fresh, Account
  <2>2. \A m \in Member : Holds(pass[Timer], m) = 0 /\ Holds(pass[Button], m) = 0
    BY <1>2, TwoPasses DEF Holds, Signed
  <2> QED
    BY <2>1, <2>2, AccountMirrorAssumption DEF AccountsOK, Counted
<1>5. RowsOK
  BY DEF Init, RowsOK
<1>6. StampsOK
  <2>1. stamped = <<>> /\ stamped \in Seq(List) /\ DOMAIN stamped = {}
    BY DEF Init
  <2> QED
    BY <2>1 DEF StampsOK, IsInjective, Range
<1>7. TasteOK
  BY DEF Init, TasteOK, Taste
<1>8. LaterOK
  BY DEF Init, LaterOK
<1> QED
  BY <1>1, <1>3, <1>4, <1>5, <1>6, <1>7, <1>8 DEF AccountInv

\* A record that holds nothing.
LEMMA FreeAdvances ==
  ASSUME NEW p, NEW r, Goes(p, r), r.pc \in {"idle", "checked", "members", "due"}
  PROVE  Advances(p)
<1>1. RecordOK(r)
  BY DEF RecordOK, Signed
<1>2. \A m \in Member : Holds(r, m) = 0
  BY DEF Holds, Signed
<1>3. \A m \in Member : Holds(r, m) <= Holds(pass[p], m)
  BY <1>2, OneOrNone
<1> QED
  BY <1>1, <1>3 DEF Advances

\* One that holds the session the pass already has.
LEMMA SameHolds ==
  ASSUME NEW p, NEW r, Goes(p, r), RecordOK(r), pass[p].pc \in Signed, r.m = pass[p].m
  PROVE  Advances(p)
<1>1. \A m \in Member : Holds(r, m) <= Holds(pass[p], m)
  <2> TAKE m \in Member
  <2>1. Holds(r, m) \in {0, 1} /\ Holds(pass[p], m) \in {0, 1}
    BY OneOrNone
  <2>2. Holds(r, m) = 1 => Holds(pass[p], m) = 1
    BY DEF Holds
  <2> QED
    BY <2>1, <2>2
<1> QED
  BY <1>1 DEF Advances

LEMMA VerdictAdvances ==
  ASSUME PassesOK, NEW p \in Pass, pass[p].pc \in Signed, NEW failed, Goes(p, Verdict(p, failed))
  PROVE  Advances(p)
<1> DEFINE r == Verdict(p, failed)
<1>1. r.pc = "record" /\ r.m = pass[p].m
  BY DEF Verdict
<1>2. pass[p].m \in Member
  BY DEF PassesOK, RecordOK
<1> HIDE DEF r
<1>3. RecordOK(r)
  BY <1>1, <1>2 DEF RecordOK
<1> QED
  BY <1>1, <1>3, SameHolds DEF r

LEMMA ReadingAdvances ==
  ASSUME PassesOK, NEW p \in Pass, pass[p].pc \in Signed, NEW pc \in {"feeds", "later"},
         NEW feed, NEW ids \in SUBSET Video, NEW complete,
         Goes(p, Reading(p, pc, feed, ids, complete))
  PROVE  Advances(p)
<1> DEFINE r == Reading(p, pc, feed, ids, complete)
<1>1. r.pc = pc /\ r.m = pass[p].m /\ r.ids = ids
  BY DEF Reading
<1>2. pass[p].m \in Member
  BY DEF PassesOK, RecordOK
<1>3. Goes(p, r)
  OBVIOUS
<1> HIDE DEF r
<1>4. RecordOK(r)
  BY <1>1, <1>2 DEF RecordOK
<1> QED
  BY <1>1, <1>3, <1>4, SameHolds

-----------------------------------------------------------------------------
(* The steps of a pass.                                                     *)
LEMMA PressKeeps ==
  ASSUME AccountInv, NEW p \in Pass, NEW only, Press(p, only) PROVE AccountInv'
<1> DEFINE r == [pc |-> "checked", only |-> only]
<1>1. Goes(p, r) /\ UNCHANGED <<upstream, account, rows, stamped, later, taste>>
  BY DEF Press, yours, catalog
<1>2. r.pc = "checked"
  OBVIOUS
<1> HIDE DEF r
<1>3. Advances(p)
  BY <1>1, <1>2, FreeAdvances
<1> QED
  BY <1>1, <1>3, PassStepKeeps

LEMMA BeginKeeps ==
  ASSUME AccountInv, NEW p \in Pass, Begin(p) PROVE AccountInv'
<1> DEFINE r == [pc   |-> "members",
                 todo |-> {m \in Member : pass[p].only \in {m, Everybody}
                                          /\ account[m].state # "EXPIRED"}]
<1>1. Goes(p, r) /\ UNCHANGED <<upstream, account, rows, stamped, later, taste>>
  BY DEF Begin, yours, catalog
<1>2. r.pc = "members"
  OBVIOUS
<1> HIDE DEF r
<1>3. Advances(p)
  BY <1>1, <1>2, FreeAdvances
<1> QED
  BY <1>1, <1>3, PassStepKeeps

\* The only step that takes a session in hand, and only one not given up.
LEMMA TakeMemberKeeps ==
  ASSUME AccountInv, NEW p \in Pass, NEW m \in Member, TakeMember(p, m) PROVE AccountInv'
<1> DEFINE rest  == pass[p].todo \ {m}
           taken == [pc |-> "channels", todo |-> rest, m |-> m]
           left  == [pc |-> "members", todo |-> rest]
<1>1. UNCHANGED <<upstream, account, rows, stamped, later, taste>>
  BY DEF TakeMember, yours, catalog
<1>2. CASE ~Usable(m)
  <2>1. Goes(p, left) /\ left.pc = "members"
    BY <1>2 DEF TakeMember
  <2> HIDE DEF left
  <2>2. Advances(p)
    BY <2>1, FreeAdvances
  <2> QED
    BY <1>1, <2>2, PassStepKeeps
<1>3. CASE Usable(m)
  <2>1. Goes(p, taken) /\ taken.pc = "channels" /\ taken.m = m
    BY <1>3 DEF TakeMember
  <2> HIDE DEF taken
  <2>2. RecordOK(taken)
    BY <2>1 DEF RecordOK
  <2>3. /\ PassesOK /\ PassesOK' /\ pass'[p] = taken
        /\ \A q \in Pass \ {p} : pass'[q] = pass[q]
    BY <2>1, <2>2, GoingIs, GoingKeeps DEF AccountInv
  <2>4. ASSUME NEW n \in Member PROVE Counted(n)'
    <3>1. /\ Holds(pass'[Timer], n) \in {0, 1} /\ Holds(pass'[Button], n) \in {0, 1}
          /\ Holds(pass[Timer], n) \in {0, 1} /\ Holds(pass[Button], n) \in {0, 1}
      BY OneOrNone
    <3>2. /\ Counted(n) /\ account[n].failures \in Nat /\ FailureLimit \in Nat
          /\ account[n].state \in {"OK", "EXPIRED"}
      BY AccountMirrorAssumption DEF AccountInv, AccountsOK, Account
    <3>3. CASE n = m
      <4>1. account[n].failures < FailureLimit
        BY <1>3, <3>2, <3>3 DEF Usable, Counted
      <4> QED
        BY <1>1, <3>1, <3>2, <4>1 DEF Counted
    <3>4. CASE n # m
      <4>1. Holds(taken, n) = 0
        BY <2>1, <3>4 DEF Holds
      <4>2. /\ Holds(pass'[Timer], n) <= Holds(pass[Timer], n)
            /\ Holds(pass'[Button], n) <= Holds(pass[Button], n)
        BY <2>3, <3>1, <4>1, TwoPasses
      <4> QED
        BY <1>1, <3>1, <3>2, <4>2 DEF Counted
    <3> QED
      BY <3>3, <3>4
  <2>5. AccountsOK'
    BY <1>1, <2>4 DEF AccountInv, AccountsOK
  <2> QED
    BY <1>1, <2>3, <2>5 DEF AccountInv, RowsOK, StampsOK, TasteOK, LaterOK
<1> QED
  BY <1>2, <1>3

LEMMA TasteKeeps ==
  ASSUME TasteOK, NEW m \in Member, NEW kind \in {"follows", "likes"},
         NEW all, all = IF kind = "follows" THEN Follows[m] ELSE Likes[m],
         RecordsTaste(m, kind, all)
  PROVE  TasteOK'
<1>1. PICK told \in SUBSET all : \E written \in {told, all} :
        taste' = [taste EXCEPT ![m][kind] = @ \cup written, ![m].ranked = @ \cup told]
  BY DEF RecordsTaste
<1>2. PICK written \in {told, all} :
        taste' = [taste EXCEPT ![m][kind] = @ \cup written, ![m].ranked = @ \cup told]
  BY <1>1
<1>3. taste \in [Member -> Taste] /\ told \subseteq all /\ written \subseteq all /\ all \subseteq Things
  BY <1>1, <1>2 DEF TasteOK, Things
<1> DEFINE t == taste[m]
           u == [t EXCEPT ![kind] = @ \cup written, !.ranked = @ \cup told]
<1>4. t \in Taste /\ t.follows \subseteq Follows[m] /\ t.likes \subseteq Likes[m]
  BY <1>3 DEF TasteOK
<1>5. taste' = [taste EXCEPT ![m] = u]
  BY <1>2
<1> HIDE DEF t
<1>6. u \in Taste /\ u.follows \subseteq Follows[m] /\ u.likes \subseteq Likes[m]
  <2>1. CASE kind = "follows"
    BY <1>3, <1>4, <2>1 DEF Taste
  <2>2. CASE kind = "likes"
    BY <1>3, <1>4, <2>2 DEF Taste
  <2> QED
    BY <2>1, <2>2
<1> HIDE DEF u
<1> QED
  BY <1>3, <1>5, <1>6 DEF TasteOK

LEMMA ListChannelsKeeps ==
  ASSUME AccountInv, NEW p \in Pass, ListChannels(p) PROVE AccountInv'
<1> DEFINE m    == pass[p].m
           next == [pc |-> "playlists", todo |-> pass[p].todo, m |-> m]
<1>1. /\ pass[p].pc = "channels" /\ UNCHANGED <<upstream, account, rows, stamped, later>>
      /\ PassesOK /\ TasteOK
  BY DEF ListChannels, yours, At, AccountInv
<1>2. m \in Member /\ pass[p].pc \in Signed
  BY <1>1 DEF PassesOK, RecordOK, Signed
<1>3. next.pc = "playlists" /\ next.m = m
  OBVIOUS
<1>4. \/ Goes(p, Verdict(p, TRUE)) /\ taste' = taste
      \/ Goes(p, next) /\ (taste' = taste \/ RecordsTaste(m, "follows", Follows[m]))
  BY DEF ListChannels
<1> HIDE DEF next
<1>5. RecordOK(next)
  BY <1>2, <1>3 DEF RecordOK, Signed
<1>6. Advances(p)
  BY <1>1, <1>2, <1>3, <1>4, <1>5, VerdictAdvances, SameHolds
<1>7. taste' = taste \/ TasteOK'
  BY <1>1, <1>2, <1>4, TasteKeeps
<1> QED
  BY <1>1, <1>6, <1>7, PassStepKeeps

LEMMA ListPlaylistsKeeps ==
  ASSUME AccountInv, NEW p \in Pass, ListPlaylists(p) PROVE AccountInv'
<1> DEFINE m    == pass[p].m
           next == [pc |-> "lists", todo |-> pass[p].todo, m |-> m,
                    seen |-> {l \in upstream.listed : Owner[l] = m}]
<1>1. /\ pass[p].pc = "playlists" /\ UNCHANGED <<upstream, account, rows, stamped, later, taste>>
      /\ PassesOK /\ upstream.listed \subseteq List
  BY DEF ListPlaylists, yours, catalog, At, AccountInv, Upstreams
<1>2. m \in Member /\ pass[p].pc \in Signed
  BY <1>1 DEF PassesOK, RecordOK, Signed
<1>3. next.pc = "lists" /\ next.m = m /\ next.seen \subseteq List
  BY <1>1
<1>4. \/ Goes(p, Verdict(p, TRUE)) \/ Goes(p, Reading(p, "feeds", 1, {}, FALSE)) \/ Goes(p, next)
  BY DEF ListPlaylists, FirstFeed
<1> HIDE DEF next
<1>5. RecordOK(next)
  BY <1>2, <1>3 DEF RecordOK, Signed
<1>6. Advances(p)
  BY <1>1, <1>2, <1>3, <1>4, <1>5, VerdictAdvances, ReadingAdvances, SameHolds
<1> QED
  BY <1>1, <1>6, PassStepKeeps

LEMMA NewRowIs == NewRow \in Row /\ Placed(NewRow.items)
<1> DEFINE none == [v \in {} |-> 0]
<1>1. DOMAIN none = {} /\ none \in [{} -> Nat]
  OBVIOUS
<1> HIDE DEF none
<1>2. Placed(none)
  BY <1>1, ItemsAre DEF Placed, IsInjective, Bounded
<1>3. NewRow = [items |-> none, unavailable |-> FALSE]
  BY DEF NewRow, none
<1> QED
  BY <1>2, <1>3 DEF Row, Placed

LEMMA WriteListsKeeps ==
  ASSUME AccountInv, NEW p \in Pass, WriteLists(p) PROVE AccountInv'
<1>1. /\ pass[p].pc = "lists" /\ UNCHANGED <<upstream, account, later, taste>>
      /\ PassesOK /\ RowsOK /\ StampsOK /\ Goes(p, Reading(p, "feeds", 1, {}, FALSE))
  BY DEF WriteLists, FirstFeed, yours, At, AccountInv
<1>2. pass[p].seen \subseteq List /\ pass[p].pc \in Signed
  BY <1>1 DEF PassesOK, RecordOK, Signed
<1>3. Advances(p)
  BY <1>1, <1>2, ReadingAdvances
<1>4. PICK keep \in SUBSET pass[p].seen :
        LET pruned == IF keep = {} THEN {}
                      ELSE {l \in DOMAIN rows : Owner[l] = pass[p].m /\ l \notin keep}
        IN  /\ rows' = [l \in (DOMAIN rows \cup keep) \ pruned |->
                          IF l \in DOMAIN rows THEN rows[l] ELSE NewRow]
            /\ stamped' = Only(stamped, List \ pruned)
  BY DEF WriteLists
<1> DEFINE pruned == IF keep = {} THEN {}
                     ELSE {l \in DOMAIN rows : Owner[l] = pass[p].m /\ l \notin keep}
<1>5. /\ rows' = [l \in (DOMAIN rows \cup keep) \ pruned |->
                    IF l \in DOMAIN rows THEN rows[l] ELSE NewRow]
      /\ stamped' = Only(stamped, List \ pruned)
  BY <1>4
<1> HIDE DEF pruned
<1>6. RowsOK'
  <2>1. DOMAIN rows' \subseteq List
    BY <1>1, <1>2, <1>5 DEF RowsOK
  <2>2. \A l \in DOMAIN rows' : rows'[l] = NewRow \/ (l \in DOMAIN rows /\ rows'[l] = rows[l])
    BY <1>5
  <2> QED
    BY <1>1, <2>1, <2>2, NewRowIs DEF RowsOK
<1>7. StampsOK'
  <2>1. /\ stamped \in Seq(List) /\ IsInjective(stamped)
        /\ Range(stamped) \subseteq DOMAIN rows
    BY <1>1 DEF StampsOK
  <2>2. /\ stamped' \in Seq(List) /\ IsInjective(stamped')
        /\ Range(stamped') = Range(stamped) \cap (List \ pruned)
    BY <1>5, <2>1, OnlyIs
  <2>3. Range(stamped') \subseteq DOMAIN rows'
    BY <1>5, <2>1, <2>2
  <2> QED
    BY <2>2, <2>3 DEF StampsOK
<1> QED
  BY <1>1, <1>3, <1>6, <1>7, PassStepKeeps

LEMMA MinOfTwo ==
  ASSUME NEW m \in Nat, NEW n \in Nat
  PROVE  Min({m, n}) = IF m <= n THEN m ELSE n
<1> DEFINE k == IF m <= n THEN m ELSE n
<1>1. k \in {m, n} /\ \A y \in {m, n} : k <= y
  OBVIOUS
<1>2. \A x \in {m, n} : (\A y \in {m, n} : x <= y) => x = k
  OBVIOUS
<1> QED
  BY <1>1, <1>2 DEF Min

LEMMA ReadIs ==
  ASSUME NEW q \in Contents
  PROVE  /\ Read(q) \in Seq(Video) /\ IsInjective(Read(q)) /\ Range(Read(q)) \subseteq Range(q)
         /\ Len(Read(q)) < Limit => Read(q) = q
<1>1. q \in Seq(Video) /\ IsInjective(q) /\ Limit \in Nat
  BY AccountMirrorAssumption
<1>2. Len(q) \in Nat /\ DOMAIN q = 1..Len(q)
  BY <1>1
<1> DEFINE n == Min({Limit, Len(q)})
<1>3. n = IF Limit <= Len(q) THEN Limit ELSE Len(q)
  BY <1>1, <1>2, MinOfTwo
<1>4. n \in Nat /\ n <= Len(q)
  BY <1>1, <1>2, <1>3
<1> HIDE DEF n
<1> DEFINE r == SubSeq(q, 1, n)
<1>5. /\ r \in Seq(Video) /\ Len(r) = n /\ DOMAIN r = 1..n
      /\ \A i \in 1..n : r[i] = q[i]
  BY <1>1, <1>2, <1>4
<1>6. Read(q) = r
  BY DEF Read, n
<1> HIDE DEF r
<1>7. IsInjective(r)
  BY <1>1, <1>2, <1>4, <1>5 DEF IsInjective
<1>8. Range(r) \subseteq Range(q)
  BY <1>2, <1>4, <1>5 DEF Range
<1>9. ASSUME n < Limit PROVE r = q
  <2>1. n = Len(q)
    <3>1. CASE Limit <= Len(q)
      <4>1. n = Limit
        BY <1>3, <3>1
      <4> QED
        BY <1>1, <1>9, <4>1
    <3>2. CASE ~(Limit <= Len(q))
      BY <1>3, <3>2
    <3> QED
      BY <3>1, <3>2
  <2> QED
    BY <1>1, <1>5, <2>1, SeqEqual
<1> QED
  BY <1>5, <1>6, <1>7, <1>8, <1>9

LEMMA ReadFeedKeeps ==
  ASSUME AccountInv, NEW p \in Pass, ReadFeed(p) PROVE AccountInv'
<1> DEFINE m    == pass[p].m
           read == Read(upstream.later[m])
<1>1. /\ pass[p].pc = "feeds" /\ UNCHANGED <<upstream, account, rows, stamped, later>>
      /\ PassesOK /\ TasteOK /\ upstream \in Upstreams
  BY DEF ReadFeed, yours, At, AccountInv
<1>2. m \in Member /\ pass[p].pc \in Signed /\ pass[p].ids \subseteq Video
  BY <1>1 DEF PassesOK, RecordOK, Signed
<1>3. Range(read) \subseteq Video
  <2>1. upstream.later[m] \in Contents
    BY <1>1, <1>2 DEF Upstreams
  <2>2. Range(upstream.later[m]) \subseteq Video
    BY <2>1, AccountMirrorAssumption DEF Range
  <2> QED
    BY <2>1, <2>2, ReadIs
<1>4. ASSUME NEW ids \in SUBSET Video, NEW complete, Goes(p, AfterFeed(p, ids, complete))
      PROVE  Advances(p)
  <2>1. \E pc \in {"feeds", "later"} : \E feed : Goes(p, Reading(p, pc, feed, ids, complete))
    BY <1>4 DEF AfterFeed
  <2> QED
    BY <1>1, <1>2, <2>1, ReadingAdvances
<1>5. \/ Goes(p, Verdict(p, TRUE)) /\ taste' = taste
      \/ /\ \E ids, complete : /\ ids \subseteq Video
                              /\ Goes(p, AfterFeed(p, ids, complete))
         /\ taste' = taste \/ RecordsTaste(m, "likes", Likes[m])
  BY <1>2, <1>3 DEF ReadFeed
<1>6. Advances(p)
  BY <1>1, <1>2, <1>4, <1>5, VerdictAdvances
<1>7. taste' = taste \/ TasteOK'
  BY <1>1, <1>2, <1>5, TasteKeeps
<1> QED
  BY <1>1, <1>6, <1>7, PassStepKeeps

LEMMA WriteLaterKeeps ==
  ASSUME AccountInv, NEW p \in Pass, WriteLater(p) PROVE AccountInv'
<1> DEFINE m == pass[p].m
<1>1. /\ pass[p].pc = "later" /\ UNCHANGED <<upstream, account, rows, stamped, taste>>
      /\ PassesOK /\ LaterOK /\ Goes(p, Verdict(p, FALSE))
  BY DEF WriteLater, yours, At, AccountInv
<1>2. m \in Member /\ pass[p].pc \in Signed /\ pass[p].ids \subseteq Video
  BY <1>1 DEF PassesOK, RecordOK, Signed
<1>3. Advances(p)
  BY <1>1, <1>2, VerdictAdvances
<1>4. later' = later \/ LaterOK'
  <2>1. \A videos \in SUBSET Video : \A complete :
          ImportedLater(videos, pass[p].ids, complete) \in SUBSET Video
    BY <1>2 DEF ImportedLater
  <2>2. \/ later' = later
        \/ later' = [later EXCEPT ![m] =
                       IF pass[p].ids = {} THEN @
                       ELSE ImportedLater(@, pass[p].ids, pass[p].complete)]
    BY DEF WriteLater
  <2> QED
    BY <1>1, <2>1, <2>2 DEF LaterOK
<1> QED
  BY <1>1, <1>3, <1>4, PassStepKeeps

LEMMA RecordedIs ==
  ASSUME NEW a \in Account, a.state = "EXPIRED" <=> a.failures >= FailureLimit, NEW failed
  PROVE  LET b == Recorded(a, failed)
         IN  /\ b \in Account
             /\ b.state = "EXPIRED" <=> b.failures >= FailureLimit
             /\ b.failures <= a.failures + 1
<1>1. FailureLimit \in Nat \ {0} /\ a.failures \in Nat
  BY AccountMirrorAssumption DEF Account
<1>2. CASE failed
  <2> DEFINE state == IF a.failures + 1 >= FailureLimit THEN "EXPIRED" ELSE a.state
             b == [a EXCEPT !.failures = a.failures + 1, !.state = state]
  <2>1. a.state \in {"OK", "EXPIRED"} /\ a.failures + 1 \in Nat
    BY <1>1 DEF Account
  <2>2. state \in {"OK", "EXPIRED"}
    BY <2>1
  <2>3. state = "EXPIRED" <=> a.failures + 1 >= FailureLimit
    BY <1>1, <2>1
  <2>4. Recorded(a, failed) = b
    BY <1>2 DEF Recorded
  <2> HIDE DEF state
  <2>5. b \in Account /\ b.failures = a.failures + 1 /\ b.state = state
    BY <2>1, <2>2 DEF Account
  <2> HIDE DEF b
  <2>6. b.failures <= a.failures + 1
    BY <1>1, <2>5
  <2> QED
    BY <2>3, <2>4, <2>5, <2>6
<1>3. CASE ~failed
  <2> DEFINE b == [a EXCEPT !.failures = 0, !.state = "OK"]
  <2>1. b \in Account /\ b.failures = 0 /\ b.state = "OK"
    BY DEF Account
  <2>2. Recorded(a, failed) = b
    BY <1>3 DEF Recorded
  <2> HIDE DEF b
  <2> QED
    BY <1>1, <2>1, <2>2
<1> QED
  BY <1>2, <1>3

LEMMA RecordPassKeeps ==
  ASSUME AccountInv, NEW p \in Pass, RecordPass(p) PROVE AccountInv'
<1> DEFINE m == pass[p].m
           r == [pc |-> "members", todo |-> pass[p].todo]
           new == Recorded(account[m], pass[p].failed)
<1>1. /\ pass[p].pc = "record" /\ UNCHANGED <<upstream, later, rows, stamped, taste>>
      /\ PassesOK /\ AccountsOK /\ Goes(p, r) /\ r.pc = "members"
      /\ account' = account \/ account' = [account EXCEPT ![m] = new]
  BY DEF RecordPass, yours, catalog, At, AccountInv
<1>2. m \in Member /\ pass[p].pc \in Signed
  BY <1>1 DEF PassesOK, RecordOK, Signed
<1> HIDE DEF r
<1>3. Advances(p)
  BY <1>1, FreeAdvances
<1>4. CASE account' = account
  BY <1>1, <1>3, <1>4, PassStepKeeps
<1>5. CASE account' = [account EXCEPT ![m] = new]
  <2>1. /\ account \in [Member -> Account] /\ account[m] \in Account /\ Counted(m)
    BY <1>1, <1>2 DEF AccountsOK
  <2>2. /\ new \in Account
        /\ new.state = "EXPIRED" <=> new.failures >= FailureLimit
        /\ new.failures <= account[m].failures + 1
    BY <2>1, RecordedIs DEF Counted
  <2> HIDE DEF new
  <2>3. /\ account' \in [Member -> Account] /\ account'[m] = new
        /\ \A n \in Member \ {m} : account'[n] = account[n]
    BY <1>2, <1>5, <2>1, <2>2
  <2>4. /\ PassesOK' /\ pass'[p] = r
        /\ \A q \in Pass \ {p} : pass'[q] = pass[q]
    <3>1. RecordOK(r)
      BY <1>1 DEF RecordOK, Signed
    <3> QED
      BY <1>1, <3>1, GoingIs, GoingKeeps
  <2>5. ASSUME NEW n \in Member PROVE Counted(n)'
    <3>1. /\ Holds(pass'[Timer], n) \in {0, 1} /\ Holds(pass'[Button], n) \in {0, 1}
          /\ Holds(pass[Timer], n) \in {0, 1} /\ Holds(pass[Button], n) \in {0, 1}
      BY OneOrNone
    <3>2. /\ Counted(n) /\ account[n].failures \in Nat /\ FailureLimit \in Nat
          /\ account'[n].failures \in Nat
      BY <1>1, <2>3, AccountMirrorAssumption DEF AccountsOK, Account
    <3>3. Holds(r, n) = 0
      BY <1>1 DEF Holds, Signed
    <3>4. CASE n = m
      <4>1. Holds(pass[p], n) = 1
        BY <1>2, <3>4 DEF Holds
      <4>2. Holds(pass'[Timer], n) + Holds(pass'[Button], n) + 1
              = Holds(pass[Timer], n) + Holds(pass[Button], n)
        <5>1. CASE p = Timer
          BY <2>4, <3>1, <3>3, <4>1, <5>1, TwoPasses
        <5>2. CASE p = Button
          BY <2>4, <3>1, <3>3, <4>1, <5>2, TwoPasses
        <5> QED
          BY <5>1, <5>2, TwoPasses
      <4>3. /\ account'[n].state = "EXPIRED" <=> account'[n].failures >= FailureLimit
            /\ account'[n].failures <= account[n].failures + 1
        BY <2>2, <2>3, <3>4
      <4> QED
        BY <3>1, <3>2, <4>2, <4>3 DEF Counted
    <3>5. CASE n # m
      <4>1. /\ Holds(pass'[Timer], n) <= Holds(pass[Timer], n)
            /\ Holds(pass'[Button], n) <= Holds(pass[Button], n)
        BY <2>4, <3>1, <3>3, TwoPasses
      <4>2. account'[n] = account[n]
        BY <2>3, <3>5
      <4> QED
        BY <3>1, <3>2, <4>1, <4>2 DEF Counted
    <3> QED
      BY <3>4, <3>5
  <2>6. AccountsOK'
    BY <2>3, <2>5 DEF AccountsOK
  <2> QED
    BY <1>1, <2>4, <2>6 DEF AccountInv, RowsOK, StampsOK, TasteOK, LaterOK
<1> QED
  BY <1>1, <1>4, <1>5

LEMMA ListDueKeeps ==
  ASSUME AccountInv, NEW p \in Pass, ListDue(p) PROVE AccountInv'
<1> DEFINE due(unread, stale) == [pc |-> "due", unread |-> unread, stale |-> stale]
<1>1. /\ UNCHANGED <<upstream, account, rows, stamped, later, taste>>
      /\ \E unread, stale : Goes(p, due(unread, stale))
  BY DEF ListDue, yours, catalog
<1>2. \A unread, stale : due(unread, stale).pc = "due"
  OBVIOUS
<1> HIDE DEF due
<1>3. Advances(p)
  BY <1>1, <1>2, FreeAdvances
<1> QED
  BY <1>1, <1>3, PassStepKeeps

\* A record that works on a playlist holds no session of its own.
LEMMA ListAdvances ==
  ASSUME NEW p, NEW r, Goes(p, r), RecordOK(r), r.pc \in {"read", "import"} PROVE Advances(p)
<1>1. \A m \in Member : Holds(r, m) = 0
  BY DEF Holds, Signed
<1>2. \A m \in Member : Holds(r, m) <= Holds(pass[p], m)
  BY <1>1, OneOrNone
<1> QED
  BY <1>2 DEF Advances

LEMMA TakeListKeeps ==
  ASSUME AccountInv, NEW p \in Pass, NEW l \in List, TakeList(p, l) PROVE AccountInv'
<1> DEFINE unread == pass[p].unread \ {l}
           stale  == Only(pass[p].stale, List \ {l})
           read   == [pc |-> "read", unread |-> unread, stale |-> stale, l |-> l]
           due    == [pc |-> "due", unread |-> unread, stale |-> stale]
<1>1. UNCHANGED <<upstream, account, rows, stamped, later, taste>>
  BY DEF TakeList, yours, catalog
<1>2. Goes(p, read) \/ Goes(p, due)
  BY DEF TakeList
<1>3. read.pc = "read" /\ read.l = l /\ due.pc = "due"
  OBVIOUS
<1> HIDE DEF read, due
<1>4. RecordOK(read)
  BY <1>3 DEF RecordOK, Signed
<1>5. Advances(p)
  BY <1>2, <1>3, <1>4, FreeAdvances, ListAdvances
<1> QED
  BY <1>1, <1>5, PassStepKeeps

LEMMA RestIsDue == ASSUME NEW p PROVE RestOf(p).pc = "due"
BY DEF RestOf

LEMMA StampKeeps ==
  ASSUME StampsOK, NEW l \in DOMAIN rows, DOMAIN rows \subseteq List,
         DOMAIN rows' = DOMAIN rows, Stamp(l)
  PROVE  StampsOK'
<1> DEFINE q == Only(stamped, List \ {l})
<1>1. stamped' = Append(q, l)
  BY DEF Stamp
<1>2. stamped \in Seq(List) /\ IsInjective(stamped) /\ Range(stamped) \subseteq DOMAIN rows
  BY DEF StampsOK
<1>3. /\ q \in Seq(List) /\ IsInjective(q)
      /\ Range(q) = Range(stamped) \cap (List \ {l})
  BY <1>2, OnlyIs
<1> HIDE DEF q
<1> DEFINE r == Append(q, l)
<1>4. /\ r \in Seq(List) /\ Len(q) \in Nat /\ DOMAIN q = 1..Len(q) /\ DOMAIN r = 1..(Len(q) + 1)
      /\ \A i \in 1..Len(q) : r[i] = q[i]
      /\ r[Len(q) + 1] = l
  BY <1>3
<1>5. stamped' = r
  BY <1>1
<1> HIDE DEF r
<1>6. \A i \in DOMAIN r : i \in DOMAIN q \/ i = Len(q) + 1
  BY <1>4
<1>7. \A i \in DOMAIN q : q[i] # l /\ q[i] \in DOMAIN rows
  BY <1>2, <1>3 DEF Range
<1>8. IsInjective(r)
  BY <1>3, <1>4, <1>6, <1>7 DEF IsInjective
<1>9. Range(r) \subseteq DOMAIN rows
  BY <1>4, <1>6, <1>7 DEF Range
<1> QED
  BY <1>4, <1>5, <1>8, <1>9 DEF StampsOK

LEMMA ReadListKeeps ==
  ASSUME AccountInv, NEW p \in Pass, ReadList(p) PROVE AccountInv'
<1> DEFINE l == pass[p].l
           import == [pc |-> "import", unread |-> pass[p].unread, stale |-> pass[p].stale,
                      l |-> l, read |-> Read(upstream.contents[l]),
                      all |-> Range(upstream.contents[l])]
<1>1. /\ pass[p].pc = "read" /\ UNCHANGED <<upstream, account, later, taste>>
      /\ PassesOK /\ RowsOK /\ StampsOK /\ upstream \in Upstreams
  BY DEF ReadList, yours, At, AccountInv
<1>2. l \in List
  BY <1>1 DEF PassesOK, RecordOK
<1>3. \/ Goes(p, RestOf(p)) /\ UNCHANGED <<rows, stamped>>
      \/ Goes(p, RestOf(p)) /\ MarkUnavailable(l)
      \/ l \notin Unreadable /\ Goes(p, import) /\ UNCHANGED <<rows, stamped>>
  BY DEF ReadList
<1>4. CASE Goes(p, RestOf(p)) /\ UNCHANGED <<rows, stamped>>
  BY <1>1, <1>4, RestIsDue, FreeAdvances, PassStepKeeps
<1>5. CASE Goes(p, RestOf(p)) /\ MarkUnavailable(l)
  <2>1. CASE l \notin DOMAIN rows
    BY <1>1, <1>5, <2>1, RestIsDue, FreeAdvances, PassStepKeeps DEF MarkUnavailable
  <2>2. CASE l \in DOMAIN rows
    <3>1. rows' = [rows EXCEPT ![l].unavailable = TRUE] /\ Stamp(l)
      BY <1>5, <2>2 DEF MarkUnavailable
    <3> DEFINE row == [rows[l] EXCEPT !.unavailable = TRUE]
    <3>2. rows[l] \in Row /\ Placed(rows[l].items)
      BY <1>1, <2>2 DEF RowsOK
    <3>3. row \in Row /\ row.items = rows[l].items
      BY <3>2 DEF Row
    <3>4. /\ DOMAIN rows' = DOMAIN rows /\ rows'[l] = row
          /\ \A k \in DOMAIN rows \ {l} : rows'[k] = rows[k]
      BY <2>2, <3>1
    <3> HIDE DEF row
    <3>5. RowsOK'
      BY <1>1, <3>2, <3>3, <3>4 DEF RowsOK
    <3>6. StampsOK'
      BY <1>1, <2>2, <3>1, <3>4, StampKeeps DEF RowsOK
    <3> QED
      BY <1>1, <1>5, <3>5, <3>6, RestIsDue, FreeAdvances, PassStepKeeps
  <2> QED
    BY <2>1, <2>2
<1>6. CASE l \notin Unreadable /\ Goes(p, import) /\ UNCHANGED <<rows, stamped>>
  <2>1. upstream.contents[l] \in Contents
    BY <1>1, <1>2, <1>6 DEF Upstreams
  <2>2. /\ import.pc = "import" /\ import.l = l /\ import.read = Read(upstream.contents[l])
        /\ import.all = Range(upstream.contents[l])
    OBVIOUS
  <2> HIDE DEF import
  <2>3. RecordOK(import)
    BY <1>2, <2>1, <2>2 DEF RecordOK, Signed
  <2>4. Advances(p)
    BY <1>6, <2>2, <2>3, ListAdvances
  <2> QED
    BY <1>1, <1>6, <2>4, PassStepKeeps
<1> QED
  BY <1>3, <1>4, <1>5, <1>6
LEMMA ImportItemsKeeps ==
  ASSUME AccountInv, NEW p \in Pass, ImportItems(p) PROVE AccountInv'
<1> DEFINE l    == pass[p].l
           read == pass[p].read
<1>1. /\ pass[p].pc = "import" /\ UNCHANGED <<upstream, account, later, taste>>
      /\ PassesOK /\ RowsOK /\ StampsOK /\ Goes(p, RestOf(p))
  BY DEF ImportItems, yours, At, AccountInv
<1>2. Advances(p)
  BY <1>1, RestIsDue, FreeAdvances
<1>3. CASE UNCHANGED <<rows, stamped>>
  BY <1>1, <1>2, <1>3, PassStepKeeps
<1>4. CASE \E written \in SUBSET Range(read) :
             /\ l \in DOMAIN rows
             /\ rows' = [rows EXCEPT ![l].items =
                           Imported(@, Only(read, written), IsWhole(read, written))]
             /\ Stamp(l)
  <2>1. PICK written \in SUBSET Range(read) :
          /\ l \in DOMAIN rows
          /\ rows' = [rows EXCEPT ![l].items =
                        Imported(@, Only(read, written), IsWhole(read, written))]
          /\ Stamp(l)
    BY <1>4
  <2> DEFINE items == Imported(rows[l].items, Only(read, written), IsWhole(read, written))
             row   == [rows[l] EXCEPT !.items = items]
  <2>2. read \in Seq(Video)
    BY <1>1, ReadIs DEF PassesOK, RecordOK
  <2>3. Only(read, written) \in Seq(Video)
    BY <2>2, OnlyIs
  <2>4. rows[l] \in Row /\ Placed(rows[l].items)
    BY <1>1, <2>1 DEF RowsOK
  <2>5. Placed(items)
    BY <2>3, <2>4, ImportIsPlaced
  <2>6. rows' = [rows EXCEPT ![l] = row]
    BY <2>1
  <2> HIDE DEF items
  <2>7. row \in Row /\ row.items = items
    BY <2>4, <2>5 DEF Row, Placed
  <2> HIDE DEF row
  <2>8. /\ DOMAIN rows' = DOMAIN rows /\ rows'[l] = row
        /\ \A k \in DOMAIN rows \ {l} : rows'[k] = rows[k]
    BY <2>1, <2>6
  <2>9. RowsOK'
    BY <1>1, <2>5, <2>7, <2>8 DEF RowsOK
  <2>10. StampsOK'
    BY <1>1, <2>1, <2>8, StampKeeps DEF RowsOK
  <2> QED
    BY <1>1, <1>2, <2>9, <2>10, PassStepKeeps
<1> QED
  BY <1>3, <1>4 DEF ImportItems

LEMMA EndPassKeeps ==
  ASSUME AccountInv, NEW p \in Pass, EndPass(p) PROVE AccountInv'
<1>1. Goes(p, Idle) /\ UNCHANGED <<upstream, account, rows, stamped, later, taste>>
  BY DEF EndPass, yours, catalog
<1>2. Idle.pc = "idle"
  BY DEF Idle
<1>3. Advances(p)
  BY <1>1, <1>2, FreeAdvances
<1> QED
  BY <1>1, <1>3, PassStepKeeps

-----------------------------------------------------------------------------
(* What members do, and the end of the process.                             *)

\* An account put in place anew may meet both passes at work with the old one.
LEMMA PlacedAnewKeeps ==
  ASSUME AccountInv, NEW m \in Member, NEW a \in Account, a.state = "OK", a.failures = 0,
         account' = [account EXCEPT ![m] = a],
         UNCHANGED <<upstream, pass, rows, stamped, later, taste>>
  PROVE  AccountInv'
<1>1. account \in [Member -> Account] /\ \A n \in Member : Counted(n)
  BY DEF AccountInv, AccountsOK
<1>2. /\ account' \in [Member -> Account] /\ account'[m] = a
      /\ \A n \in Member \ {m} : account'[n] = account[n]
  BY <1>1
<1>3. ASSUME NEW n \in Member PROVE Counted(n)'
  <2>1. CASE n = m
    <3>1. Holds(pass'[Timer], n) \in {0, 1} /\ Holds(pass'[Button], n) \in {0, 1}
      BY OneOrNone
    <3>2. FailureLimit \in Nat \ {0} /\ account'[n].failures = 0 /\ account'[n].state = "OK"
      BY <1>2, <2>1, AccountMirrorAssumption
    <3> QED
      BY <3>1, <3>2 DEF Counted
  <2>2. CASE n # m
    BY <1>1, <1>2, <2>2 DEF Counted
  <2> QED
    BY <2>1, <2>2
<1> QED
  BY <1>2, <1>3 DEF AccountInv, PassesOK, AccountsOK, RowsOK, StampsOK, TasteOK, LaterOK

LEMMA FreshIs ==
  /\ Fresh \in Account /\ Fresh.state = "OK" /\ Fresh.failures = 0
  /\ LET none == [Fresh EXCEPT !.file = FALSE]
     IN  none \in Account /\ none.state = "OK" /\ none.failures = 0
BY DEF Fresh, Account

LEMMA ListsChangeKeeps ==
  ASSUME AccountInv, ListsChange PROVE AccountInv'
<1>1. UNCHANGED <<account, pass, rows, stamped, later, taste>> /\ upstream \in Upstreams
  BY DEF ListsChange, catalog, AccountInv
<1>2. upstream' \in Upstreams
  <2>1. CASE \E l \in List \ Unreadable, q \in Contents : upstream' = [upstream EXCEPT !.contents[l] = q]
    BY <1>1, <2>1 DEF Upstreams
  <2>2. CASE \E m \in Member, q \in Contents : upstream' = [upstream EXCEPT !.later[m] = q]
    BY <1>1, <2>2 DEF Upstreams
  <2>3. CASE \E l \in List : upstream' = [upstream EXCEPT !.listed = SymDiff(@, {l})]
    BY <1>1, <2>3 DEF Upstreams, SymDiff
  <2> QED
    BY <2>1, <2>2, <2>3 DEF ListsChange
<1> QED
  BY <1>1, <1>2 DEF AccountInv, PassesOK, AccountsOK, Counted, RowsOK, StampsOK, TasteOK, LaterOK

LEMMA CrashKeeps ==
  ASSUME AccountInv, Crash PROVE AccountInv'
<1>1. /\ UNCHANGED <<upstream, account, rows, stamped, later, taste>>
      /\ pass' = [p \in Pass |-> Idle]
  BY DEF Crash, yours, catalog
<1>2. DOMAIN pass' = Pass /\ \A p \in Pass : pass'[p] = Idle /\ Idle.pc = "idle"
  BY <1>1 DEF Idle
<1>3. \A p \in Pass : RecordOK(pass'[p]) /\ \A m \in Member : Holds(pass'[p], m) = 0
  BY <1>2 DEF RecordOK, Holds, Signed
<1>4. ASSUME NEW m \in Member PROVE Counted(m)'
  <2>1. /\ Holds(pass'[Timer], m) = 0 /\ Holds(pass'[Button], m) = 0
        /\ Holds(pass[Timer], m) \in {0, 1} /\ Holds(pass[Button], m) \in {0, 1}
    BY <1>3, TwoPasses, OneOrNone
  <2>2. Counted(m) /\ account[m].failures \in Nat /\ FailureLimit \in Nat
    BY AccountMirrorAssumption DEF AccountInv, AccountsOK, Account
  <2> QED
    BY <1>1, <2>1, <2>2 DEF Counted
<1> QED
  BY <1>1, <1>2, <1>3, <1>4 DEF AccountInv, PassesOK, AccountsOK, RowsOK, StampsOK, TasteOK, LaterOK

LEMMA PassGoesOnKeeps ==
  ASSUME AccountInv, NEW p \in Pass, PassGoesOn(p) PROVE AccountInv'
BY BeginKeeps, ListChannelsKeeps, ListPlaylistsKeeps, WriteListsKeeps, ReadFeedKeeps, WriteLaterKeeps,
   RecordPassKeeps, ListDueKeeps, ReadListKeeps, ImportItemsKeeps, EndPassKeeps, TakeMemberKeeps,
   TakeListKeeps DEF PassGoesOn

LEMMA MembersActKeeps ==
  ASSUME AccountInv, MembersAct PROVE AccountInv'
<1>1. CASE ListsChange
  BY <1>1, ListsChangeKeeps
<1>2. ASSUME NEW m \in Member, PressesButton(m) PROVE AccountInv'
  BY <1>2, PressKeeps, TwoPasses DEF PressesButton
<1>3. ASSUME NEW m \in Member, PasteCookies(m) PROVE AccountInv'
  BY <1>3, FreshIs, PlacedAnewKeeps DEF PasteCookies, catalog
<1>4. ASSUME NEW m \in Member, RemoveAccount(m) PROVE AccountInv'
  BY <1>4, FreshIs, PlacedAnewKeeps DEF RemoveAccount, yours, catalog
<1>5. ASSUME NEW m \in Member, SessionEnds(m) PROVE AccountInv'
  <2>1. UNCHANGED <<upstream, account, pass, rows, stamped, later, taste>>
    BY <1>5 DEF SessionEnds, catalog
  <2> QED
    BY <2>1 DEF AccountInv, PassesOK, AccountsOK, Counted, RowsOK, StampsOK, TasteOK, LaterOK
<1> QED
  BY <1>1, <1>2, <1>3, <1>4, <1>5 DEF MembersAct

LEMMA StepKeeps == AccountInv /\ [Next]_vars => AccountInv'
<1> SUFFICES ASSUME AccountInv, [Next]_vars PROVE AccountInv'
  OBVIOUS
<1>1. CASE Hourly
  BY <1>1, PressKeeps, TwoPasses DEF Hourly
<1>2. CASE UNCHANGED vars
  BY <1>2 DEF vars, yours, catalog, AccountInv, PassesOK, AccountsOK, Counted, RowsOK, StampsOK, TasteOK, LaterOK
<1> QED
  BY <1>1, <1>2, MembersActKeeps, CrashKeeps, PassGoesOnKeeps DEF Next

LEMMA AccountInvHolds == Spec => []AccountInv
BY InitKeeps, StepKeeps, PTL DEF Spec

-----------------------------------------------------------------------------
(* What readers are promised.                                               *)

\* Rows are well formed, no two videos of a playlist share a place, a playlist
\* is stamped once, and no account is failed more often than the limit and one
\* pass more: both passes may have had the session in hand when it was given
\* up (accounts.go scanOne, accountfile RecordScan).
THEOREM AccountsAreTyped == Spec => []AccountsTypeOK
<1>1. AccountInv => AccountsTypeOK
  <2> SUFFICES ASSUME AccountInv PROVE AccountsTypeOK
    OBVIOUS
  <2>1. account \in [Member -> [file : BOOLEAN, state : {"OK", "EXPIRED"},
                                failures : 0..(FailureLimit + 1)]]
    <3>1. account \in [Member -> Account]
      BY DEF AccountInv, AccountsOK
    <3>2. ASSUME NEW m \in Member
          PROVE  account[m] \in [file : BOOLEAN, state : {"OK", "EXPIRED"},
                                 failures : 0..(FailureLimit + 1)]
      <4>1. Holds(pass[Timer], m) \in {0, 1} /\ Holds(pass[Button], m) \in {0, 1}
        BY OneOrNone
      <4>2. Counted(m) /\ account[m] \in Account /\ account[m].failures \in Nat /\ FailureLimit \in Nat
        BY <3>1, AccountMirrorAssumption DEF AccountInv, AccountsOK, Account
      <4>3. account[m].failures \in 0..(FailureLimit + 1)
        BY <4>1, <4>2 DEF Counted
      <4> QED
        BY <4>2, <4>3 DEF Account
    <3> QED
      BY <3>1, <3>2
  <2>2. \A l \in DOMAIN rows : DOMAIN rows[l].items \subseteq Video /\ IsInjective(rows[l].items)
    BY ItemsAre DEF AccountInv, RowsOK, Placed
  <2> QED
    BY <2>1, <2>2 DEF AccountInv, RowsOK, StampsOK, TasteOK, LaterOK, AccountsTypeOK
<1> QED
  BY <1>1, AccountInvHolds, PTL
FaultsOK == faults \in Nat

FaultsCount == faults' = faults \/ faults' = faults + 1

LEMMA PassesCount ==
  ASSUME NEW p, PassGoesOn(p) PROVE FaultsCount
<1>1. \A m : Refused(m) \/ Answered(m) \/ Fault \/ UNCHANGED faults => FaultsCount
  BY DEF Refused, Answered, Fault, FaultsCount
<1>2. \A all, written : WritesSome(all, written) => FaultsCount
  BY DEF WritesSome, Fault, FaultsCount
<1>3. \A m, kind, all : RecordsTaste(m, kind, all) => FaultsCount
  BY <1>2 DEF RecordsTaste
<1>4. Begin(p) \/ EndPass(p) \/ (\E m \in Member : TakeMember(p, m)) \/ (\E l \in List : TakeList(p, l))
        => FaultsCount
  BY DEF Begin, EndPass, TakeMember, TakeList, bounds, FaultsCount
<1>5. ListChannels(p) \/ ListPlaylists(p) => FaultsCount
  BY <1>1, <1>3 DEF ListChannels, ListPlaylists
<1>6. WriteLists(p) \/ ImportItems(p) => FaultsCount
  BY <1>1, <1>2 DEF WriteLists, ImportItems
<1>7. ReadFeed(p) => FaultsCount
  BY <1>1, <1>2, <1>3 DEF ReadFeed
<1>8. WriteLater(p) \/ RecordPass(p) \/ ListDue(p) \/ ReadList(p) => FaultsCount
  BY <1>1 DEF WriteLater, RecordPass, ListDue, ReadList
<1> QED
  BY <1>4, <1>5, <1>6, <1>7, <1>8 DEF PassGoesOn

LEMMA FaultsAreCounted == Spec => []FaultsOK
<1>1. Init => FaultsOK
  BY DEF Init, FaultsOK
<1>2. FaultsOK /\ [Next]_vars => FaultsOK'
  <2>1. Hourly \/ MembersAct \/ Crash \/ UNCHANGED vars => FaultsCount
    BY DEF Hourly, MembersAct, Press, PressesButton, PasteCookies, RemoveAccount, SessionEnds,
           ListsChange, Crash, Fault, vars, bounds, FaultsCount
  <2> QED
    BY <2>1, PassesCount DEF Next, FaultsOK, FaultsCount
<1> QED
  BY <1>1, <1>2, PTL DEF Spec

\* Why a video is taken off a playlist.
Excused(l, v) ==
  \E p \in Pass :
    /\ At(p, "import") /\ pass[p].l = l
    /\ v \notin pass[p].all \/ (v \in Range(pass[p].read) /\ faults' > faults)

LEMMA ImportExcuses ==
  ASSUME AccountInv, FaultsOK, NEW p \in Pass, ImportItems(p),
         NEW l \in DOMAIN rows, NEW v \in DOMAIN rows[l].items \ DOMAIN rows'[l].items
  PROVE  Excused(l, v)
<1> DEFINE read == pass[p].read
<1>1. /\ At(p, "import") /\ pass[p].pc = "import"
      /\ PassesOK /\ RowsOK /\ rows' # rows
  BY DEF ImportItems, At, AccountInv
<1>2. PICK written \in SUBSET Range(read) :
        /\ WritesSome(Range(read), written)
        /\ pass[p].l \in DOMAIN rows
        /\ rows' = [rows EXCEPT ![pass[p].l].items =
                      Imported(@, Only(read, written), IsWhole(read, written))]
  BY <1>1 DEF ImportItems
<1> DEFINE items == Imported(rows[l].items, Only(read, written), IsWhole(read, written))
<1>3. pass[p].l = l
  BY <1>2
<1>4. rows[l] \in Row /\ Placed(rows[l].items)
  BY <1>1 DEF RowsOK
<1>5. rows' = [rows EXCEPT ![l] = [rows[l] EXCEPT !.items = items]]
  BY <1>2, <1>3
<1> HIDE DEF items
<1>6. rows'[l].items = items
  BY <1>4, <1>5 DEF Row
<1>7. PICK q \in Contents : read = Read(q) /\ pass[p].all = Range(q)
  BY <1>1 DEF PassesOK, RecordOK
<1>8. read \in Seq(Video) /\ (Len(read) < Limit => read = q)
  BY <1>7, ReadIs
<1>9. /\ Only(read, written) \in Seq(Video)
      /\ Range(Only(read, written)) = Range(read) \cap written
  BY <1>8, OnlyIs
<1>10. IsWhole(read, written) /\ v \notin Range(read) \cap written
  BY <1>4, <1>6, <1>9, ImportIsPlaced DEF items
<1>11. read = q
  BY <1>8, <1>10 DEF IsWhole
<1>12. CASE v \notin Range(read)
  BY <1>1, <1>3, <1>7, <1>11, <1>12 DEF Excused
<1>13. CASE v \in Range(read)
  <2>1. written # Range(read)
    BY <1>10, <1>13
  <2>2. faults' > faults
    BY <1>2, <2>1 DEF WritesSome, Fault, FaultsOK
  <2> QED
    BY <1>1, <1>3, <1>13, <2>2 DEF Excused
<1> QED
  BY <1>12, <1>13

\* The other steps that write rows leave the videos of the ones that stay.
LEMMA OthersRemoveNone ==
  ASSUME AccountInv, [Next]_vars, NEW l \in DOMAIN rows \cap DOMAIN rows',
         \A p \in Pass : ~ImportItems(p)
  PROVE  rows'[l].items = rows[l].items
<1>1. CASE rows' = rows
  BY <1>1
<1>2. ASSUME NEW p \in Pass, WriteLists(p) PROVE rows'[l].items = rows[l].items
  <2>1. \A keep, pruned, new :
          rows' = [k \in (DOMAIN rows \cup keep) \ pruned |-> IF k \in DOMAIN rows THEN rows[k] ELSE new]
            => rows'[l] = rows[l]
    OBVIOUS
  <2> QED
    BY <1>2, <2>1 DEF WriteLists
<1>3. ASSUME NEW p \in Pass, ReadList(p), rows' # rows PROVE rows'[l].items = rows[l].items
  <2>1. \E k \in DOMAIN rows : rows' = [rows EXCEPT ![k].unavailable = TRUE]
    BY <1>3 DEF ReadList, MarkUnavailable
  <2>2. rows[l] \in Row
    BY DEF AccountInv, RowsOK
  <2> QED
    BY <2>1, <2>2 DEF Row
<1>4. \/ rows' = rows
      \/ \E p \in Pass : WriteLists(p) \/ ReadList(p)
  BY DEF Next, MembersAct, Hourly, Press, PressesButton, PasteCookies, RemoveAccount, SessionEnds,
         ListsChange, Crash, PassGoesOn, Begin, ListChannels, ListPlaylists, ReadFeed,
         WriteLater, RecordPass, ListDue, EndPass, TakeMember, TakeList, vars, catalog
<1> QED
  BY <1>1, <1>2, <1>3, <1>4

\* A pass takes a video off a playlist only if the read it writes went past the
\* end of the list and did not meet it, or could not write it: whatever lies
\* beyond the cap stays (accounts.go mirrorLists, repository.go
\* ImportPlaylistItems).
THEOREM OnlyUnseenAreRemoved == Spec => RemovedOnlyIfUnseen
<1> DEFINE Unseen == \A l \in DOMAIN rows \cap DOMAIN rows' :
                      \A v \in DOMAIN rows[l].items \ DOMAIN rows'[l].items : Excused(l, v)
<1>1. AccountInv /\ FaultsOK /\ [Next]_vars => [Unseen]_<<rows, pass, faults>>
  <2> SUFFICES ASSUME AccountInv, FaultsOK, [Next]_vars,
                      NEW l \in DOMAIN rows \cap DOMAIN rows',
                      NEW v \in DOMAIN rows[l].items \ DOMAIN rows'[l].items
               PROVE  Excused(l, v)
    OBVIOUS
  <2>1. PICK p \in Pass : ImportItems(p)
    BY OthersRemoveNone
  <2> QED
    BY <2>1, ImportExcuses
<1>2. [Unseen]_<<rows, pass, faults>> <=>
        [\A l \in DOMAIN rows \cap DOMAIN rows' :
           \A v \in DOMAIN rows[l].items \ DOMAIN rows'[l].items :
             \E p \in Pass :
               /\ At(p, "import") /\ pass[p].l = l
               /\ v \notin pass[p].all \/ (v \in Range(pass[p].read) /\ faults' > faults)]_<<rows, pass, faults>>
  BY DEF Excused
<1> QED
  BY <1>1, <1>2, AccountInvHolds, FaultsAreCounted, PTL DEF Spec, RemovedOnlyIfUnseen
=============================================================================
