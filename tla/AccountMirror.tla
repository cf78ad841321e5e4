---------------------------- MODULE AccountMirror ----------------------------
(***************************************************************************)
(* The household's own YouTube accounts (ING/usecase/accounts.go,           *)
(* ING/adapter/accountfile): an hourly pass, or a member's press of Scan    *)
(* now, reads each account's feeds with its session and mirrors playlists   *)
(* and Watch later in the catalog, which deletes what a whole read did not  *)
(* show.                                                                    *)
(*                                                                          *)
(* Each request upstream is a step, and so is each answer's writing: what   *)
(* it writes is as old as the read.  A catalog handler is one transaction.  *)
(* Fewer than firstFillLimit playlists are unread at a time.  Names,        *)
(* artwork, the figures and words of the status screen, and the rows of     *)
(* channels and videos, which every write here puts in place first, are     *)
(* left out.                                                                *)
(***************************************************************************)
EXTENDS Integers, FiniteSetsExt, SequencesExt

CONSTANTS
  Member, List, Video,
  Owner,            \* whose playlist it is
  Unreadable,       \* playlists upstream names and refuses to hand over
  Follows, Likes,   \* what each member follows and likes upstream
  Contents,         \* what lists upstream may hold: sequences of videos
  Limit,            \* playlistItemLimit, accountFeedLimit: how deep a read goes
  Rereads,          \* playlistRereadsPerPass
  FailureLimit,     \* AccountFailureLimit
  Timer, Button,    \* who starts a pass
  Everybody,        \* no onlyUser
  MaxEvents,        \* bound: what members do here and on YouTube
  MaxFaults         \* bound: refusals, calls that fail, crashes

ASSUME AccountMirrorAssumption ==
  /\ Owner \in [List -> Member] /\ Unreadable \subseteq List
  /\ \A q \in Contents : q \in Seq(Video) /\ IsInjective(q)
  /\ Limit \in Nat \ {0} /\ Rereads \in Nat \ {0} /\ FailureLimit \in Nat \ {0}
  /\ Everybody \notin Member /\ Timer # Button
  /\ MaxEvents \in Nat /\ MaxFaults \in Nat

VARIABLES
  upstream,    \* what YouTube holds: listed playlists, their contents, Watch later
  session,     \* whether the pasted session still works, by member
  account,     \* accounts.json, and whether the cookie file is there
  rows,        \* imported playlists of the catalog, with their items
  stamped,     \* those with items_synced_at, longest ago first
  later,       \* watch_later
  taste,       \* subscriptions and likes in the catalog, and the ranker's own
  pass,        \* what each starter's pass is doing
  running,     \* AccountScanner.running
  events, faults

yours     == <<upstream, session>>
catalog   == <<rows, stamped, later, taste>>
bounds    == <<events, faults>>
vars      == <<yours, account, catalog, pass, running, bounds>>

Pass == {Timer, Button}
Idle == [pc |-> "idle"]

Account == [file : BOOLEAN, state : {"OK", "EXPIRED"}, failures : Nat]
Fresh   == [file |-> TRUE, state |-> "OK", failures |-> 0]
NewRow  == [items |-> [v \in {} |-> 0], unavailable |-> FALSE]

Init ==
  /\ upstream \in [listed : {List}, contents : [List \ Unreadable -> Contents], later : [Member -> Contents]]
  /\ session = [m \in Member |-> "live"]
  /\ account = [m \in Member |-> Fresh]
  /\ rows = [l \in {} |-> NewRow] /\ stamped = <<>>
  /\ later = [m \in Member |-> {}]
  /\ taste = [m \in Member |-> [follows |-> {}, likes |-> {}, ranked |-> {}]]
  /\ pass = [p \in Pass |-> Idle] /\ running = FALSE
  /\ events = 0 /\ faults = 0

Event == events < MaxEvents /\ events' = events + 1
Fault == faults < MaxFaults /\ faults' = faults + 1

\* Of what a loop writes one by one, any part may fail; the rest is written.
WritesSome(all, written) ==
  /\ written \subseteq all
  /\ IF written = all THEN UNCHANGED faults ELSE Fault

-----------------------------------------------------------------------------
(* What the catalog does with an import.                                    *)

Place(q, v) == CHOOSE i \in DOMAIN q : q[i] = v

\* What of q is in s, in its order: SelectSeq, which provers do not look into.
Only(q, s) ==
  LET upTo[n \in 0..Len(q)] ==
        IF n = 0 THEN <<>>
        ELSE IF q[n] \in s THEN Append(upTo[n - 1], q[n]) ELSE upTo[n - 1]
  IN  upTo[Len(q)]

\* ImportPlaylistItems: a whole read rewrites the positions of what is there
\* and removes the rest; what is new goes to the end.
Imported(items, ids, complete) ==
  LET kept == IF complete /\ ids # <<>>
              THEN [v \in DOMAIN items \cap Range(ids) |-> Place(ids, v)] ELSE items
      new  == Only(ids, Video \ DOMAIN items)
      last == Max({0} \cup Range(kept))
  IN  [v \in DOMAIN kept \cup Range(new) |->
         IF v \in DOMAIN kept THEN kept[v] ELSE last + Place(new, v)]

\* Variant: a whole read of Watch later only adds too.
ImportedLaterAdding(videos, ids, complete) == videos \cup ids

ImportedLater(videos, ids, complete) ==
  IF complete /\ ids # {} THEN ids ELSE videos \cup ids

Stamp(l) == stamped' = Append(Only(stamped, List \ {l}), l)

Unread == {l \in DOMAIN rows : l \notin Range(stamped) /\ ~rows[l].unavailable}

\* Longest ago first, and only so many.
Stale ==
  LET due == Only(stamped, {l \in DOMAIN rows : ~rows[l].unavailable})
  IN  SubSeq(due, 1, Min({Rereads, Len(due)}))

-----------------------------------------------------------------------------
(* A pass.                                                                  *)

At(p, pc)  == pass[p].pc = pc
Goes(p, r) == pass' = [pass EXCEPT ![p] = r]

\* The flag is read, and set later, by whoever asks: nothing holds it between.
Press(p, only) ==
  /\ At(p, "idle") /\ ~running
  /\ Goes(p, [pc |-> "checked", only |-> only])
  /\ UNCHANGED <<yours, account, catalog, running, faults>>

Begin(p) ==
  /\ At(p, "checked")
  /\ running' = TRUE
  /\ Goes(p, [pc   |-> "members",
              todo |-> {m \in Member : pass[p].only \in {m, Everybody}
                                       /\ account[m].state # "EXPIRED"}])
  /\ UNCHANGED <<yours, account, catalog, bounds>>

\* CookiePath: a file, and not of a session given up.
Usable(m) == account[m].file /\ account[m].state # "EXPIRED"

TakeMember(p, m) ==
  /\ At(p, "members") /\ m \in pass[p].todo
  /\ LET rest == pass[p].todo \ {m}
     IN  Goes(p, IF Usable(m) THEN [pc |-> "channels", todo |-> rest, m |-> m]
                 ELSE [pc |-> "members", todo |-> rest])
  /\ UNCHANGED <<yours, account, catalog, running, bounds>>

\* A request as m.  A session that is over is told so, and one that is not may
\* be, in a bad hour; any request may fail for another reason.
Refused(m) == IF session[m] = "dead" THEN UNCHANGED faults ELSE Fault
Answered(m) == session[m] = "live" /\ UNCHANGED faults

Verdict(p, failed) == [pc |-> "record", todo |-> pass[p].todo, m |-> pass[p].m, failed |-> failed]
Reading(p, pc, feed, ids, complete) ==
  [pc |-> pc, todo |-> pass[p].todo, m |-> pass[p].m, feed |-> feed, ids |-> ids, complete |-> complete]
FirstFeed(p) == Reading(p, "feeds", 1, {}, FALSE)

\* Written in the catalog, then told to the ranker; either may fail.
RecordsTaste(m, kind, all) ==
  \E told \in SUBSET all :
    /\ WritesSome(all, told)
    /\ \E written \in {told, all} :
         taste' = [taste EXCEPT ![m][kind] = @ \cup written, ![m].ranked = @ \cup told]

ListChannels(p) ==
  /\ At(p, "channels")
  /\ LET m == pass[p].m
         next == [pc |-> "playlists", todo |-> pass[p].todo, m |-> m]
     IN  \/ Refused(m) /\ Goes(p, Verdict(p, TRUE)) /\ UNCHANGED taste
         \/ Fault /\ Goes(p, next) /\ UNCHANGED taste
         \/ /\ session[m] = "live"
            /\ Goes(p, next)
            /\ RecordsTaste(m, "follows", Follows[m])
  /\ UNCHANGED <<yours, account, rows, stamped, later, running, events>>

ListPlaylists(p) ==
  /\ At(p, "playlists")
  /\ LET m == pass[p].m
     IN  \/ Refused(m) /\ Goes(p, Verdict(p, TRUE))
         \/ Fault /\ Goes(p, FirstFeed(p))
         \/ /\ Answered(m)
            /\ Goes(p, [pc |-> "lists", todo |-> pass[p].todo, m |-> m,
                        seen |-> {l \in upstream.listed : Owner[l] = m}])
  /\ UNCHANGED <<yours, account, catalog, running, events>>

\* Playlists are written one by one, and those not written are pruned with
\* those upstream no longer names; a list with nothing in it prunes nothing.
WriteLists(p) ==
  /\ At(p, "lists")
  /\ \E keep \in SUBSET pass[p].seen :
       /\ WritesSome(pass[p].seen, keep)
       /\ LET pruned == IF keep = {} THEN {}
                        ELSE {l \in DOMAIN rows : Owner[l] = pass[p].m /\ l \notin keep}
          IN  /\ rows' = [l \in (DOMAIN rows \cup keep) \ pruned |->
                            IF l \in DOMAIN rows THEN rows[l] ELSE NewRow]
              /\ stamped' = Only(stamped, List \ pruned)
  /\ Goes(p, FirstFeed(p))
  /\ UNCHANGED <<yours, account, later, taste, running, events>>

Feeds == <<"subscriptions", "liked", "watchLater", "recommended">>

Read(q) == SubSeq(q, 1, Min({Limit, Len(q)}))

\* Variant: judged by what could be written of the read.
IsWholeAsWritten(read, written) == Cardinality(written) < Limit

\* A read that came back at the cap is a first page.
IsWhole(read, written) == Len(read) < Limit

AfterFeed(p, ids, complete) ==
  IF pass[p].feed = Len(Feeds)
  THEN Reading(p, "later", pass[p].feed, ids, complete)
  ELSE Reading(p, "feeds", pass[p].feed + 1, ids, complete)

\* Of the uploads and the recommendations only videos are kept.
ReadFeed(p) ==
  /\ At(p, "feeds")
  /\ LET m    == pass[p].m
         feed == Feeds[pass[p].feed]
         next == AfterFeed(p, pass[p].ids, pass[p].complete)
     IN  \/ Refused(m) /\ Goes(p, Verdict(p, TRUE)) /\ UNCHANGED taste
         \/ Fault /\ Goes(p, next) /\ UNCHANGED taste
         \/ /\ feed \in {"subscriptions", "recommended"} /\ Answered(m)
            /\ Goes(p, next) /\ UNCHANGED taste
         \/ /\ feed = "liked" /\ session[m] = "live"
            /\ Goes(p, next)
            /\ RecordsTaste(m, "likes", Likes[m])
         \/ /\ feed = "watchLater" /\ session[m] = "live"
            /\ LET read == Read(upstream.later[m])
               IN  \E ids \in SUBSET Range(read) :
                     /\ WritesSome(Range(read), ids)
                     /\ Goes(p, AfterFeed(p, ids, IsWhole(read, ids)))
            /\ UNCHANGED taste
  /\ UNCHANGED <<yours, account, rows, stamped, later, running, events>>

\* Nothing found is not an emptied list.
WriteLater(p) ==
  /\ At(p, "later")
  /\ LET m == pass[p].m
     IN  \/ /\ later' = [later EXCEPT ![m] =
                           IF pass[p].ids = {} THEN @
                           ELSE ImportedLater(@, pass[p].ids, pass[p].complete)]
            /\ UNCHANGED faults
         \/ Fault /\ UNCHANGED later
  /\ Goes(p, Verdict(p, FALSE))
  /\ UNCHANGED <<yours, account, rows, stamped, taste, running, events>>

\* Variant: the failures are not counted up.
RecordedOnce(a, failed) ==
  IF failed
  THEN [a EXCEPT !.failures = 1, !.state = IF a.failures >= FailureLimit THEN "EXPIRED" ELSE @]
  ELSE [a EXCEPT !.failures = 0, !.state = "OK"]

\* Variant: an account over the limit is only said to have failed.
RecordedMildly(a, failed) ==
  [a EXCEPT !.failures = IF failed THEN @ + 1 ELSE 0]

\* Failures in a row; a pass that was not told the session is over clears them.
Recorded(a, failed) ==
  IF failed
  THEN [a EXCEPT !.failures = @ + 1,
                 !.state = IF a.failures + 1 >= FailureLimit THEN "EXPIRED" ELSE @]
  ELSE [a EXCEPT !.failures = 0, !.state = "OK"]

RecordPass(p) ==
  /\ At(p, "record")
  /\ \/ /\ account' = [account EXCEPT ![pass[p].m] = Recorded(@, pass[p].failed)]
        /\ UNCHANGED faults
     \/ Fault /\ UNCHANGED account
  /\ Goes(p, [pc |-> "members", todo |-> pass[p].todo])
  /\ UNCHANGED <<yours, catalog, running, events>>

\* Then the playlists of the whole household, whoever pressed.
ListDue(p) ==
  /\ At(p, "members") /\ pass[p].todo = {}
  /\ \/ Goes(p, [pc |-> "due", unread |-> Unread, stale |-> Stale]) /\ UNCHANGED faults
     \/ Goes(p, [pc |-> "due", unread |-> {}, stale |-> Stale]) /\ Fault
     \/ Goes(p, [pc |-> "due", unread |-> Unread, stale |-> <<>>]) /\ Fault
  /\ UNCHANGED <<yours, account, catalog, running, events>>

Due(p) ==
  IF pass[p].unread # {} THEN pass[p].unread
  ELSE IF pass[p].stale = <<>> THEN {} ELSE {Head(pass[p].stale)}

\* One whose owner has no working session is passed over.
TakeList(p, l) ==
  /\ At(p, "due") /\ l \in Due(p)
  /\ LET unread == pass[p].unread \ {l}
         stale  == Only(pass[p].stale, List \ {l})
     IN  Goes(p, IF Usable(Owner[l])
                 THEN [pc |-> "read", unread |-> unread, stale |-> stale, l |-> l]
                 ELSE [pc |-> "due", unread |-> unread, stale |-> stale])
  /\ UNCHANGED <<yours, account, catalog, running, bounds>>

RestOf(p) == [pc |-> "due", unread |-> pass[p].unread, stale |-> pass[p].stale]

MarkUnavailable(l) ==
  IF l \in DOMAIN rows
  THEN rows' = [rows EXCEPT ![l].unavailable = TRUE] /\ Stamp(l)
  ELSE UNCHANGED <<rows, stamped>>

\* That the session is over is one more reason not to have read it.
ReadList(p) ==
  /\ At(p, "read")
  /\ LET l == pass[p].l
     IN  \/ Refused(Owner[l]) /\ Goes(p, RestOf(p)) /\ UNCHANGED <<rows, stamped>>
         \/ Fault /\ Goes(p, RestOf(p)) /\ UNCHANGED <<rows, stamped>>
         \/ /\ l \in Unreadable /\ Answered(Owner[l])
            /\ Goes(p, RestOf(p)) /\ MarkUnavailable(l)
         \/ /\ l \notin Unreadable /\ Answered(Owner[l])
            /\ Goes(p, [pc |-> "import", unread |-> pass[p].unread, stale |-> pass[p].stale,
                        l |-> l, read |-> Read(upstream.contents[l]),
                        all |-> Range(upstream.contents[l])])
            /\ UNCHANGED <<rows, stamped>>
  /\ UNCHANGED <<yours, account, later, taste, running, events>>

ImportItems(p) ==
  /\ At(p, "import")
  /\ LET l    == pass[p].l
         read == pass[p].read
     IN  \/ \E written \in SUBSET Range(read) :
              LET ids == Only(read, written)
              IN  /\ WritesSome(Range(read), written)
                  /\ IF l \notin DOMAIN rows THEN UNCHANGED <<rows, stamped>>
                     ELSE /\ rows' = [rows EXCEPT ![l].items =
                                         Imported(@, ids, IsWhole(read, written))]
                          /\ Stamp(l)
         \/ Fault /\ UNCHANGED <<rows, stamped>>
  /\ Goes(p, RestOf(p))
  /\ UNCHANGED <<yours, account, later, taste, running, events>>

EndPass(p) ==
  /\ At(p, "due") /\ Due(p) = {}
  /\ running' = FALSE
  /\ Goes(p, Idle)
  /\ UNCHANGED <<yours, account, catalog, bounds>>

-----------------------------------------------------------------------------
(* What members do here and on YouTube, and the end of the process.         *)

PressesButton(m) == Event /\ Press(Button, m)

Hourly == Press(Timer, Everybody) /\ UNCHANGED events

\* A fresh paste clears the failures.
PasteCookies(m) ==
  /\ Event
  /\ account' = [account EXCEPT ![m] = Fresh]
  /\ session' = [session EXCEPT ![m] = "live"]
  /\ UNCHANGED <<upstream, catalog, pass, running, faults>>

RemoveAccount(m) ==
  /\ Event
  /\ account' = [account EXCEPT ![m] = [Fresh EXCEPT !.file = FALSE]]
  /\ UNCHANGED <<yours, catalog, pass, running, faults>>

SessionEnds(m) ==
  /\ session[m] = "live" /\ Event
  /\ session' = [session EXCEPT ![m] = "dead"]
  /\ UNCHANGED <<upstream, account, catalog, pass, running, faults>>

ListsChange ==
  /\ Event
  /\ \/ \E l \in List \ Unreadable, q \in Contents : upstream' = [upstream EXCEPT !.contents[l] = q]
     \/ \E m \in Member, q \in Contents : upstream' = [upstream EXCEPT !.later[m] = q]
     \/ \E l \in List : upstream' = [upstream EXCEPT !.listed = SymDiff(@, {l})]
  /\ UNCHANGED <<session, account, catalog, pass, running, faults>>

Crash ==
  /\ Fault
  /\ pass' = [p \in Pass |-> Idle] /\ running' = FALSE
  /\ UNCHANGED <<yours, account, catalog, events>>

PassGoesOn(p) ==
  \/ Begin(p) \/ ListChannels(p) \/ ListPlaylists(p) \/ WriteLists(p) \/ ReadFeed(p)
  \/ WriteLater(p) \/ RecordPass(p) \/ ListDue(p) \/ ReadList(p) \/ ImportItems(p) \/ EndPass(p)
  \/ \E m \in Member : TakeMember(p, m)
  \/ \E l \in List : TakeList(p, l)

MembersAct ==
  \/ ListsChange
  \/ \E m \in Member : PressesButton(m) \/ PasteCookies(m) \/ RemoveAccount(m) \/ SessionEnds(m)

Next == Hourly \/ MembersAct \/ Crash \/ \E p \in Pass : PassGoesOn(p)

Spec == Init /\ [][Next]_vars
=============================================================================
