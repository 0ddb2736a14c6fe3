------------------------- MODULE SourceCallsProofs -------------------------
(* What holds of every answer, for all plans, chains and calendars: no     *)
(* look-ahead, no silent failure behind a record marked available, and no  *)
(* absence that was not seen.                                              *)
EXTENDS Vendors, FiniteSetTheorems, WellFoundedInduction, TLAPS

Fields == {"at", "tool", "mainland", "run", "date", "place", "started", "tries", "round",
           "held", "table", "items", "found", "outcomes", "attempts", "sources", "named",
           "answer", "status", "again", "rows", "used", "missed", "silent", "made"}

IsCall(r) == r = [f \in Fields |-> r[f]]

Dated(r) == r.date \in Days /\ r.run \in Days /\ r.date <= r.run /\ r.started \in Times

(* A request that went unanswered has its attempt. *)
Noted(r) == r.missed \in BOOLEAN /\ (r.missed => "unavailable" \in r.attempts)

(* Rows are of no later day, unless the ledger has noticed it. *)
RowsInTime(r) == "future" \in r.sources \/ \A d \in r.rows : d <= r.run

FoundInTime(r) == \A p \in r.found : UtcDay[p] <= r.run

(* Items are there once they are published. *)
ItemsAreOut(r, t) == \A p \in r.items : p \in Published /\ p <= t

(* A call on its way at time t. *)
Open(r, t) ==
    /\ IsCall(r) /\ Dated(r) /\ Noted(r)
    /\ r.at # "done" /\ r.answer = None /\ r.status = None
    /\ RowsInTime(r) /\ FoundInTime(r) /\ ItemsAreOut(r, t)

IsTable(t) == t.rows \subseteq Days /\ t.priced \subseteq Days

(* What a call holds where a table is expected is one. *)
Holds(r) ==
    /\ r.at = "read" => IsTable(r.held) /\ r.tool \notin ReportTools
    /\ r.at \in {"write", "serve"} => IsTable(r.table)

(* Where a report of the present is asked for, the run is not in the past. *)
OfToday(r) ==
    r.at \in {"fetch", "rss"} /\ r.tool \in ReportTools /\ Vendor(r) # "akshare"
        => HostDay[r.started] <= r.date

Answered(r) ==
    /\ IsCall(r)
    /\ r.answer \in {"rows", "some"} => /\ \A d \in r.rows : d <= r.run
                                        /\ \A p \in r.found : UtcDay[p] <= r.run
    /\ r.status = "available" => ~r.missed

Sound(r, t) == IF r.at = "done" THEN Answered(r) ELSE Open(r, t) /\ Holds(r) /\ OfToday(r)

(* The inductive invariant. *)
IInv ==
    /\ now \in Times
    /\ file.table # None => IsTable(file.table)
    /\ call = [c \in Calls |-> call[c]]
    /\ \A c \in Calls : Sound(call[c], now)

-----------------------------------------------------------------------------
(* Days and moments.                                                       *)

LEMMA TimesAreNumbers == Times \subseteq Int /\ \A t \in Times : HostDay[t] \in Days
  BY ConstantsAreRight DEF ConstantsAreRight, Times

LEMMA DaysAreNumbers == Days \subseteq Int
  BY ConstantsAreRight DEF ConstantsAreRight

LEMMA AsOfIsADay ==
  ASSUME NEW a \in Days, NEW b \in Days
  PROVE  AsOf(a, b) \in Days /\ AsOf(a, b) <= b
<1>1. a \in Int /\ b \in Int
  BY DaysAreNumbers
<1> QED
  BY <1>1 DEF AsOf

LEMMA NotLater ==
  ASSUME NEW r, Dated(r), NEW d \in Int, d <= r.date
  PROVE  d <= r.run
<1>1. r.date \in Int /\ r.run \in Int /\ r.date <= r.run
  BY DaysAreNumbers DEF Dated
<1> QED
  BY <1>1

(* What belongs to the answer is of no later day than the run. *)
LEMMA ItemsInTime ==
  ASSUME NEW r, NEW p \in Published, Dated(r), now \in Times, p <= now, Belongs(p, r)
  PROVE  UtcDay[p] <= r.run
<1>1. /\ p \in DOMAIN UtcDay /\ now \in DOMAIN UtcDay
      /\ UtcDay[p] \in Int /\ UtcDay[now] \in Int
  BY ConstantsAreRight DEF ConstantsAreRight
<1>2. UtcDay[p] <= UtcDay[now]
  BY <1>1, ClocksAreRight DEF ClocksAreRight
<1>3. UtcDay[p] <= r.date
  <2>1. r.date \in Int
    BY DaysAreNumbers DEF Dated
  <2> QED
    BY <1>1, <1>2, <2>1 DEF Belongs, InWindow
<1> QED
  BY <1>1, <1>3, NotLater

-----------------------------------------------------------------------------
(* What keeps a call open: work that touches none of its data, an attempt, *)
(* a source, rows, items.                                                  *)

(* The same request, at the same place of its way. *)
Same(n, r) ==
    /\ n.at = r.at /\ n.tool = r.tool /\ n.place = r.place /\ n.round = r.round
    /\ n.date = r.date /\ n.run = r.run /\ n.started = r.started
    /\ n.held = r.held /\ n.table = r.table /\ n.items = r.items

(* The same data and the same notes. *)
Alike(n, r) ==
    /\ n.date = r.date /\ n.run = r.run /\ n.answer = r.answer /\ n.status = r.status
    /\ n.missed = r.missed /\ n.attempts = r.attempts /\ n.sources = r.sources
    /\ n.rows = r.rows /\ n.found = r.found /\ n.items = r.items

LEMMA AlikeIsOpen ==
  ASSUME NEW r, NEW n, NEW t, Open(r, t), IsCall(n), Alike(n, r), n.at # "done",
         n.started \in Times
  PROVE  Open(n, t)
  BY DEF Open, Alike, Dated, Noted, RowsInTime, FoundInTime, ItemsAreOut

LEMMA AttemptIsOpen ==
  ASSUME NEW r, NEW t, NEW status, Open(r, t)
  PROVE  LET n == Attempt(r, status) IN
         Open(n, t) /\ Same(n, r) /\ n.rows = r.rows /\ n.found = r.found /\ n.sources = r.sources
<1> DEFINE n == Attempt(r, status)
<1>1. /\ IsCall(n) /\ Same(n, r) /\ n.rows = r.rows /\ n.found = r.found
      /\ n.attempts = r.attempts \cup {status} /\ n.sources = r.sources
      /\ n.missed = r.missed /\ n.answer = r.answer /\ n.status = r.status
  BY DEF Attempt, Open, IsCall, Fields, Same
<1> HIDE DEF n
<1>2. Open(n, t)
  BY <1>1 DEF Open, Same, Dated, Noted, RowsInTime, FoundInTime, ItemsAreOut
<1> QED
  BY <1>1, <1>2 DEF n

LEMMA MissedIsOpen ==
  ASSUME NEW r, NEW t, Open(r, t)
  PROVE  LET n == Missed(r) IN
         Open(n, t) /\ Same(n, r) /\ n.rows = r.rows /\ n.found = r.found /\ n.sources = r.sources
<1> DEFINE n == Missed(r)
<1>1. /\ IsCall(n) /\ Same(n, r) /\ n.rows = r.rows /\ n.found = r.found
      /\ n.attempts = r.attempts \cup {"unavailable"} /\ n.sources = r.sources
      /\ n.missed = TRUE /\ n.answer = r.answer /\ n.status = r.status
  BY DEF Missed, Open, IsCall, Fields, Same
<1> HIDE DEF n
<1>2. Open(n, t)
  BY <1>1 DEF Open, Same, Dated, Noted, RowsInTime, FoundInTime, ItemsAreOut
<1> QED
  BY <1>1, <1>2 DEF n

LEMMA ObservedIsOpen ==
  ASSUME NEW r, NEW t, NEW kind, Open(r, t)
  PROVE  LET n == Observed(r, kind) IN
         /\ Open(n, t) /\ Same(n, r) /\ n.rows = r.rows /\ n.found = r.found
         /\ n.sources = r.sources \cup {kind}
<1> DEFINE n == Observed(r, kind)
<1>1. /\ IsCall(n) /\ Same(n, r) /\ n.rows = r.rows /\ n.found = r.found
      /\ n.attempts = r.attempts /\ n.sources = r.sources \cup {kind}
      /\ n.missed = r.missed /\ n.answer = r.answer /\ n.status = r.status
  BY DEF Observed, Open, IsCall, Fields, Same
<1> HIDE DEF n
<1>2. Open(n, t)
  BY <1>1 DEF Open, Same, Dated, Noted, RowsInTime, FoundInTime, ItemsAreOut
<1> QED
  BY <1>1, <1>2 DEF n

LEMMA UnheardIsOpen ==
  ASSUME NEW r, NEW t, Open(r, t)
  PROVE  LET n == Unheard(r) IN Open(n, t) /\ Same(n, r)
<1> DEFINE n == Unheard(r)
<1>1. IsCall(n) /\ Same(n, r) /\ Alike(n, r)
  BY DEF Unheard, Open, IsCall, Fields, Same, Alike
<1> HIDE DEF n
<1>2. n.at # "done" /\ n.started \in Times
  BY <1>1 DEF Open, Dated, Same
<1>3. Open(n, t)
  BY <1>1, <1>2, AlikeIsOpen
<1> QED
  BY <1>1, <1>3 DEF n

(* Moving on with data as they are. *)
LEMMA AtIsOpen ==
  ASSUME NEW r, NEW t, NEW at, Open(r, t), at # "done"
  PROVE  LET n == [r EXCEPT !.at = at] IN
         /\ Open(n, t) /\ n.at = at /\ n.tool = r.tool /\ n.place = r.place
         /\ n.date = r.date /\ n.started = r.started /\ n.table = r.table
<1> DEFINE n == [r EXCEPT !.at = at]
<1>1. /\ IsCall(n) /\ Alike(n, r) /\ n.at = at /\ n.tool = r.tool /\ n.place = r.place
      /\ n.started = r.started /\ n.table = r.table
  BY DEF Open, IsCall, Fields, Alike
<1> HIDE DEF n
<1>2. n.started \in Times /\ n.date = r.date
  BY <1>1 DEF Open, Dated, Alike
<1>3. Open(n, t)
  BY <1>1, <1>2, AlikeIsOpen
<1> QED
  BY <1>1, <1>2, <1>3 DEF n

LEMMA RowsAreOpen ==
  ASSUME NEW r, NEW t, NEW S, Open(r, t), "future" \in r.sources \/ \A d \in S : d <= r.run
  PROVE  LET n == [r EXCEPT !.rows = S] IN Open(n, t) /\ Same(n, r)
<1> DEFINE n == [r EXCEPT !.rows = S]
<1>1. /\ IsCall(n) /\ Same(n, r) /\ n.rows = S /\ n.found = r.found
      /\ n.attempts = r.attempts /\ n.sources = r.sources
      /\ n.missed = r.missed /\ n.answer = r.answer /\ n.status = r.status
  BY DEF Open, IsCall, Fields, Same
<1> HIDE DEF n
<1>2. Open(n, t)
  BY <1>1 DEF Open, Same, Dated, Noted, RowsInTime, FoundInTime, ItemsAreOut
<1> QED
  BY <1>1, <1>2 DEF n

LEMMA FoundIsOpen ==
  ASSUME NEW r, NEW t, NEW S, Open(r, t), \A p \in S : UtcDay[p] <= r.run
  PROVE  LET n == [r EXCEPT !.found = S] IN Open(n, t) /\ Same(n, r) /\ n.found = S
<1> DEFINE n == [r EXCEPT !.found = S]
<1>1. /\ IsCall(n) /\ Same(n, r) /\ n.rows = r.rows /\ n.found = S
      /\ n.attempts = r.attempts /\ n.sources = r.sources
      /\ n.missed = r.missed /\ n.answer = r.answer /\ n.status = r.status
  BY DEF Open, IsCall, Fields, Same
<1> HIDE DEF n
<1>2. Open(n, t)
  BY <1>1 DEF Open, Same, Dated, Noted, RowsInTime, FoundInTime, ItemsAreOut
<1> QED
  BY <1>1, <1>2 DEF n

(* A feed was served. *)
LEMMA ItemsAreOpen ==
  ASSUME NEW r, Open(r, now), now \in Times, NEW q
  PROVE  LET n == [r EXCEPT !.at = "select", !.items = Feed(q)] IN
         Open(n, now) /\ n.at = "select"
<1> DEFINE n == [r EXCEPT !.at = "select", !.items = Feed(q)]
<1>1. /\ IsCall(n) /\ n.at = "select" /\ n.items = Feed(q) /\ n.rows = r.rows
      /\ n.found = r.found /\ n.attempts = r.attempts /\ n.sources = r.sources
      /\ n.date = r.date /\ n.run = r.run /\ n.started = r.started
      /\ n.missed = r.missed /\ n.answer = r.answer /\ n.status = r.status
  BY DEF Open, IsCall, Fields
<1>2. \A p \in Feed(q) : p \in Published /\ p <= now
  BY DEF Feed, Newest
<1> HIDE DEF n
<1>3. Open(n, now)
  BY <1>1, <1>2 DEF Open, Dated, Noted, RowsInTime, FoundInTime, ItemsAreOut
<1> QED
  BY <1>1, <1>3 DEF n

LEMMA ReportedIsOpen ==
  ASSUME NEW r, NEW t, NEW S, Open(r, t), "future" \in r.sources \/ \A d \in S : d <= r.run
  PROVE  LET n == Reported(r, S) IN Open(n, t) /\ Same(n, r)
<1> DEFINE a == Attempt(r, "available")
           o == Observed(a, "usable")
<1>1. Open(a, t) /\ Same(a, r) /\ a.sources = r.sources
  BY AttemptIsOpen
<1>2. Open(o, t) /\ Same(o, a) /\ o.sources = a.sources \cup {"usable"}
  BY <1>1, ObservedIsOpen
<1> HIDE DEF a, o
<1>3. "future" \in o.sources \/ \A d \in S : d <= o.run
  BY <1>1, <1>2 DEF Same
<1>4. LET n == [o EXCEPT !.rows = S] IN Open(n, t) /\ Same(n, o)
  BY <1>2, <1>3, RowsAreOpen
<1> QED
  BY <1>1, <1>2, <1>4 DEF Reported, Same, a, o

-----------------------------------------------------------------------------
(* Where a call may go.                                                    *)

(* Every answer may be given: the ledger withholds what is too late. *)
LEMMA DoneIsSound ==
  ASSUME NEW r, NEW t, NEW answer, Open(r, t)
  PROVE  Sound(Done(r, answer), t)
<1> DEFINE said == Said(answer, r.sources)
           status == Status(said, r.attempts, r.sources)
           rows == IF said \in {"rows", "some"} THEN r.rows ELSE {}
           found == IF said \in {"rows", "some"} THEN r.found ELSE {}
           d == [r EXCEPT !.at = "done", !.answer = said, !.status = status,
                          !.rows = rows, !.found = found, !.place = 1, !.tries = 0,
                          !.round = 1, !.table = None, !.items = {}, !.named = FALSE,
                          !.outcomes = {}, !.attempts = {}, !.sources = {}]
<1>0. Done(r, answer) = d
  BY DEF Done
<1>1. /\ IsCall(d) /\ d.at = "done" /\ d.answer = said /\ d.run = r.run /\ d.missed = r.missed
      /\ d.status = status /\ d.rows = rows /\ d.found = found
  <2> HIDE DEF said, status, rows, found
  <2>1. IsCall(d)
    BY DEF Open, IsCall
  <2>2. d.at = "done" /\ d.answer = said /\ d.run = r.run /\ d.missed = r.missed
    BY DEF Open, IsCall, Fields
  <2>3. d.status = status /\ d.rows = rows /\ d.found = found
    BY DEF Open, IsCall, Fields
  <2> QED
    BY <2>1, <2>2, <2>3
<1>2. said \in {"rows", "some"} => "future" \notin r.sources
  BY DEF Said
<1>3. d.status = "available" => "unavailable" \notin r.attempts
  BY <1>1 DEF Status
<1> HIDE DEF d, said, status
<1>4. Answered(d)
  BY <1>1, <1>2, <1>3 DEF Answered, Open, RowsInTime, FoundInTime, Noted
<1>5. Sound(d, t)
  BY <1>1, <1>4 DEF Sound
<1> QED
  BY <1>0, <1>5

(* Away from the vendor nothing more is asked of an open call. *)
LEMMA AwayIsSound ==
  ASSUME NEW r, NEW t, Open(r, t), r.at \notin {"fetch", "rss", "read", "write", "serve"}
  PROVE  Sound(r, t)
  BY DEF Sound, Open, Holds, OfToday

(* A call that goes on asking the vendor it asks. *)
LEMMA AskingIsSound ==
  ASSUME NEW r, NEW n, NEW t, Sound(r, t), r.at \in {"fetch", "rss"}, Open(n, t),
         n.at \in {"fetch", "rss"}, n.tool = r.tool, n.place = r.place,
         n.date = r.date, n.started = r.started
  PROVE  Sound(n, t)
<1>1. OfToday(n)
  BY DEF Sound, OfToday, Vendor
<1>2. Holds(n)
  BY DEF Holds
<1> QED
  BY <1>1, <1>2 DEF Sound, Open

LEMMA EnteredIsOpen ==
  ASSUME NEW r, Open(r, now), now \in Times
  PROVE  LET n == Entered(r) IN Open(n, now) /\ n.at = "asked"
<1> DEFINE n == Entered(r)
<1>1. /\ IsCall(n) /\ n.at = "asked" /\ n.started = now /\ n.rows = {} /\ n.found = {}
      /\ n.items = {} /\ n.date = r.date /\ n.run = r.run /\ n.attempts = r.attempts
      /\ n.missed = r.missed /\ n.answer = r.answer /\ n.status = r.status
  BY DEF Entered, Open, IsCall, Fields
<1> HIDE DEF n
<1>2. Open(n, now)
  BY <1>1 DEF Open, Dated, Noted, RowsInTime, FoundInTime, ItemsAreOut
<1> QED
  BY <1>1, <1>2 DEF n

LEMMA EnteredIsSound ==
  ASSUME NEW r, Open(r, now), now \in Times
  PROVE  Sound(Entered(r), now)
  BY EnteredIsOpen, AwayIsSound

LEMMA NextVendorIsSound ==
  ASSUME NEW r, NEW outcome, Open(r, now), now \in Times
  PROVE  Sound(NextVendor(r, outcome), now)
<1> DEFINE met == [r EXCEPT !.outcomes = @ \cup {outcome}]
           on == [met EXCEPT !.place = @ + 1]
<1>1. IsCall(met) /\ Alike(met, r) /\ met.at = r.at /\ met.started = r.started
  BY DEF Open, IsCall, Fields, Alike
<1>2. IsCall(on) /\ Alike(on, r) /\ on.at = r.at /\ on.started = r.started
  BY DEF Open, IsCall, Fields, Alike
<1> HIDE DEF met, on
<1>3. Open(met, now)
  BY <1>1, AlikeIsOpen DEF Open, Dated
<1>4. Open(on, now)
  BY <1>2, AlikeIsOpen DEF Open, Dated
<1>5. Sound(Done(met, Verdict(r.tool, met.outcomes)), now)
  BY <1>3, DoneIsSound
<1>6. Sound(Entered(on), now)
  BY <1>4, EnteredIsSound
<1>7. NextVendor(r, outcome) = IF r.place < Len(Chain[r.tool]) THEN Entered(on)
                               ELSE Done(met, Verdict(r.tool, met.outcomes))
  BY DEF NextVendor, met, on
<1> QED
  BY <1>5, <1>6, <1>7

LEMMA UnansweredIsSound ==
  ASSUME NEW r, Open(r, now), now \in Times
  PROVE  Sound(Unanswered(r), now)
<1>1. Open(Missed(r), now)
  BY MissedIsOpen
<1>2. Open(Unheard(Missed(r)), now)
  BY <1>1, UnheardIsOpen
<1> QED
  BY <1>2, NextVendorIsSound DEF Unanswered

LEMMA AttemptThenNextIsSound ==
  ASSUME NEW r, NEW status, NEW outcome, Open(r, now), now \in Times
  PROVE  Sound(NextVendor(Attempt(r, status), outcome), now)
<1>1. Open(Attempt(r, status), now)
  BY AttemptIsOpen
<1> QED
  BY <1>1, NextVendorIsSound

LEMMA AttemptThenDoneIsSound ==
  ASSUME NEW r, NEW t, NEW status, NEW answer, Open(r, t)
  PROVE  Sound(Done(Attempt(r, status), answer), t)
<1>1. Open(Attempt(r, status), t)
  BY AttemptIsOpen
<1> QED
  BY <1>1, DoneIsSound

LEMMA ReportedThenDoneIsSound ==
  ASSUME NEW r, NEW t, NEW S, NEW answer, Open(r, t), \A d \in S : d <= r.run
  PROVE  Sound(Done(Reported(r, S), answer), t)
<1>1. Open(Reported(r, S), t)
  BY ReportedIsOpen
<1> QED
  BY <1>1, DoneIsSound

(* An attempt, a source without data, an attempt, and an answer. *)
LEMMA BareIsSound ==
  ASSUME NEW r, NEW t, NEW status, NEW kind, NEW last, NEW answer, Open(r, t)
  PROVE  Sound(Done(Attempt(Observed(Attempt(r, status), kind), last), answer), t)
<1>1. Open(Attempt(r, status), t)
  BY AttemptIsOpen
<1>2. Open(Observed(Attempt(r, status), kind), t)
  BY <1>1, ObservedIsOpen
<1> QED
  BY <1>2, AttemptThenDoneIsSound

LEMMA TwiceThenDoneIsSound ==
  ASSUME NEW r, NEW t, NEW status, NEW last, NEW answer, Open(r, t)
  PROVE  Sound(Done(Attempt(Attempt(r, status), last), answer), t)
<1>1. Open(Attempt(r, status), t)
  BY AttemptIsOpen
<1> QED
  BY <1>1, AttemptThenDoneIsSound

LEMMA DayByDayIsSound ==
  ASSUME NEW r, Open(r, now), now \in Times
  PROVE  Sound(DayByDay(r), now)
<1> DEFINE e == Entered(r)
           b == [e EXCEPT !.again = TRUE]
<1>1. Open(e, now) /\ e.at = "asked"
  BY EnteredIsOpen
<1> HIDE DEF e
<1>2. IsCall(b) /\ Alike(b, e) /\ b.at = e.at /\ b.started = e.started
  BY <1>1 DEF Open, IsCall, Fields, Alike
<1> HIDE DEF b
<1>3. Open(b, now)
  BY <1>1, <1>2, AlikeIsOpen DEF Open, Dated
<1>4. Sound(b, now)
  BY <1>1, <1>2, <1>3, AwayIsSound
<1>5. Sound(NextVendor(r, "empty"), now)
  BY NextVendorIsSound
<1> QED
  BY <1>4, <1>5 DEF DayByDay, b, e

LEMMA GarbledIsSound ==
  ASSUME NEW r, Open(r, now), now \in Times
  PROVE  Sound(Garbled(r), now)
<1>1. Open(Attempt(r, "available"), now)
  BY AttemptIsOpen
<1>2. Open(Unheard(Attempt(r, "available")), now)
  BY <1>1, UnheardIsOpen
<1> QED
  BY <1>2, NextVendorIsSound DEF Garbled

(* Prices that were received are a table. *)
LEMMA ReceivedIsSound ==
  ASSUME NEW r, NEW start, NEW end, Open(r, now), NEW s \in Received(r, start, end)
  PROVE  Open(s, now) /\ Sound(s, now) /\ s.at \in {"write", "serve"} /\ IsTable(s.table)
<1> DEFINE n == Attempt(r, "available")
<1>1. PICK t \in Answers(start, end) :
        s = [n EXCEPT !.at = IF UsesFile(r) THEN "write" ELSE "serve", !.table = t]
  BY DEF Received
<1>2. IsTable(t)
  BY <1>1 DEF Answers, Table, IsTable
<1>3. Open(n, now) /\ n.started \in Times
  BY AttemptIsOpen DEF Open, Dated
<1> HIDE DEF n
<1>4. IsCall(s) /\ Alike(s, n) /\ s.at \in {"write", "serve"} /\ s.table = t
      /\ s.started = n.started
  BY <1>1, <1>3 DEF Open, IsCall, Fields, Alike
<1>5. Open(s, now)
  BY <1>3, <1>4, AlikeIsOpen
<1> QED
  BY <1>2, <1>4, <1>5 DEF Sound, Holds, OfToday

(* A call that takes a sound step leaves the rest as it was. *)
LEMMA BecomesKeeps ==
  ASSUME IInv, NEW c \in Calls, NEW r, Sound(r, now), Becomes(c, r)
  PROVE  IInv'
<1>1. call' = [call EXCEPT ![c] = r] /\ UNCHANGED <<now, file>>
  BY DEF Becomes
<1>2. \A e \in Calls : call'[e] = IF e = c THEN r ELSE call[e]
  BY <1>1 DEF IInv
<1>3. call' = [e \in Calls |-> call'[e]]
  BY <1>1 DEF IInv
<1>4. \A e \in Calls : Sound(call'[e], now')
  BY <1>1, <1>2 DEF IInv
<1> QED
  BY <1>1, <1>3, <1>4 DEF IInv

(* What is known of a call on its way. *)
LEMMA OnItsWay ==
  ASSUME IInv, NEW c \in Calls, call[c].at # "done"
  PROVE  LET r == call[c] IN
         Sound(r, now) /\ Open(r, now) /\ Holds(r) /\ OfToday(r) /\ Dated(r) /\ now \in Times
  BY DEF IInv, Sound, Open

-----------------------------------------------------------------------------
(* The actions of the request, the file, and the answer.                   *)

LEMMA InitIsSound == Init => IInv
<1> SUFFICES ASSUME Init PROVE IInv
  OBVIOUS
<1>1. PICK plan \in Plans : call = [c \in Calls |-> NewCall(plan[c])]
  BY DEF Init
<1>2. now = 0 /\ 0 \in Times /\ file.table = None
  BY ConstantsAreRight DEF Init, Times, ConstantsAreRight
<1>3. ASSUME NEW c \in Calls PROVE Sound(call[c], now)
  <2> DEFINE q == plan[c]
             r == NewCall(q)
  <2>1. q.run \in Days /\ q.asked \in Days
    BY ConstantsAreRight DEF ConstantsAreRight, RequestSet
  <2> HIDE DEF q
  <2>2. /\ IsCall(r) /\ r.at = "idle" /\ r.run = q.run /\ r.date = DateOf(q)
        /\ r.started = 0 /\ r.rows = {} /\ r.found = {} /\ r.items = {}
        /\ r.answer = None /\ r.status = None /\ r.missed = FALSE
    <3>1. IsCall(r)
      <4>1. r = [f \in DOMAIN r |-> r[f]]
        BY DEF NewCall
      <4>2. DOMAIN r = Fields
        BY DEF NewCall, Fields
      <4> QED
        BY <4>1, <4>2 DEF IsCall
    <3>2. r.at = "idle" /\ r.run = q.run /\ r.date = DateOf(q) /\ r.started = 0
      BY DEF NewCall
    <3>3. r.rows = {} /\ r.found = {} /\ r.items = {}
      BY DEF NewCall
    <3>4. r.answer = None /\ r.status = None /\ r.missed = FALSE
      BY DEF NewCall
    <3> QED
      BY <3>1, <3>2, <3>3, <3>4
  <2> HIDE DEF r
  <2>3. r.date \in Days /\ r.date <= r.run
    <3>1. q.run \in Int
      BY <2>1, DaysAreNumbers
    <3> QED
      BY <2>1, <2>2, <3>1, AsOfIsADay DEF DateOf
  <2>4. Open(r, now)
    BY <1>2, <2>1, <2>2, <2>3 DEF Open, Dated, Noted, RowsInTime, FoundInTime, ItemsAreOut
  <2>5. call[c] = r
    BY <1>1 DEF r, q
  <2> QED
    BY <2>2, <2>4, <2>5, AwayIsSound
<1> QED
  BY <1>1, <1>2, <1>3 DEF IInv

LEMMA AskKeeps == ASSUME IInv, NEW c \in Calls, Ask(c) PROVE IInv'
<1>1. call[c].at # "done" /\ Becomes(c, Entered(call[c]))
  BY DEF Ask
<1> QED
  BY <1>1, OnItsWay, EnteredIsSound, BecomesKeeps

LEMMA EnterKeeps == ASSUME IInv, NEW c \in Calls, Enter(c) PROVE IInv'
<1> DEFINE r == call[c]
           in == [r EXCEPT !.at = "fetch", !.started = now]
           w == Observed(r, "withheld")
<1>1. Open(r, now) /\ now \in Times /\ r.at = "asked"
  BY OnItsWay DEF Enter
<1>2. Sound(NextVendor(Attempt(r, "empty"), "empty"), now)
  BY <1>1, AttemptThenNextIsSound
<1>3. Sound(Done(Attempt(w, "withheld"), "withheld"), now)
  BY <1>1, ObservedIsOpen, AttemptThenDoneIsSound
<1>4. CASE ~Withheld(r)
  <2>1. /\ IsCall(in) /\ Alike(in, r) /\ in.at = "fetch" /\ in.started = now
        /\ in.tool = r.tool /\ in.place = r.place
    BY <1>1 DEF Open, IsCall, Fields, Alike
  <2> HIDE DEF in, r
  <2>2. Open(in, now) /\ in.date = r.date
    BY <1>1, <2>1, AlikeIsOpen DEF Alike
  <2>3. HostDay[now] \in Int /\ r.date \in Int
    BY <1>1, TimesAreNumbers, DaysAreNumbers DEF Open, Dated
  <2>4. OfToday(in)
    BY <1>4, <2>1, <2>2, <2>3 DEF OfToday, Withheld, IsHistorical, Vendor
  <2>5. Sound(in, now)
    BY <2>1, <2>2, <2>4 DEF Sound, Holds
  <2>6. \/ Becomes(c, NextVendor(Attempt(r, "empty"), "empty"))
        \/ Becomes(c, in)
    BY <1>4 DEF Enter, r, in
  <2> QED
    BY <1>2, <2>5, <2>6, BecomesKeeps
<1>5. CASE Withheld(r)
  <2>1. \/ Becomes(c, NextVendor(Attempt(r, "empty"), "empty"))
        \/ Becomes(c, Done(Attempt(w, "withheld"), "withheld"))
    BY <1>5 DEF Enter
  <2> QED
    BY <1>2, <1>3, <2>1, BecomesKeeps
<1> QED
  BY <1>4, <1>5

LEMMA UnsupportedKeeps == ASSUME IInv, NEW c \in Calls, Unsupported(c) PROVE IInv'
<1>1. /\ call[c].at # "done"
      /\ Becomes(c, NextVendor(Attempt(call[c], "unavailable"), "failed"))
  BY DEF Unsupported
<1> QED
  BY <1>1, OnItsWay, AttemptThenNextIsSound, BecomesKeeps

LEMMA ReadFileKeeps == ASSUME IInv, NEW c \in Calls, ReadFile(c) PROVE IInv'
<1> DEFINE r == call[c]
<1>1. Open(r, now) /\ r.tool \notin ReportTools
  BY OnItsWay DEF ReadFile, UsesFile, ReportTools
<1>2. PICK held \in {file.table, None} :
        Becomes(c, [r EXCEPT !.held = held, !.at = IF held = None THEN "fetch" ELSE "read"])
  BY DEF ReadFile
<1> DEFINE n == [r EXCEPT !.held = held, !.at = IF held = None THEN "fetch" ELSE "read"]
<1>3. /\ IsCall(n) /\ Alike(n, r) /\ n.at = (IF held = None THEN "fetch" ELSE "read")
      /\ n.held = held /\ n.started = r.started /\ n.tool = r.tool
  BY <1>1 DEF Open, IsCall, Fields, Alike
<1>4. held # None => IsTable(held)
  BY DEF IInv
<1> HIDE DEF n, r
<1>5. Open(n, now)
  BY <1>1, <1>3, AlikeIsOpen DEF Open, Dated
<1>6. Sound(n, now)
  BY <1>1, <1>3, <1>4, <1>5 DEF Sound, Holds, OfToday
<1> QED
  BY <1>2, <1>6, BecomesKeeps DEF n, r

LEMMA JudgeFileKeeps == ASSUME IInv, NEW c \in Calls, JudgeFile(c) PROVE IInv'
<1> DEFINE r == call[c]
           taken == [r EXCEPT !.at = "serve", !.table = r.held, !.held = None]
           left == [r EXCEPT !.at = "fetch", !.held = None]
<1>1. Open(r, now) /\ r.tool \notin ReportTools /\ IsTable(r.held)
  BY OnItsWay DEF JudgeFile, Holds
<1>2. Becomes(c, taken) \/ Becomes(c, left)
  BY DEF JudgeFile
<1>3. /\ IsCall(taken) /\ Alike(taken, r) /\ taken.at = "serve" /\ taken.table = r.held
      /\ taken.started = r.started
  BY <1>1 DEF Open, IsCall, Fields, Alike
<1>4. /\ IsCall(left) /\ Alike(left, r) /\ left.at = "fetch" /\ left.tool = r.tool
      /\ left.started = r.started
  BY <1>1 DEF Open, IsCall, Fields, Alike
<1> HIDE DEF taken, left, r
<1>5. Open(taken, now) /\ Open(left, now)
  BY <1>1, <1>3, <1>4, AlikeIsOpen DEF Open, Dated
<1>6. Sound(taken, now) /\ Sound(left, now)
  BY <1>1, <1>3, <1>4, <1>5 DEF Sound, Holds, OfToday
<1> QED
  BY <1>2, <1>6, BecomesKeeps

(* The file takes the table of the call that writes it. *)
LEMMA WriteFileKeeps == ASSUME IInv, NEW c \in Calls, WriteFile(c) PROVE IInv'
<1> DEFINE r == call[c]
           n == [r EXCEPT !.at = "serve"]
<1>1. Open(r, now) /\ now \in Times /\ IsTable(r.table)
  BY OnItsWay DEF WriteFile, Holds
<1>2. Sound(n, now)
  <2>1. Open(n, now) /\ n.at = "serve" /\ n.table = r.table
    BY <1>1, AtIsOpen
  <2> HIDE DEF n
  <2> QED
    BY <1>1, <2>1 DEF Sound, Holds, OfToday
<1>3. CASE /\ call' = [call EXCEPT ![c].at = "serve"]
           /\ file' = [table |-> r.table, written |-> now]
           /\ UNCHANGED now
  <2>1. call' = [call EXCEPT ![c] = n]
    BY <1>3
  <2> HIDE DEF n
  <2>2. \A o \in Calls : call'[o] = IF o = c THEN n ELSE call[o]
    BY <2>1 DEF IInv
  <2>3. call' = [o \in Calls |-> call'[o]]
    BY <2>1 DEF IInv
  <2>4. \A o \in Calls : Sound(call'[o], now')
    BY <1>2, <1>3, <2>2 DEF IInv
  <2>5. IsTable(file'.table)
    BY <1>1, <1>3
  <2> QED
    BY <1>1, <1>3, <2>3, <2>4, <2>5 DEF IInv
<1>4. CASE Becomes(c, n)
  BY <1>2, <1>4, BecomesKeeps
<1>5. CASE Becomes(c, NextVendor(r, "failed"))
  BY <1>1, <1>5, NextVendorIsSound, BecomesKeeps
<1>6. CASE Becomes(c, DayByDay(r))
  BY <1>1, <1>6, DayByDayIsSound, BecomesKeeps
<1> QED
  BY <1>3, <1>4, <1>5, <1>6 DEF WriteFile

LEMMA ServeKeeps == ASSUME IInv, NEW c \in Calls, Serve(c) PROVE IInv'
<1> DEFINE r == call[c]
           kept == InRange(IF r.tool = "indicators" THEN r.table.priced ELSE r.table.rows, r)
           o == Observed(r, "usable")
           k == [o EXCEPT !.rows = kept]
           a == [k EXCEPT !.at = "assess"]
<1>1. Open(r, now) /\ now \in Times /\ Dated(r) /\ IsTable(r.table)
  BY OnItsWay DEF Serve, Holds
<1>2. \A d \in kept : d <= r.run
  <2>1. \A d \in kept : d \in Int /\ d <= r.date
    BY <1>1, DaysAreNumbers DEF InRange, IsTable
  <2> HIDE DEF kept
  <2> QED
    BY <1>1, <2>1, NotLater
<1>3. Open(o, now) /\ o.run = r.run
  BY <1>1, ObservedIsOpen DEF Same
<1> HIDE DEF kept, o
<1>4. Open(k, now)
  BY <1>2, <1>3, RowsAreOpen
<1> HIDE DEF k
<1>5. Open(a, now) /\ a.at = "assess"
  BY <1>4, AtIsOpen
<1> HIDE DEF a
<1>6. Sound(a, now) /\ Sound(Done(k, "rows"), now) /\ Sound(NextVendor(r, "empty"), now)
  BY <1>1, <1>4, <1>5, AwayIsSound, DoneIsSound, NextVendorIsSound
<1>7. Sound(NextVendor(Unheard(r), "unavailable"), now)
  BY <1>1, UnheardIsOpen, NextVendorIsSound
<1>8. \/ Becomes(c, NextVendor(Unheard(r), "unavailable"))
      \/ Becomes(c, NextVendor(r, "empty")) \/ Becomes(c, a) \/ Becomes(c, Done(k, "rows"))
  BY DEF Serve, a, k, o, kept
<1> QED
  BY <1>6, <1>7, <1>8, BecomesKeeps

LEMMA AssessKeeps == ASSUME IInv, NEW c \in Calls, Assess(c) PROVE IInv'
<1> DEFINE r == call[c]
           k == [r EXCEPT !.used = Calculable(r), !.made = r.table.made]
<1>1. Open(r, now) /\ Becomes(c, Done(k, "rows"))
  BY OnItsWay DEF Assess
<1>2. IsCall(k) /\ Alike(k, r) /\ k.at = r.at /\ k.started = r.started
  BY <1>1 DEF Open, IsCall, Fields, Alike
<1> HIDE DEF k, r
<1>3. Open(k, now)
  BY <1>1, <1>2, AlikeIsOpen DEF Open, Dated
<1> QED
  BY <1>1, <1>3, DoneIsSound, BecomesKeeps

LEMMA CalculateKeeps == ASSUME IInv, NEW c \in Calls, Calculate(c) PROVE IInv'
<1>1. call[c].at # "done"
  BY DEF Calculate
<1>2. Becomes(c, Done(call[c], "rows")) \/ Becomes(c, DayByDay(call[c]))
  BY DEF Calculate
<1> QED
  BY <1>1, <1>2, OnItsWay, DoneIsSound, DayByDayIsSound, BecomesKeeps

-----------------------------------------------------------------------------
(* The actions of Yahoo and of the Chinese price services.                 *)

(* A report of the present is asked for only where the run reaches it. *)
LEMMA PresentInTime ==
  ASSUME NEW r, Open(r, now), OfToday(r), r.at = "fetch", r.tool \in ReportTools,
         Vendor(r) # "akshare"
  PROVE  \A d \in Present(r) : d <= r.run
<1>1. HostDay[r.started] <= r.date /\ Dated(r)
  BY DEF OfToday, Open
<1>2. HostDay[r.started] \in Int
  BY <1>1, TimesAreNumbers, DaysAreNumbers DEF Dated
<1> QED
  BY <1>1, <1>2, NotLater DEF Present

LEMMA YahooRefusesKeeps == ASSUME IInv, NEW c \in Calls, YahooRefuses(c) PROVE IInv'
<1> DEFINE r == call[c]
           m == Missed(r)
           n == [m EXCEPT !.tries = @ + 1]
<1>1. Sound(r, now) /\ Open(r, now) /\ now \in Times /\ r.at = "fetch"
  BY OnItsWay DEF YahooRefuses, Fetching
<1>2. Sound(Unanswered(r), now)
  BY <1>1, UnansweredIsSound
<1>3. Sound(n, now)
  <2>1. Open(m, now) /\ Same(m, r)
    BY <1>1, MissedIsOpen
  <2> HIDE DEF m, r
  <2>2. IsCall(n) /\ Alike(n, m) /\ Same(n, m)
    BY <2>1 DEF Open, IsCall, Fields, Alike, Same
  <2> HIDE DEF n
  <2>3. Open(n, now)
    BY <2>1, <2>2, AlikeIsOpen DEF Open, Dated, Same
  <2> QED
    BY <1>1, <2>1, <2>2, <2>3, AskingIsSound DEF Same
<1>4. Becomes(c, n) \/ Becomes(c, Unanswered(r))
  BY DEF YahooRefuses
<1> QED
  BY <1>2, <1>3, <1>4, BecomesKeeps

LEMMA YahooIsEmptyKeeps == ASSUME IInv, NEW c \in Calls, YahooIsEmpty(c) PROVE IInv'
<1> DEFINE r == Attempt(call[c], "empty")
           at == IF r.tool \in FeedTools THEN "select" ELSE "probe"
           n == [r EXCEPT !.at = at]
<1>1. Open(call[c], now) /\ Becomes(c, n)
  BY OnItsWay DEF YahooIsEmpty, Fetching
<1>2. Open(r, now)
  BY <1>1, AttemptIsOpen
<1>3. at \in {"select", "probe"}
  OBVIOUS
<1> HIDE DEF r, at
<1>4. Open(n, now) /\ n.at = at
  BY <1>2, <1>3, AtIsOpen
<1>5. Sound(n, now)
  BY <1>3, <1>4, AwayIsSound
<1> QED
  BY <1>1, <1>5, BecomesKeeps

LEMMA ProbedIsSound ==
  ASSUME NEW r, Open(r, now), NEW status
  PROVE  Sound([Attempt(r, status) EXCEPT !.at = "probe"], now)
<1> DEFINE a == Attempt(r, status)
           n == [a EXCEPT !.at = "probe"]
<1>1. Open(a, now)
  BY AttemptIsOpen
<1> HIDE DEF a
<1>2. Open(n, now) /\ n.at = "probe"
  BY <1>1, AtIsOpen
<1>3. Sound(n, now)
  BY <1>2, AwayIsSound
<1> QED
  BY <1>3 DEF a

(* So is a frame without dates. *)
LEMMA DatelessIsSound ==
  ASSUME NEW r, Open(r, now), NEW start, NEW end
  PROVE  Sound([Attempt(r, "available") EXCEPT !.at = "write", !.table = Dateless(start, end)], now)
<1> DEFINE a == Attempt(r, "available")
           t == Dateless(start, end)
           n == [a EXCEPT !.at = "write", !.table = t]
<1>1. Open(a, now) /\ a.started \in Times
  BY AttemptIsOpen DEF Open, Dated
<1>2. IsTable(t)
  BY DEF Dateless, Table, IsTable
<1> HIDE DEF a, t
<1>3. IsCall(n) /\ Alike(n, a) /\ n.at = "write" /\ n.table = t /\ n.started = a.started
  BY <1>1 DEF Open, IsCall, Fields, Alike
<1> HIDE DEF n
<1>4. Open(n, now)
  BY <1>1, <1>3, AlikeIsOpen
<1>5. Sound(n, now)
  BY <1>2, <1>3, <1>4 DEF Sound, Holds, OfToday
<1> QED
  BY <1>5 DEF a, t, n

LEMMA YahooPricesKeeps == ASSUME IInv, NEW c \in Calls, YahooPrices(c) PROVE IInv'
<1> DEFINE r == call[c]
<1>1. Open(r, now)
  BY OnItsWay DEF YahooPrices, Fetching
<1> DEFINE n == [Attempt(r, "available") EXCEPT !.at = "write", !.table = Dateless(Start(r), r.date)]
<1>2. CASE \E s \in Received(r, Start(r), r.date) : Becomes(c, s)
  BY <1>1, <1>2, ReceivedIsSound, BecomesKeeps
<1>3. CASE Becomes(c, [Attempt(r, "available") EXCEPT !.at = "probe"])
  BY <1>1, <1>3, ProbedIsSound, BecomesKeeps
<1>4. CASE Becomes(c, n)
  <2>1. Sound(n, now)
    BY <1>1, DatelessIsSound
  <2> HIDE DEF n
  <2> QED
    BY <1>4, <2>1, BecomesKeeps
<1>5. CASE Becomes(c, Garbled(r))
  BY <1>1, <1>5, GarbledIsSound, OnItsWay, BecomesKeeps DEF IInv
<1> QED
  BY <1>2, <1>3, <1>4, <1>5 DEF YahooPrices

(* The present is reported, by any vendor but AkShare. *)
LEMMA PresentKeeps ==
  ASSUME IInv, NEW c \in Calls, call[c].at = "fetch", call[c].tool \in ReportTools,
         Vendor(call[c]) # "akshare", Becomes(c, Done(Reported(call[c], Present(call[c])), "rows"))
  PROVE  IInv'
<1>1. Open(call[c], now) /\ OfToday(call[c])
  BY OnItsWay
<1>2. Sound(Done(Reported(call[c], Present(call[c])), "rows"), now)
  BY <1>1, PresentInTime, ReportedThenDoneIsSound
<1> QED
  BY <1>2, BecomesKeeps

LEMMA YahooReportsKeep ==
  ASSUME IInv, NEW c \in Calls, YahooProfile(c) \/ YahooStatement(c) \/ YahooInsiders(c)
  PROVE  IInv'
<1>1. /\ call[c].at = "fetch" /\ call[c].tool \in ReportTools /\ Vendor(call[c]) # "akshare"
      /\ \/ Becomes(c, Done(Reported(call[c], Present(call[c])), "rows"))
         \/ Becomes(c, [Attempt(call[c], "available") EXCEPT !.at = "probe"])
  BY DEF YahooProfile, YahooStatement, YahooInsiders, Fetching, ReportTools
<1>2. Open(call[c], now)
  BY <1>1, OnItsWay
<1> QED
  BY <1>1, <1>2, PresentKeeps, ProbedIsSound, BecomesKeeps

LEMMA YahooNewsKeeps == ASSUME IInv, NEW c \in Calls, YahooNews(c) PROVE IInv'
<1> DEFINE r == call[c]
           a == Attempt(r, "available")
           n == [a EXCEPT !.at = "select", !.items = Feed(r)]
<1>1. Open(r, now) /\ now \in Times /\ Becomes(c, n)
  BY OnItsWay DEF YahooNews, Fetching
<1>2. Open(a, now)
  BY <1>1, AttemptIsOpen
<1> HIDE DEF a
<1>3. Open(n, now) /\ n.at = "select"
  BY <1>1, <1>2, ItemsAreOpen
<1> QED
  BY <1>1, <1>3, AwayIsSound, BecomesKeeps

LEMMA ProbeKeeps == ASSUME IInv, NEW c \in Calls, Probe(c) PROVE IInv'
<1> DEFINE r == call[c]
<1>1. Open(r, now) /\ now \in Times
  BY OnItsWay DEF Probe
<1>2. Open(Unheard(r), now)
  BY <1>1, UnheardIsOpen
<1>3. \/ Becomes(c, Done(r, "nothing"))
      \/ Becomes(c, NextVendor(r, "empty"))
      \/ Becomes(c, NextVendor(Unheard(r), "unavailable"))
  BY DEF Probe
<1> QED
  BY <1>1, <1>2, <1>3, DoneIsSound, NextVendorIsSound, BecomesKeeps

(* What was selected belongs to the answer. *)
LEMMA SelectedInTime ==
  ASSUME NEW r, Open(r, now), now \in Times
  PROVE  \A p \in Selected(r) : UtcDay[p] <= r.run
<1>1. Dated(r) /\ \A p \in r.items : p \in Published /\ p <= now
  BY DEF Open, ItemsAreOut
<1> QED
  BY <1>1, ItemsInTime DEF Selected

LEMMA NothingIsSound ==
  ASSUME NEW r, Open(r, now)
  PROVE  Sound(Nothing(r), now)
<1>1. Open(Observed(r, "bare"), now)
  BY ObservedIsOpen
<1> QED
  BY <1>1, AttemptThenDoneIsSound DEF Nothing

LEMMA SelectNewsKeeps == ASSUME IInv, NEW c \in Calls, SelectNews(c) PROVE IInv'
<1> DEFINE r == call[c]
           k == [r EXCEPT !.found = Selected(r)]
<1>1. Open(r, now) /\ now \in Times
  BY OnItsWay DEF SelectNews
<1>2. Open(k, now)
  BY <1>1, SelectedInTime, FoundIsOpen
<1>3. Becomes(c, Done(Observed(k, "usable"), "rows")) \/ Becomes(c, Nothing(k))
  BY DEF SelectNews
<1> HIDE DEF k
<1>4. Open(Observed(k, "usable"), now)
  BY <1>2, ObservedIsOpen
<1> QED
  BY <1>2, <1>3, <1>4, DoneIsSound, NothingIsSound, BecomesKeeps

LEMMA SelectWorldKeeps == ASSUME IInv, NEW c \in Calls, SelectWorld(c) PROVE IInv'
<1> DEFINE r == call[c]
           found == r.found \cup Selected(r)
           k == [r EXCEPT !.found = found, !.items = {}]
           n == [k EXCEPT !.at = "fetch", !.round = @ + 1, !.tries = 0]
<1>1. Open(r, now) /\ now \in Times /\ r.tool = "world"
  BY OnItsWay DEF SelectWorld
<1>2. \A p \in found : UtcDay[p] <= r.run
  BY <1>1, SelectedInTime DEF Open, FoundInTime
<1> HIDE DEF found
<1>3. Open(k, now) /\ k.tool = r.tool
  <2>1. /\ IsCall(k) /\ k.found = found /\ k.items = {} /\ k.at = r.at /\ k.tool = r.tool
        /\ k.date = r.date /\ k.run = r.run /\ k.started = r.started /\ k.rows = r.rows
        /\ k.attempts = r.attempts /\ k.sources = r.sources
        /\ k.missed = r.missed /\ k.answer = r.answer /\ k.status = r.status
    BY <1>1 DEF Open, IsCall, Fields
  <2> HIDE DEF k
  <2> QED
    BY <1>1, <1>2, <2>1 DEF Open, Dated, Noted, RowsInTime, FoundInTime, ItemsAreOut
<1>4. \/ Becomes(c, n)
      \/ Becomes(c, Done(Observed(k, "usable"), "rows"))
      \/ Becomes(c, Nothing(k))
  BY DEF SelectWorld, found
<1> HIDE DEF k, r
<1>5. /\ IsCall(n) /\ Alike(n, k) /\ n.at = "fetch" /\ n.tool = k.tool /\ n.started = k.started
  BY <1>3 DEF Open, IsCall, Fields, Alike
<1> HIDE DEF n
<1>6. Open(n, now)
  BY <1>3, <1>5, AlikeIsOpen DEF Open, Dated
<1>7. Sound(n, now)
  BY <1>1, <1>3, <1>5, <1>6 DEF Sound, Holds, OfToday, ReportTools
<1>8. Open(Observed(k, "usable"), now)
  BY <1>3, ObservedIsOpen
<1> QED
  BY <1>3, <1>4, <1>7, <1>8, DoneIsSound, NothingIsSound, BecomesKeeps

LEMMA WholeIsSound ==
  ASSUME NEW r, Open(r, now), NEW s \in Whole(r)
  PROVE  Sound(s, now)
<1>1. PICK w \in Received(r, Start(r), r.date + 1) : s = Observed(w, "usable")
  BY DEF Whole
<1>2. Open(w, now) /\ w.at \in {"write", "serve"} /\ IsTable(w.table)
  BY <1>1, ReceivedIsSound
<1>3. Open(s, now) /\ Same(s, w)
  BY <1>1, <1>2, ObservedIsOpen
<1> QED
  BY <1>2, <1>3 DEF Sound, Holds, OfToday, Same

LEMMA TencentKeeps == ASSUME IInv, NEW c \in Calls, Tencent(c) PROVE IInv'
<1> DEFINE r == call[c]
           a == Attempt(r, "empty")
           m == Missed(r)
<1>1. Open(r, now)
  BY OnItsWay DEF Tencent
<1>2. Open(a, now) /\ Open(m, now)
  BY <1>1, AttemptIsOpen, MissedIsOpen
<1>3. ASSUME NEW n, Open(n, now), Becomes(c, [n EXCEPT !.at = "eastmoney"]) PROVE IInv'
  <2> DEFINE e == [n EXCEPT !.at = "eastmoney"]
  <2>1. Open(e, now) /\ e.at = "eastmoney"
    BY <1>3, AtIsOpen
  <2> QED
    BY <1>3, <2>1, AwayIsSound, BecomesKeeps
<1>4. ASSUME NEW s \in Whole(r), Becomes(c, s) PROVE IInv'
  BY <1>1, <1>4, WholeIsSound, BecomesKeeps
<1> QED
  BY <1>2, <1>3, <1>4 DEF Tencent

LEMMA EastmoneyKeeps == ASSUME IInv, NEW c \in Calls, Eastmoney(c) PROVE IInv'
<1> DEFINE r == call[c]
<1>1. Open(r, now) /\ now \in Times
  BY OnItsWay DEF Eastmoney
<1>2. ASSUME NEW s \in Whole(r), Becomes(c, s) PROVE IInv'
  BY <1>1, <1>2, WholeIsSound, BecomesKeeps
<1>3. CASE Becomes(c, NextVendor(Attempt(r, "empty"), "empty"))
  BY <1>1, <1>3, AttemptThenNextIsSound, BecomesKeeps
<1>4. CASE Becomes(c, Unanswered(r))
  BY <1>1, <1>4, UnansweredIsSound, BecomesKeeps
<1>5. CASE Becomes(c, [r EXCEPT !.at = "curl"])
  <2> DEFINE n == [r EXCEPT !.at = "curl"]
  <2>1. Open(n, now) /\ n.at = "curl"
    BY <1>1, AtIsOpen
  <2> HIDE DEF n
  <2>2. Sound(n, now)
    BY <2>1, AwayIsSound
  <2> QED
    BY <1>5, <2>2, BecomesKeeps DEF n
<1> QED
  BY <1>2, <1>3, <1>4, <1>5 DEF Eastmoney

-----------------------------------------------------------------------------
(* The actions of Alpha Vantage.                                           *)

LEMMA AlphaRefusesKeeps == ASSUME IInv, NEW c \in Calls, AlphaRefuses(c) PROVE IInv'
<1> DEFINE r == call[c]
<1>1. Open(r, now) /\ now \in Times
  BY OnItsWay DEF AlphaRefuses, Fetching
<1>2. CASE Becomes(c, NextVendor(Attempt(r, "not_configured"), "unconfigured"))
  BY <1>1, <1>2, AttemptThenNextIsSound, BecomesKeeps
<1>3. CASE Becomes(c, Unanswered(r))
  BY <1>1, <1>3, UnansweredIsSound, BecomesKeeps
<1> QED
  BY <1>2, <1>3 DEF AlphaRefuses

LEMMA AlphaPricesKeeps == ASSUME IInv, NEW c \in Calls, AlphaPrices(c) PROVE IInv'
<1> DEFINE r == call[c]
<1>1. Open(r, now) /\ now \in Times
  BY OnItsWay DEF AlphaPrices, Fetching
<1>2. ASSUME NEW s \in Received(r, Start(r) - Span, HostDay[now]), Becomes(c, s) PROVE IInv'
  BY <1>1, <1>2, ReceivedIsSound, BecomesKeeps
<1>3. ASSUME NEW outcome, Becomes(c, NextVendor(Attempt(r, "available"), outcome)) PROVE IInv'
  BY <1>1, <1>3, AttemptThenNextIsSound, BecomesKeeps
<1> QED
  BY <1>2, <1>3 DEF AlphaPrices

LEMMA AlphaIndicatorKeeps == ASSUME IInv, NEW c \in Calls, AlphaIndicator(c) PROVE IInv'
<1> DEFINE r == call[c]
<1>1. Open(r, now) /\ now \in Times /\ Dated(r)
  BY OnItsWay DEF AlphaIndicator, Fetching
<1>2. CASE Becomes(c, Done(Attempt(r, "unavailable"), "text"))
  BY <1>1, <1>2, AttemptThenDoneIsSound, BecomesKeeps
<1>3. ASSUME NEW t \in Answers(Start(r) - Span, HostDay[now]),
             Becomes(c, Done(Reported(r, InRange(t.priced, r)), "rows"))
      PROVE  IInv'
  <2>1. \A d \in InRange(t.priced, r) : d \in Int /\ d <= r.date
    BY DaysAreNumbers DEF InRange, Answers, Table
  <2>2. \A d \in InRange(t.priced, r) : d <= r.run
    BY <1>1, <2>1, NotLater
  <2> QED
    BY <1>1, <1>3, <2>2, ReportedThenDoneIsSound, BecomesKeeps
<1>4. CASE Becomes(c, Done(Attempt(Observed(Attempt(r, "available"), "bare"), "empty"), "nothing"))
  BY <1>1, <1>4, BareIsSound, BecomesKeeps
<1>5. ASSUME NEW status, Becomes(c, NextVendor(Attempt(r, status), "empty")) PROVE IInv'
  BY <1>1, <1>5, AttemptThenNextIsSound, BecomesKeeps
<1>6. CASE Becomes(c, Garbled(r))
  BY <1>1, <1>6, GarbledIsSound, BecomesKeeps
<1> QED
  BY <1>2, <1>3, <1>4, <1>5, <1>6 DEF AlphaIndicator

LEMMA AlphaReportKeeps == ASSUME IInv, NEW c \in Calls, AlphaReport(c) PROVE IInv'
<1> DEFINE r == call[c]
<1>1. Open(r, now) /\ now \in Times
  BY OnItsWay DEF AlphaReport, Fetching
<1>2. r.at = "fetch" /\ r.tool \in ReportTools /\ Vendor(r) # "akshare"
  BY DEF AlphaReport, Fetching, ReportTools
<1>3. CASE Becomes(c, Done(Reported(r, Present(r)), "rows"))
  BY <1>2, <1>3, PresentKeeps
<1>4. ASSUME NEW status, NEW kind,
             Becomes(c, Done(Attempt(Observed(Attempt(r, status), kind), "empty"), "nothing"))
      PROVE  IInv'
  BY <1>1, <1>4, BareIsSound, BecomesKeeps
<1>5. CASE Becomes(c, Done(Attempt(Attempt(r, "available"), "unavailable"), "unavailable"))
  BY <1>1, <1>5, TwiceThenDoneIsSound, BecomesKeeps
<1>6. CASE Becomes(c, Garbled(r))
  BY <1>1, <1>6, GarbledIsSound, BecomesKeeps
<1> QED
  BY <1>3, <1>4, <1>5, <1>6 DEF AlphaReport

LEMMA AlphaInsidersKeeps == ASSUME IInv, NEW c \in Calls, AlphaInsiders(c) PROVE IInv'
<1> DEFINE r == call[c]
<1>1. Open(r, now)
  BY OnItsWay DEF AlphaInsiders, Fetching
<1>2. r.at = "fetch" /\ r.tool \in ReportTools /\ Vendor(r) # "akshare"
  BY DEF AlphaInsiders, Fetching, ReportTools
<1>3. CASE Becomes(c, Done(Reported(r, Present(r)), "rows"))
  BY <1>2, <1>3, PresentKeeps
<1>4. CASE Becomes(c, Done(Attempt(Observed(Attempt(r, "available"), "bare"), "empty"), "nothing"))
  BY <1>1, <1>4, BareIsSound, BecomesKeeps
<1>5. CASE Becomes(c, Done(Attempt(Attempt(r, "available"), "unavailable"), "unavailable"))
  BY <1>1, <1>5, TwiceThenDoneIsSound, BecomesKeeps
<1> QED
  BY <1>3, <1>4, <1>5 DEF AlphaInsiders

LEMMA AlphaNewsKeeps == ASSUME IInv, NEW c \in Calls, AlphaNews(c) PROVE IInv'
<1> DEFINE r == call[c]
           found == {p \in Published \ Undated : p <= now /\ InWindow(p, Start(r), r.date)}
           a == Attempt(r, "available")
           k == [a EXCEPT !.found = found]
<1>1. Open(r, now) /\ Dated(r)
  BY OnItsWay DEF AlphaNews, Fetching
<1>2. \A p \in found : UtcDay[p] \in Int /\ UtcDay[p] <= r.date
  BY ConstantsAreRight DEF InWindow, ConstantsAreRight
<1>3. \/ Becomes(c, Done(Observed(k, "usable"), "rows"))
      \/ Becomes(c, Done(Attempt(Observed(k, "bare"), "empty"), "nothing"))
      \/ Becomes(c, Done(Attempt(a, "unavailable"), "unavailable"))
  BY DEF AlphaNews
<1>4. Open(a, now) /\ a.run = r.run
  BY <1>1, AttemptIsOpen DEF Same
<1> HIDE DEF a, found
<1>5. \A p \in found : UtcDay[p] <= a.run
  BY <1>1, <1>2, <1>4, NotLater
<1>6. Open(k, now)
  BY <1>4, <1>5, FoundIsOpen
<1> HIDE DEF k
<1>7. Open(Observed(k, "usable"), now) /\ Open(Observed(k, "bare"), now)
  BY <1>6, ObservedIsOpen
<1> QED
  BY <1>3, <1>4, <1>7, DoneIsSound, AttemptThenDoneIsSound, BecomesKeeps

-----------------------------------------------------------------------------
(* The actions of AkShare.                                                 *)

(* A call whose notes or data moved on where it is. *)
LEMMA StillAsking ==
  ASSUME NEW r, NEW n, NEW t, Sound(r, t), r.at \in {"fetch", "rss"}, Open(n, t), Same(n, r)
  PROVE  Sound(n, t)
  BY AskingIsSound DEF Same

LEMMA NextRoundIsSound ==
  ASSUME NEW r, NEW t, NEW round, Sound(r, t), Open(r, t), r.at \in {"fetch", "rss"}
  PROVE  Sound([r EXCEPT !.round = round], t)
<1> DEFINE n == [r EXCEPT !.round = round]
<1>1. /\ IsCall(n) /\ Alike(n, r) /\ n.at = r.at /\ n.tool = r.tool /\ n.place = r.place
      /\ n.started = r.started
  BY DEF Open, IsCall, Fields, Alike
<1> HIDE DEF n
<1>2. Open(n, t) /\ n.date = r.date
  BY <1>1, AlikeIsOpen DEF Open, Dated, Alike
<1>3. Sound(n, t)
  BY <1>1, <1>2, AskingIsSound
<1> QED
  BY <1>3 DEF n

LEMMA AkShareFailsKeeps == ASSUME IInv, NEW c \in Calls, AkShareFails(c) PROVE IInv'
<1> DEFINE r == call[c]
<1>1. Open(r, now) /\ now \in Times
  BY OnItsWay DEF AkShareFails, Fetching
<1>2. CASE Becomes(c, NextVendor(Attempt(r, "not_configured"), "unconfigured"))
  BY <1>1, <1>2, AttemptThenNextIsSound, BecomesKeeps
<1>3. CASE Becomes(c, NextVendor(Unheard(Missed(r)), "failed"))
  <2>1. Open(Missed(r), now)
    BY <1>1, MissedIsOpen
  <2>2. Open(Unheard(Missed(r)), now)
    BY <2>1, UnheardIsOpen
  <2> QED
    BY <1>1, <1>3, <2>2, NextVendorIsSound, BecomesKeeps
<1> QED
  BY <1>2, <1>3 DEF AkShareFails

(* What was filed by the run's date. *)
LEMMA FiledInTime ==
  ASSUME NEW r, Open(r, now), now \in Times
  PROVE  \A d \in FiledBy(r) : d <= r.run
<1>1. Dated(r) /\ HostDay[now] \in Int /\ r.date \in Int
  BY TimesAreNumbers, DaysAreNumbers DEF Open, Dated
<1>2. \A d \in FiledBy(r) : d \in Int /\ d <= r.date
  BY <1>1, DaysAreNumbers DEF FiledBy, IsHistorical
<1> QED
  BY <1>1, <1>2, NotLater

LEMMA FiledIsOpen ==
  ASSUME NEW r, Open(r, now), now \in Times, NEW k \in Filed(r)
  PROVE  Open(k, now) /\ Same(k, r)
<1>1. PICK d \in FiledBy(r) : k = Reported(r, r.rows \cup {d})
  BY DEF Filed
<1>2. "future" \in r.sources \/ \A e \in r.rows \cup {d} : e <= r.run
  BY <1>1, FiledInTime DEF Open, RowsInTime
<1> QED
  BY <1>1, <1>2, ReportedIsOpen

LEMMA UnfiledIsOpen ==
  ASSUME NEW r, Open(r, now), NEW k \in Unfiled(r)
  PROVE  Open(k, now) /\ Same(k, r)
<1> DEFINE a == Attempt(r, "available")
<1>1. Open(a, now) /\ Same(a, r) /\ k = Observed(a, "withheld")
  BY AttemptIsOpen DEF Unfiled
<1> HIDE DEF a
<1> QED
  BY <1>1, ObservedIsOpen DEF Same

LEMMA AkShareProfileKeeps == ASSUME IInv, NEW c \in Calls, AkShareProfile(c) PROVE IInv'
<1> DEFINE r == call[c]
<1>1. Sound(r, now) /\ Open(r, now) /\ now \in Times /\ r.at = "fetch"
  BY OnItsWay DEF AkShareProfile, Fetching
<1>2. ASSUME NEW k, Open(k, now), Same(k, r), Becomes(c, NextFrame(k)) PROVE IInv'
  <2>1. Sound(k, now) /\ k.at = "fetch"
    BY <1>1, <1>2, StillAsking DEF Same
  <2>2. Sound([k EXCEPT !.round = 2], now)
    BY <1>2, <2>1, NextRoundIsSound
  <2>3. Sound(Done(k, "rows"), now) /\ Sound(Done(k, "withheld"), now)
    BY <1>2, DoneIsSound
  <2>4. Sound(NextVendor(k, "empty"), now)
    BY <1>1, <1>2, NextVendorIsSound
  <2>5. NextFrame(k) \in {[k EXCEPT !.round = 2], Done(k, "rows"), Done(k, "withheld"),
                          NextVendor(k, "empty")}
    BY DEF NextFrame
  <2> QED
    BY <1>2, <2>2, <2>3, <2>4, <2>5, BecomesKeeps
<1>3. Open(Attempt(r, "empty"), now) /\ Same(Attempt(r, "empty"), r)
  BY <1>1, AttemptIsOpen
<1>4. CASE \E k \in {Attempt(r, "empty")} \cup Filed(r) \cup Unfiled(r) : Becomes(c, NextFrame(k))
  BY <1>1, <1>2, <1>3, <1>4, FiledIsOpen, UnfiledIsOpen
<1>5. CASE Becomes(c, NextVendor(Attempt(r, "available"), "empty"))
  BY <1>1, <1>5, AttemptThenNextIsSound, BecomesKeeps
<1> QED
  BY <1>4, <1>5 DEF AkShareProfile

LEMMA AkShareStatementKeeps == ASSUME IInv, NEW c \in Calls, AkShareStatement(c) PROVE IInv'
<1> DEFINE r == call[c]
<1>1. Sound(r, now) /\ Open(r, now) /\ now \in Times /\ r.at = "fetch"
  BY OnItsWay DEF AkShareStatement, Fetching
<1>2. ASSUME NEW k \in Filed(r), Becomes(c, Done(k, "rows")) PROVE IInv'
  BY <1>1, <1>2, FiledIsOpen, DoneIsSound, BecomesKeeps
<1>3. ASSUME NEW k \in Unfiled(r), Becomes(c, Done(k, "withheld")) PROVE IInv'
  BY <1>1, <1>3, UnfiledIsOpen, DoneIsSound, BecomesKeeps
<1>4. ASSUME NEW status, Becomes(c, NextStatement(Attempt(r, status))) PROVE IInv'
  <2> DEFINE a == Attempt(r, status)
  <2>1. Open(a, now) /\ Same(a, r)
    BY <1>1, AttemptIsOpen
  <2> HIDE DEF a
  <2>2. Sound(a, now) /\ a.at = "fetch"
    BY <1>1, <2>1, StillAsking DEF Same
  <2>3. Sound([a EXCEPT !.round = 2], now) /\ Sound(NextVendor(a, "empty"), now)
    BY <1>1, <2>1, <2>2, NextRoundIsSound, NextVendorIsSound
  <2>4. Sound(NextStatement(a), now)
    BY <2>3 DEF NextStatement
  <2> QED
    BY <1>4, <2>4, BecomesKeeps DEF a
<1> QED
  BY <1>2, <1>3, <1>4 DEF AkShareStatement

-----------------------------------------------------------------------------
(* The actions of StockTwits and Reddit.                                   *)

LEMMA StockTwitsKeeps == ASSUME IInv, NEW c \in Calls, StockTwits(c) PROVE IInv'
<1> DEFINE r == call[c]
           n == [r EXCEPT !.at = "select", !.items = Feed(r)]
<1>1. Open(r, now) /\ now \in Times
  BY OnItsWay DEF StockTwits, Fetching
<1>2. Becomes(c, n) \/ Becomes(c, Unanswered(r))
  BY DEF StockTwits
<1> HIDE DEF r
<1>3. Open(n, now) /\ n.at = "select"
  BY <1>1, ItemsAreOpen
<1>4. Sound(n, now) /\ Sound(Unanswered(r), now)
  BY <1>1, <1>3, AwayIsSound, UnansweredIsSound
<1> QED
  BY <1>2, <1>4, BecomesKeeps

LEMMA SelectTalkKeeps == ASSUME IInv, NEW c \in Calls, SelectTalk(c) PROVE IInv'
<1> DEFINE r == call[c]
           k == [r EXCEPT !.found = Selected(r)]
           a == Attempt(k, "available")
<1>1. Open(r, now) /\ now \in Times
  BY OnItsWay DEF SelectTalk
<1>2. Open(k, now)
  BY <1>1, SelectedInTime, FoundIsOpen
<1>3. \/ Becomes(c, Done(Observed(a, "usable"), "rows"))
      \/ Becomes(c, Done(Attempt(k, "empty"), "unavailable"))
      \/ Becomes(c, Done(Attempt(k, "empty"), "nothing"))
  BY DEF SelectTalk
<1> HIDE DEF k
<1>4. Open(a, now)
  BY <1>2, AttemptIsOpen
<1> HIDE DEF a
<1>5. Open(Observed(a, "usable"), now)
  BY <1>4, ObservedIsOpen
<1> QED
  BY <1>2, <1>3, <1>5, DoneIsSound, AttemptThenDoneIsSound, BecomesKeeps

(* The next subreddit is asked for, also after the second endpoint. *)
LEMMA NextSubredditIsSound ==
  ASSUME NEW r, Open(r, now),
         r.tool \in ReportTools /\ Vendor(r) # "akshare" => HostDay[r.started] <= r.date
  PROVE  Sound(NextSubreddit(r), now)
<1> DEFINE n == [r EXCEPT !.at = "fetch", !.round = @ + 1, !.items = {}]
<1>1. /\ IsCall(n) /\ n.at = "fetch" /\ n.items = {} /\ n.rows = r.rows /\ n.tool = r.tool
      /\ n.place = r.place /\ n.found = r.found /\ n.attempts = r.attempts /\ n.sources = r.sources
      /\ n.date = r.date /\ n.run = r.run /\ n.started = r.started
      /\ n.missed = r.missed /\ n.answer = r.answer /\ n.status = r.status
  BY DEF Open, IsCall, Fields
<1> HIDE DEF n
<1>2. Open(n, now)
  BY <1>1 DEF Open, Dated, Noted, RowsInTime, FoundInTime, ItemsAreOut
<1>3. Sound(n, now)
  BY <1>1, <1>2 DEF Sound, Holds, OfToday, Vendor
<1>4. Sound(Done(r, Discussion(r)), now)
  BY DoneIsSound
<1> QED
  BY <1>3, <1>4 DEF NextSubreddit, n

LEMMA PostsAreSound ==
  ASSUME NEW r, Open(r, now), now \in Times
  PROVE  Sound(Posts(r), now)
<1> DEFINE a == Attempt(r, IF Feed(r) = {} THEN "empty" ELSE "available")
           n == [a EXCEPT !.at = "select", !.items = Feed(r)]
<1>1. Open(a, now)
  BY AttemptIsOpen
<1>2. Posts(r) = n
  BY DEF Posts
<1> HIDE DEF a
<1>3. Open(n, now) /\ n.at = "select"
  BY <1>1, ItemsAreOpen
<1>4. Sound(n, now)
  BY <1>3, AwayIsSound
<1> QED
  BY <1>2, <1>4

LEMMA RedditKeeps == ASSUME IInv, NEW c \in Calls, Reddit(c) PROVE IInv'
<1> DEFINE r == call[c]
           m == Missed(r)
           n == [m EXCEPT !.at = "rss"]
<1>1. Sound(r, now) /\ Open(r, now) /\ now \in Times /\ r.at = "fetch"
  BY OnItsWay DEF Reddit, Fetching
<1>2. Becomes(c, Posts(r)) \/ Becomes(c, n)
  BY DEF Reddit
<1>3. Open(m, now) /\ Same(m, r)
  BY <1>1, MissedIsOpen
<1> HIDE DEF m
<1>4. /\ Open(n, now) /\ n.at = "rss" /\ n.tool = m.tool /\ n.place = m.place
      /\ n.date = m.date /\ n.started = m.started
  BY <1>3, AtIsOpen
<1> HIDE DEF n
<1>5. Sound(n, now)
  BY <1>1, <1>3, <1>4, AskingIsSound DEF Same
<1> QED
  BY <1>1, <1>2, <1>5, PostsAreSound, BecomesKeeps

(* A word on a subreddit that gave nothing. *)
LEMMA OutcomeIsOpen ==
  ASSUME NEW r, NEW outcome, Open(r, now)
  PROVE  LET n == [r EXCEPT !.outcomes = @ \cup {outcome}] IN Open(n, now) /\ Same(n, r)
<1> DEFINE n == [r EXCEPT !.outcomes = @ \cup {outcome}]
<1>1. IsCall(n) /\ Alike(n, r) /\ Same(n, r)
  BY DEF Open, IsCall, Fields, Alike, Same
<1> HIDE DEF n
<1>2. Open(n, now)
  BY <1>1, AlikeIsOpen DEF Open, Dated, Same
<1> QED
  BY <1>1, <1>2 DEF n

LEMMA RedditRssKeeps == ASSUME IInv, NEW c \in Calls, RedditRss(c) PROVE IInv'
<1> DEFINE r == call[c]
           m == Missed(r)
           u == Unheard(m)
           n == [u EXCEPT !.outcomes = @ \cup {"unavailable"}]
<1>1. Open(r, now) /\ now \in Times /\ OfToday(r) /\ r.at = "rss"
  BY OnItsWay DEF RedditRss
<1>2. Becomes(c, Posts(r)) \/ Becomes(c, NextSubreddit(n))
  BY DEF RedditRss
<1>3. Open(m, now) /\ Same(m, r)
  BY <1>1, MissedIsOpen
<1> HIDE DEF m, r
<1>4. Open(u, now) /\ Same(u, m)
  BY <1>3, UnheardIsOpen
<1> HIDE DEF u
<1>5. Open(n, now) /\ Same(n, u)
  BY <1>4, OutcomeIsOpen
<1> HIDE DEF n
<1>6. n.tool \in ReportTools /\ Vendor(n) # "akshare" => HostDay[n.started] <= n.date
  BY <1>1, <1>3, <1>4, <1>5 DEF OfToday, Same, Vendor
<1>7. Sound(NextSubreddit(n), now) /\ Sound(Posts(r), now)
  BY <1>1, <1>5, <1>6, PostsAreSound, NextSubredditIsSound
<1> QED
  BY <1>2, <1>7, BecomesKeeps

LEMMA SelectPostsKeeps == ASSUME IInv, NEW c \in Calls, SelectPosts(c) PROVE IInv'
<1> DEFINE r == call[c]
           o == Observed(r, "usable")
           found == o.found \cup Selected(r)
           k == [o EXCEPT !.found = found]
           notice == IF CoverageGap(r) THEN "unavailable" ELSE "nothing"
           n == [r EXCEPT !.outcomes = @ \cup {notice}]
<1>1. Open(r, now) /\ now \in Times /\ r.tool = "posts"
  BY OnItsWay DEF SelectPosts
<1>2. Becomes(c, NextSubreddit(k)) \/ Becomes(c, NextSubreddit(n))
  BY DEF SelectPosts
<1> HIDE DEF r, notice
<1>3. Open(o, now) /\ Same(o, r)
  BY <1>1, ObservedIsOpen
<1>4. \A p \in found : UtcDay[p] <= o.run
  BY <1>1, <1>3, SelectedInTime DEF Open, FoundInTime, Same
<1> HIDE DEF o, found
<1>5. Open(k, now) /\ Same(k, o)
  BY <1>3, <1>4, FoundIsOpen
<1>6. Open(n, now) /\ Same(n, r)
  BY <1>1, OutcomeIsOpen
<1> HIDE DEF k, n
<1>7. k.tool = "posts" /\ n.tool = "posts" /\ "posts" \notin ReportTools
  BY <1>1, <1>3, <1>5, <1>6 DEF Same, ReportTools
<1>8. Sound(NextSubreddit(k), now) /\ Sound(NextSubreddit(n), now)
  BY <1>5, <1>6, <1>7, NextSubredditIsSound
<1> QED
  BY <1>2, <1>8, BecomesKeeps

-----------------------------------------------------------------------------
(* The actions of the Chinese sentiment sources, and the clock.            *)

(* A call that goes on asking, with its data as they were. *)
LEMMA GoesOn ==
  ASSUME NEW r, Sound(r, now), Open(r, now), r.at = "fetch",
         NEW n, IsCall(n), Alike(n, r), n.at = r.at, n.tool = r.tool, n.place = r.place,
         n.started = r.started
  PROVE  Sound(n, now) /\ Open(n, now)
<1>1. Open(n, now) /\ n.date = r.date
  BY AlikeIsOpen DEF Open, Dated, Alike
<1> QED
  BY <1>1, AskingIsSound

LEMMA NextSourceIsSound ==
  ASSUME NEW r, NEW status, Sound(r, now), Open(r, now), r.at = "fetch"
  PROVE  Sound(NextSource(r, status), now)
<1> DEFINE n == [r EXCEPT !.round = Following(r), !.tries = 0]
<1>1. /\ IsCall(n) /\ Alike(n, r) /\ n.at = r.at /\ n.tool = r.tool /\ n.place = r.place
      /\ n.started = r.started
  BY DEF Open, IsCall, Fields, Alike
<1> HIDE DEF n
<1>2. Sound(n, now)
  BY <1>1, GoesOn
<1>3. \A answer : Sound(Done(r, answer), now)
  BY DoneIsSound
<1> QED
  BY <1>2, <1>3 DEF NextSource, n

LEMMA NextKeywordIsSound ==
  ASSUME NEW r, NEW status, Sound(r, now), Open(r, now), r.at = "fetch"
  PROVE  Sound(NextKeyword(r, status), now)
<1> DEFINE n == [r EXCEPT !.tries = @ + 1]
<1>1. /\ IsCall(n) /\ Alike(n, r) /\ n.at = r.at /\ n.tool = r.tool /\ n.place = r.place
      /\ n.started = r.started
  BY DEF Open, IsCall, Fields, Alike
<1> HIDE DEF n
<1>2. Sound(n, now)
  BY <1>1, GoesOn
<1>3. Sound(NextSource(r, status), now)
  BY NextSourceIsSound
<1> QED
  BY <1>2, <1>3 DEF NextKeyword, n

(* A source gave nothing, with a word on why. *)
LEMMA NotedIsSound ==
  ASSUME NEW r, NEW status, NEW last, Sound(r, now), Open(r, now), r.at = "fetch"
  PROVE  /\ Sound(NextSource(Attempt(r, status), last), now)
         /\ Sound(NextKeyword(Attempt(r, status), last), now)
<1>1. Open(Attempt(r, status), now) /\ Same(Attempt(r, status), r)
  BY AttemptIsOpen
<1>2. Sound(Attempt(r, status), now) /\ Attempt(r, status).at = "fetch"
  BY <1>1, StillAsking DEF Same
<1> QED
  BY <1>1, <1>2, NextSourceIsSound, NextKeywordIsSound

LEMMA PassedOverIsSound ==
  ASSUME NEW r, NEW last, Sound(r, now), Open(r, now), r.at = "fetch"
  PROVE  /\ Sound(NextSource(Missed(r), last), now)
         /\ Sound(NextKeyword(Missed(r), last), now)
<1>1. Open(Missed(r), now) /\ Same(Missed(r), r)
  BY MissedIsOpen
<1>2. Sound(Missed(r), now) /\ Missed(r).at = "fetch"
  BY <1>1, StillAsking DEF Same
<1> QED
  BY <1>1, <1>2, NextSourceIsSound, NextKeywordIsSound

LEMMA MoodNameKeeps == ASSUME IInv, NEW c \in Calls, MoodName(c) PROVE IInv'
<1> DEFINE r == call[c]
<1>1. Sound(r, now) /\ Open(r, now) /\ r.at = "fetch"
  BY OnItsWay DEF MoodName, Fetching
<1>2. CASE Becomes(c, NextSource(r, None))
  BY <1>1, <1>2, NextSourceIsSound, BecomesKeeps
<1>3. CASE Becomes(c, NextSource(Missed(r), "unavailable"))
  BY <1>1, <1>3, PassedOverIsSound, BecomesKeeps
<1>4. ASSUME NEW status, Becomes(c, NextSource(Attempt(r, status), status)) PROVE IInv'
  BY <1>1, <1>4, NotedIsSound, BecomesKeeps
<1>5. ASSUME NEW named,
             Becomes(c, NextSource([Attempt(r, "available") EXCEPT !.named = named], "available"))
      PROVE  IInv'
  <2> DEFINE a == Attempt(r, "available")
             n == [a EXCEPT !.named = named]
  <2>1. Open(a, now) /\ Same(a, r)
    BY <1>1, AttemptIsOpen
  <2>2. Sound(a, now) /\ a.at = "fetch"
    BY <1>1, <2>1, StillAsking DEF Same
  <2> HIDE DEF a
  <2>3. /\ IsCall(n) /\ Alike(n, a) /\ n.at = a.at /\ n.tool = a.tool /\ n.place = a.place
        /\ n.started = a.started
    BY <2>1 DEF Open, IsCall, Fields, Alike
  <2> HIDE DEF n
  <2>4. Sound(n, now) /\ Open(n, now)
    BY <2>1, <2>2, <2>3, GoesOn
  <2>5. Sound(NextSource(n, "available"), now)
    BY <2>2, <2>3, <2>4, NextSourceIsSound
  <2> QED
    BY <1>5, <2>5, BecomesKeeps DEF n, a
<1> QED
  BY <1>2, <1>3, <1>4, <1>5 DEF MoodName

(* The Chinese date is never before the UTC date. *)
LEMMA InChinaInTime ==
  ASSUME NEW r, Dated(r), NEW before
  PROVE  \A p \in InChina(r, before) : UtcDay[p] <= r.run
<1> SUFFICES ASSUME NEW p \in InChina(r, before) PROVE UtcDay[p] <= r.run
  OBVIOUS
<1>1. p \in Published /\ ChinaDay[p] <= r.date
  BY DEF InChina, Feed, Newest
<1>2. p \in DOMAIN UtcDay /\ UtcDay[p] \in Int /\ ChinaDay[p] \in Int /\ r.date \in Int
  BY <1>1, ConstantsAreRight, DaysAreNumbers DEF ConstantsAreRight, Dated
<1>3. UtcDay[p] <= ChinaDay[p]
  BY <1>2, ClocksAreRight DEF ClocksAreRight
<1> QED
  BY <1>1, <1>2, <1>3, NotLater

LEMMA CollectedIsSound ==
  ASSUME NEW r, Sound(r, now), Open(r, now), r.at = "fetch", NEW k \in Collected(r)
  PROVE  Sound(k, now) /\ Open(k, now) /\ k.at = "fetch"
<1>1. PICK kept \in {InChina(r, Before(r)), {}} :
        k = LET a == Attempt([r EXCEPT !.found = @ \cup kept], "available")
            IN  IF kept # {} THEN Observed(a, "usable") ELSE a
  BY DEF Collected
<1> DEFINE found == r.found \cup kept
           f == [r EXCEPT !.found = found]
           a == Attempt(f, "available")
           o == Observed(a, "usable")
<1>2. \A p \in found : UtcDay[p] <= r.run
  BY InChinaInTime DEF Open, FoundInTime
<1>3. k = o \/ k = a
  BY <1>1
<1> HIDE DEF found
<1>4. Open(f, now) /\ Same(f, r)
  BY <1>2, FoundIsOpen
<1> HIDE DEF f
<1>5. Open(a, now) /\ Same(a, f)
  BY <1>4, AttemptIsOpen
<1> HIDE DEF a
<1>6. Open(o, now) /\ Same(o, a)
  BY <1>5, ObservedIsOpen
<1> HIDE DEF o
<1>7. Same(a, r) /\ Same(o, r) /\ a.at = "fetch" /\ o.at = "fetch"
  BY <1>4, <1>5, <1>6 DEF Same
<1>8. Sound(a, now) /\ Sound(o, now)
  BY <1>5, <1>6, <1>7, StillAsking
<1> QED
  BY <1>3, <1>5, <1>6, <1>7, <1>8

LEMMA MoodItemsKeeps == ASSUME IInv, NEW c \in Calls, MoodItems(c) PROVE IInv'
<1> DEFINE r == call[c]
<1>1. Sound(r, now) /\ Open(r, now) /\ r.at = "fetch"
  BY OnItsWay DEF MoodItems, Fetching
<1>2. ASSUME NEW k \in Collected(r), Becomes(c, NextSource(k, "available")) PROVE IInv'
  <2>1. Sound(NextSource(k, "available"), now)
    BY <1>1, CollectedIsSound, NextSourceIsSound
  <2> QED
    BY <1>2, <2>1, BecomesKeeps
<1>3. CASE Becomes(c, NextSource(Missed(r), "unavailable"))
  BY <1>1, <1>3, PassedOverIsSound, BecomesKeeps
<1>4. ASSUME NEW status, Becomes(c, NextSource(Attempt(r, status), status)) PROVE IInv'
  BY <1>1, <1>4, NotedIsSound, BecomesKeeps
<1> QED
  BY <1>2, <1>3, <1>4 DEF MoodItems

LEMMA MoodSearchKeeps == ASSUME IInv, NEW c \in Calls, MoodSearch(c) PROVE IInv'
<1> DEFINE r == call[c]
<1>1. Sound(r, now) /\ Open(r, now) /\ r.at = "fetch"
  BY OnItsWay DEF MoodSearch, Fetching
<1>2. ASSUME NEW k \in Collected(r), Becomes(c, NextKeyword(k, "available")) PROVE IInv'
  <2>1. Sound(NextKeyword(k, "available"), now)
    BY <1>1, CollectedIsSound, NextKeywordIsSound
  <2> QED
    BY <1>2, <2>1, BecomesKeeps
<1>3. CASE Becomes(c, NextKeyword(Missed(r), "unavailable"))
  BY <1>1, <1>3, PassedOverIsSound, BecomesKeeps
<1>4. CASE Becomes(c, NextKeyword(Attempt(r, "empty"), "empty"))
  BY <1>1, <1>4, NotedIsSound, BecomesKeeps
<1> QED
  BY <1>2, <1>3, <1>4 DEF MoodSearch

(* Keywords of a later day are the ledger's to withhold. *)
LEMMA MoodKeywordsKeeps == ASSUME IInv, NEW c \in Calls, MoodKeywords(c) PROVE IInv'
<1> DEFINE r == call[c]
           today == ChinaDay[now]
           o == Observed(Attempt(r, "available"), "usable")
           late == IF today > r.run THEN {"future"} ELSE {}
           s == [o EXCEPT !.sources = @ \cup late]
           k == [Reported(r, {today}) EXCEPT !.sources = @ \cup late]
<1>1. Sound(r, now) /\ Open(r, now) /\ r.at = "fetch" /\ now \in Times
  BY OnItsWay DEF MoodKeywords, Fetching
<1>2. CASE Becomes(c, NextSource(k, "available"))
  <2>1. Open(Attempt(r, "available"), now) /\ Same(Attempt(r, "available"), r)
    BY <1>1, AttemptIsOpen
  <2>2. Open(o, now) /\ Same(o, Attempt(r, "available"))
    BY <2>1, ObservedIsOpen
  <2>3. today \in Int /\ r.run \in Int
    <3>1. now \in DOMAIN ChinaDay /\ ChinaDay \in [DOMAIN UtcDay -> Int]
      BY <1>1, ConstantsAreRight DEF ConstantsAreRight
    <3> QED
      BY <1>1, <3>1, DaysAreNumbers DEF Open, Dated
  <2>4. k = [o EXCEPT !.rows = {today}, !.sources = @ \cup late]
    BY <1>1 DEF Reported, Observed, Attempt, Open, IsCall, Fields
  <2> HIDE DEF k, o
  <2>5. /\ IsCall(k) /\ Same(k, o) /\ k.rows = {today} /\ k.found = o.found
        /\ k.attempts = o.attempts /\ k.sources = o.sources \cup late
        /\ k.missed = o.missed /\ k.answer = o.answer /\ k.status = o.status
    BY <2>2, <2>4 DEF Open, IsCall, Fields, Same
  <2>6. "future" \in late \/ today <= r.run
    BY <2>3
  <2>7. RowsInTime(k)
    BY <2>1, <2>2, <2>5, <2>6 DEF RowsInTime, Same
  <2>8. Open(k, now)
    BY <2>2, <2>5, <2>7 DEF Open, Same, Dated, Noted, FoundInTime, ItemsAreOut
  <2>9. Same(k, r)
    BY <2>1, <2>2, <2>5 DEF Same
  <2>10. Sound(k, now) /\ k.at = "fetch"
    BY <1>1, <2>8, <2>9, StillAsking DEF Same
  <2>11. Sound(NextSource(k, "available"), now)
    BY <2>8, <2>10, NextSourceIsSound
  <2> QED
    BY <1>2, <2>11, BecomesKeeps
<1>3. CASE Becomes(c, NextSource(Missed(r), "unavailable"))
  BY <1>1, <1>3, PassedOverIsSound, BecomesKeeps
<1>4. ASSUME NEW status, Becomes(c, NextSource(Attempt(r, status), status)) PROVE IInv'
  BY <1>1, <1>4, NotedIsSound, BecomesKeeps
<1> QED
  BY <1>2, <1>3, <1>4 DEF MoodKeywords

LEMMA TickKeeps == ASSUME IInv, Tick PROVE IInv'
<1>1. MaxTime \in Nat /\ now \in 0 .. MaxTime /\ now < MaxTime /\ now' = now + 1
  BY ConstantsAreRight DEF IInv, Tick, Times, ConstantsAreRight
<1>2. now' \in Times
  BY <1>1 DEF Times
<1>3. UNCHANGED <<file, call>>
  BY DEF Tick
<1>4. ASSUME NEW c \in Calls PROVE Sound(call[c], now')
  <2> DEFINE r == call[c]
  <2>1. Sound(r, now)
    BY DEF IInv
  <2>2. CASE r.at = "done"
    BY <2>1, <2>2 DEF Sound
  <2>3. CASE r.at # "done"
    <3>1. ItemsAreOut(r, now)
      BY <2>1, <2>3 DEF Sound, Open
    <3>2. \A p \in r.items : p \in Int
      BY <3>1, ConstantsAreRight DEF ItemsAreOut, ConstantsAreRight
    <3>3. ItemsAreOut(r, now')
      BY <1>1, <3>1, <3>2 DEF ItemsAreOut
    <3> QED
      BY <2>1, <2>3, <3>3 DEF Sound, Open
  <2> QED
    BY <2>2, <2>3
<1> QED
  BY <1>2, <1>3, <1>4 DEF IInv

-----------------------------------------------------------------------------
(* The invariant, and what follows from it.                                *)

(* Whatever the vendors send, every call is sound: an open one has noted   *)
(* what went unanswered and holds nothing too late that the ledger does    *)
(* not know of, and a finished one answered accordingly.                   *)
THEOREM CallsAreSound == Spec => []IInv
<1>1. ASSUME IInv, NEW c \in Calls, Step(c) PROVE IInv'
  <2>1. CASE \/ Enter(c) \/ Unsupported(c) \/ ReadFile(c) \/ JudgeFile(c) \/ WriteFile(c)
             \/ Serve(c) \/ Assess(c) \/ Calculate(c)
    BY <1>1, <2>1, EnterKeeps, UnsupportedKeeps, ReadFileKeeps, JudgeFileKeeps, WriteFileKeeps,
       ServeKeeps, AssessKeeps, CalculateKeeps
  <2>2. CASE \/ YahooRefuses(c) \/ YahooIsEmpty(c) \/ YahooPrices(c) \/ YahooProfile(c)
             \/ YahooStatement(c) \/ YahooInsiders(c) \/ YahooNews(c) \/ Probe(c)
             \/ SelectNews(c) \/ SelectWorld(c) \/ Tencent(c) \/ Eastmoney(c)
    BY <1>1, <2>2, YahooRefusesKeeps, YahooIsEmptyKeeps, YahooPricesKeeps, YahooReportsKeep,
       YahooNewsKeeps, ProbeKeeps, SelectNewsKeeps, SelectWorldKeeps, TencentKeeps,
       EastmoneyKeeps
  <2>3. CASE \/ AlphaRefuses(c) \/ AlphaPrices(c) \/ AlphaIndicator(c) \/ AlphaReport(c)
             \/ AlphaInsiders(c) \/ AlphaNews(c)
             \/ AkShareFails(c) \/ AkShareProfile(c) \/ AkShareStatement(c)
    BY <1>1, <2>3, AlphaRefusesKeeps, AlphaPricesKeeps, AlphaIndicatorKeeps, AlphaReportKeeps,
       AlphaInsidersKeeps, AlphaNewsKeeps, AkShareFailsKeeps, AkShareProfileKeeps,
       AkShareStatementKeeps
  <2>4. CASE \/ StockTwits(c) \/ SelectTalk(c) \/ Reddit(c) \/ RedditRss(c) \/ SelectPosts(c)
             \/ MoodName(c) \/ MoodItems(c) \/ MoodSearch(c) \/ MoodKeywords(c)
    BY <1>1, <2>4, StockTwitsKeeps, SelectTalkKeeps, RedditKeeps, RedditRssKeeps,
       SelectPostsKeeps, MoodNameKeeps, MoodItemsKeeps, MoodSearchKeeps,
       MoodKeywordsKeeps
  <2> QED
    BY <1>1, <2>1, <2>2, <2>3, <2>4 DEF Step
<1>2. ASSUME IInv, [Next]_vars PROVE IInv'
  <2>1. CASE UNCHANGED vars
    BY <1>2, <2>1 DEF vars, IInv
  <2> QED
    BY <1>1, <1>2, <2>1, AskKeeps, TickKeeps DEF Next
<1> QED
  BY <1>2, InitIsSound, PTL DEF Spec

(* No answer holds anything of a day after the run's, whatever the calls   *)
(* that share the file have asked for and the vendors have sent.           *)
THEOREM LooksNotAhead == Spec => []NothingFromAfterTheRun
<1>1. IInv => NothingFromAfterTheRun
  BY ConstantsAreRight DEF IInv, Sound, Open, Answered, NothingFromAfterTheRun, ConstantsAreRight
<1> QED
  BY <1>1, CallsAreSound, PTL

(* No record is marked available behind which a request went unanswered.   *)
THEOREM AvailableIsHonest == Spec => []AvailableIsUndisturbed
<1>1. IInv => AvailableIsUndisturbed
  BY ConstantsAreRight DEF IInv, Sound, Open, Answered, AvailableIsUndisturbed, ConstantsAreRight
<1> QED
  BY <1>1, CallsAreSound, PTL

-----------------------------------------------------------------------------
(* What a feed's newest items leave out.                                   *)

LEMMA LeastNatural ==
  ASSUME NEW T, T \subseteq Nat, T # {}
  PROVE  \E n \in T : \A m \in T : n <= m
<1> DEFINE R == OpToRel(<, Nat)
<1>1. IsWellFoundedOn(R, Nat)
  BY NatLessThanWellFounded DEF OpToRel
<1>2. \A x, y \in Nat : x < y => <<x, y>> \in R
  BY DEF OpToRel
<1> HIDE DEF R
<1>3. PICK n \in T : \A m \in T : ~(<<m, n>> \in R)
  BY <1>1, WFMin
<1>4. ASSUME NEW m \in T PROVE n <= m
  <2>1. m \in Nat /\ n \in Nat /\ ~(m < n)
    BY <1>2, <1>3
  <2> QED
    BY <2>1
<1> QED
  BY <1>4

Newer(S, p) == {q \in S : q > p}

LEMMA NewerAreFewer ==
  ASSUME NEW S, S \subseteq Int, IsFiniteSet(S), NEW p \in Int, NEW q \in Int, p <= q
  PROVE  /\ Cardinality(Newer(S, p)) \in Nat /\ Cardinality(Newer(S, q)) \in Nat
         /\ Cardinality(Newer(S, q)) <= Cardinality(Newer(S, p))
         /\ q \in S /\ p < q => Cardinality(Newer(S, q)) < Cardinality(Newer(S, p))
<1>1. IsFiniteSet(Newer(S, p)) /\ IsFiniteSet(Newer(S, q))
  BY FS_Subset DEF Newer
<1>2. Newer(S, q) \in SUBSET Newer(S, p)
  <2>1. ASSUME NEW x \in Newer(S, q) PROVE x \in Newer(S, p)
    <3>1. x \in S /\ x \in Int /\ x > q
      BY DEF Newer
    <3>2. x > p
      BY <3>1
    <3> QED
      BY <3>1, <3>2 DEF Newer
  <2> QED
    BY <2>1
<1>3. q \in S /\ p < q => q \in Newer(S, p) /\ q \notin Newer(S, q)
  BY DEF Newer
<1>4. /\ Cardinality(Newer(S, p)) \in Nat /\ Cardinality(Newer(S, q)) \in Nat
      /\ Cardinality(Newer(S, q)) <= Cardinality(Newer(S, p))
      /\ Cardinality(Newer(S, q)) = Cardinality(Newer(S, p)) => Newer(S, p) = Newer(S, q)
  BY <1>1, <1>2, FS_Subset, FS_CardinalityType
<1> QED
  BY <1>3, <1>4

(* Of the moments in T the last is the one with the fewest newer ones.     *)
LEMMA LastMoment ==
  ASSUME NEW T, T \subseteq Int, IsFiniteSet(T), T # {}
  PROVE  \E p \in T : \A q \in T : q <= p
<1> DEFINE Rank(p) == Cardinality(Newer(T, p))
           ranks == {Rank(p) : p \in T}
<1>1. ASSUME NEW p \in T PROVE Rank(p) \in Nat
  <2>1. p \in Int /\ p <= p
    OBVIOUS
  <2> QED
    BY <2>1, NewerAreFewer
<1>2. ranks \subseteq Nat /\ ranks # {}
  BY <1>1
<1>3. PICK n \in ranks : \A m \in ranks : n <= m
  BY <1>2, LeastNatural
<1>4. PICK p \in T : n = Rank(p)
  BY <1>3
<1>5. ASSUME NEW q \in T PROVE q <= p
  <2>1. p \in Int /\ q \in Int /\ Rank(p) <= Rank(q)
    BY <1>3, <1>4
  <2>2. CASE p < q
    <3>1. p <= q
      BY <2>1, <2>2
    <3>2. Rank(q) < Rank(p) /\ Rank(p) \in Nat /\ Rank(q) \in Nat
      BY <2>1, <2>2, <3>1, NewerAreFewer
    <3> HIDE DEF Rank
    <3> QED
      BY <2>1, <3>2
  <2> QED
    BY <2>1, <2>2
<1> QED
  BY <1>5

LEMMA FirstMoment ==
  ASSUME NEW T, T \subseteq Int, IsFiniteSet(T), T # {}
  PROVE  \E p \in T : \A q \in T : p <= q
<1> DEFINE Older(p) == {q \in T : q < p}
           Rank(p) == Cardinality(Older(p))
           ranks == {Rank(p) : p \in T}
<1>1. \A p \in T : Older(p) \in SUBSET T
  OBVIOUS
<1>2. ASSUME NEW p \in T, NEW q \in T, q < p
      PROVE  Older(q) \in SUBSET Older(p) /\ q \in Older(p) /\ q \notin Older(q)
  <2>1. p \in Int /\ q \in Int /\ q \in Older(p) /\ q \notin Older(q)
    BY <1>2
  <2>2. ASSUME NEW x \in Older(q) PROVE x \in Older(p)
    <3>1. x \in T /\ x \in Int /\ x < q
      OBVIOUS
    <3> QED
      BY <1>2, <2>1, <3>1
  <2> QED
    BY <2>1, <2>2
<1> HIDE DEF Older
<1>3. \A p \in T : IsFiniteSet(Older(p)) /\ Rank(p) \in Nat
  BY <1>1, FS_Subset, FS_CardinalityType
<1>4. ranks \subseteq Nat /\ ranks # {}
  BY <1>3
<1>5. PICK n \in ranks : \A m \in ranks : n <= m
  BY <1>4, LeastNatural
<1>6. PICK p \in T : n = Rank(p)
  BY <1>5
<1>7. ASSUME NEW q \in T PROVE p <= q
  <2>1. p \in Int /\ q \in Int /\ Rank(p) <= Rank(q)
    BY <1>5, <1>6
  <2>2. CASE q < p
    <3>1. Rank(q) <= Rank(p) /\ (Rank(p) = Rank(q) => Older(p) = Older(q))
      BY <1>2, <1>3, <2>2, FS_Subset
    <3>2. Older(p) # Older(q)
      BY <1>2, <2>2
    <3>3. Rank(p) \in Nat /\ Rank(q) \in Nat
      BY <1>3
    <3> HIDE DEF Rank
    <3> QED
      BY <2>1, <3>1, <3>2, <3>3
  <2> QED
    BY <2>1, <2>2
<1> QED
  BY <1>7

(* A feed leaves an item out only if it serves as many as it may.          *)
LEMMA ServesItsLimit ==
  ASSUME NEW S, S \subseteq Int, IsFiniteSet(S), NEW p \in S, p \notin Newest(S)
  PROVE  IsFiniteSet(Newest(S)) /\ Cardinality(Newest(S)) >= FeedLimit
<1>0. FeedLimit \in Nat
  BY ConstantsAreRight DEF ConstantsAreRight
<1>1. \A q \in S : q \in Newest(S) <=> Cardinality(Newer(S, q)) < FeedLimit
  BY DEF Newest, Newer
<1>2. IsFiniteSet(S \ Newest(S)) /\ IsFiniteSet(Newest(S))
  BY FS_Subset DEF Newest
<1>3. PICK m \in S \ Newest(S) : \A q \in S \ Newest(S) : q <= m
  BY <1>2, LastMoment
<1>4. Newer(S, m) \in SUBSET Newest(S)
  <2>1. ASSUME NEW q \in Newer(S, m), q \notin Newest(S) PROVE FALSE
    <3>1. q \in S \ Newest(S) /\ q \in Int /\ m \in Int /\ q > m
      BY <1>3, <2>1 DEF Newer
    <3> QED
      BY <1>3, <3>1
  <2> QED
    BY <2>1
<1>5. Cardinality(Newer(S, m)) <= Cardinality(Newest(S))
  BY <1>2, <1>4, FS_Subset
<1>6. Cardinality(Newer(S, m)) \in Nat /\ ~(Cardinality(Newer(S, m)) < FeedLimit)
  BY <1>1, <1>3, NewerAreFewer
<1>7. Cardinality(Newest(S)) \in Nat
  BY <1>2, FS_CardinalityType
<1> QED
  BY <1>0, <1>2, <1>5, <1>6, <1>7

-----------------------------------------------------------------------------
(* When a selection that kept nothing, of a window without a gap, has seen *)
(* all there was.                                                          *)

(* What a feed serves at the moment u. *)
ServableAt(r, u) ==
    {p \in Published :
        /\ p <= u
        /\ r.tool = "posts" => p \in Subreddits[r.round] /\ p >= u - Lookback
        /\ r.tool = "world" => p \in Queries[r.round]}

(* That an item of the window was missed is excused. *)
Excused(p, r) ==
    p <= r.started /\ InWindow(p, Start(r), r.date)
    => UtcDay[p] = Start(r) /\ (r.tool = "posts" \/ FeedDays = 0)

LEMMA Moments ==
  /\ DOMAIN UtcDay \subseteq Int /\ Times \subseteq DOMAIN UtcDay
  /\ Published \subseteq DOMAIN UtcDay /\ IsFiniteSet(Published)
  /\ \A p \in DOMAIN UtcDay : UtcDay[p] \in Int
  /\ \A p, q \in DOMAIN UtcDay : p <= q => UtcDay[p] <= UtcDay[q]
  /\ \A t \in Times : t \in Nat /\ t - Lookback \in DOMAIN UtcDay
  /\ FeedDays \in Nat /\ Lookback \in Nat /\ FeedLimit \in Nat
  BY ConstantsAreRight, ClocksAreRight DEF ConstantsAreRight, ClocksAreRight, Times

(* The moment that a feed speaks from. *)
LEMMA ReachIsFirst ==
  ASSUME NEW r, now \in Times, r.items \subseteq Published
  PROVE  /\ Reach(r) \in DOMAIN UtcDay
         /\ \A q \in r.items \ Undated : r.tool # "world" => Reach(r) <= q
         /\ \/ Reach(r) = now
            \/ r.tool # "world" /\ Reach(r) \in r.items \ Undated
            \/ r.tool = "posts" /\ Cardinality(r.items) < FeedLimit /\ Reach(r) = now - Lookback
<1> DEFINE items == IF r.tool = "world" THEN {} ELSE r.items \ Undated
           edge == IF r.tool = "posts" /\ Cardinality(r.items) < FeedLimit
                   THEN {now - Lookback} ELSE {}
           spoken == items \cup {now} \cup edge
<1>1. spoken \subseteq DOMAIN UtcDay /\ spoken \subseteq Int /\ spoken # {}
  BY Moments
<1>2. IsFiniteSet(spoken)
  <2>1. IsFiniteSet(items)
    BY Moments, FS_Subset, FS_EmptySet
  <2>2. IsFiniteSet({now}) /\ IsFiniteSet(edge)
    BY FS_Singleton, FS_EmptySet
  <2> HIDE DEF items, edge
  <2> QED
    BY <2>1, <2>2, FS_Union
<1>3. \E p \in spoken : \A q \in spoken : p <= q
  BY <1>1, <1>2, FirstMoment
<1>4. Reach(r) = CHOOSE p \in spoken : \A q \in spoken : p <= q
  BY DEF Reach
<1>5. Reach(r) \in spoken /\ \A q \in spoken : Reach(r) <= q
  BY <1>3, <1>4
<1> QED
  BY <1>1, <1>5

LEMMA NothingWasMissed ==
  ASSUME NEW r, now \in Times, r.tool \in {"news", "talk", "posts"}, r.date \in Int,
         r.started \in Times, NEW u \in Times, r.started <= u, u <= now,
         r.items = Newest(ServableAt(r, u)), Selected(r) = {}, ~CoverageGap(r),
         NEW p \in Published \ Undated, r.tool = "posts" => p \in Subreddits[r.round]
  PROVE  Excused(p, r)
<1> DEFINE S == ServableAt(r, u)
           m == Reach(r)
<1>1. SUFFICES ASSUME p <= r.started, InWindow(p, Start(r), r.date)
               PROVE  UtcDay[p] = Start(r) /\ (r.tool = "posts" \/ FeedDays = 0)
  BY DEF Excused
<1>2. /\ S \subseteq Published /\ S \subseteq Int /\ IsFiniteSet(S)
      /\ r.items \subseteq S /\ p \in Int /\ p \in DOMAIN UtcDay
      /\ UtcDay[p] \in Int /\ UtcDay[now] \in Int /\ now \in Nat /\ u \in Nat
      /\ r.started \in Nat
  <2>1. S \subseteq Published /\ r.items \subseteq S
    BY DEF ServableAt, Newest
  <2> HIDE DEF S
  <2> QED
    BY <2>1, Moments, FS_Subset
<1>3. /\ Start(r) = r.date - FeedDays /\ Start(r) \in Int
      /\ Start(r) <= UtcDay[p] /\ UtcDay[p] <= r.date
  BY <1>1, Moments DEF Start, FeedTools, InWindow
<1>4. /\ m \in DOMAIN UtcDay /\ m \in Int /\ UtcDay[m] \in Int
      /\ r.date <= UtcDay[now] /\ UtcDay[m] <= Start(r)
  <2>1. m \in DOMAIN UtcDay
    BY <1>2, ReachIsFirst
  <2>2. ~(r.date > UtcDay[now]) /\ ~(UtcDay[m] > Start(r))
    BY DEF CoverageGap
  <2> HIDE DEF m
  <2> QED
    BY <1>2, <1>3, <2>1, <2>2, Moments
<1>5. \/ m = now
      \/ m \in r.items \ Undated
      \/ r.tool = "posts" /\ Cardinality(r.items) < FeedLimit /\ m = now - Lookback
  BY <1>2, ReachIsFirst
<1>6. \A q \in r.items \ Undated : ~InWindow(q, Start(r), r.date)
  BY DEF Selected, Belongs
<1>7. p \notin r.items
  BY <1>1, <1>6
<1> HIDE DEF m
<1>8. CASE p <= m
  <2>0. UtcDay[p] <= UtcDay[m]
    BY <1>2, <1>4, <1>8, Moments
  <2>1. UtcDay[p] = Start(r) /\ UtcDay[m] = Start(r)
    BY <1>2, <1>3, <1>4, <2>0
  <2>2. CASE m = now
    BY <1>3, <1>4, <2>1, <2>2, Moments
  <2>3. m \notin r.items \ Undated
    BY <1>3, <1>6, <2>1 DEF InWindow
  <2> QED
    BY <1>5, <2>1, <2>2, <2>3
<1>9. CASE m < p
  <2>1. m # now
    BY <1>1, <1>2, <1>9
  <2>2. ASSUME r.tool = "posts" => p >= u - Lookback PROVE p \in S
    BY <1>1, <1>2, <2>2 DEF ServableAt
  <2>3. CASE m \in r.items \ Undated
    <3>1. r.tool = "posts" => m >= u - Lookback
      BY <1>2, <2>3 DEF ServableAt
    <3>2. p \in S
      BY <1>2, <1>4, <1>9, <2>2, <3>1, Moments
    <3>3. ~(Cardinality(Newer(S, p)) < FeedLimit) /\ Cardinality(Newer(S, m)) < FeedLimit
      BY <1>7, <2>3, <3>2 DEF Newest, Newer
    <3> HIDE DEF S
    <3>4. m <= p
      BY <1>2, <1>4, <1>9
    <3>5. /\ Cardinality(Newer(S, m)) \in Nat /\ Cardinality(Newer(S, p)) \in Nat
          /\ Cardinality(Newer(S, p)) <= Cardinality(Newer(S, m))
      BY <1>2, <1>4, <3>4, NewerAreFewer
    <3> QED
      BY <3>3, <3>5, Moments
  <2>4. CASE r.tool = "posts" /\ Cardinality(r.items) < FeedLimit /\ m = now - Lookback
    <3>1. p \in S
      BY <1>2, <1>9, <2>2, <2>4, Moments
    <3>2. r.items = Newest(S)
      OBVIOUS
    <3> HIDE DEF S
    <3>3. IsFiniteSet(r.items) /\ Cardinality(r.items) >= FeedLimit
      BY <1>2, <1>7, <3>1, <3>2, ServesItsLimit
    <3>4. Cardinality(r.items) \in Nat
      BY <3>3, FS_CardinalityType
    <3> QED
      BY <2>4, <3>3, <3>4, Moments
  <2> QED
    BY <1>5, <2>1, <2>3, <2>4
<1> QED
  BY <1>2, <1>4, <1>8, <1>9

-----------------------------------------------------------------------------
(* That an absence is observed: what a call must remember on its way.      *)

(* Whoever was not heard has left its outcome. *)
Heard(r) == r.silent # {} => r.outcomes \cap {"unavailable", "failed"} # {}

Placed(r) ==
    /\ r.tool \in Tools /\ r.place \in DOMAIN Chain[r.tool] /\ r.round \in Nat
    /\ r.at = "rss" => r.tool = "posts"
    /\ r.at = "asked" => r.round = 1

(* Where nothing was found in the subreddits before, nothing was missed. *)
Posted(r) ==
    r.tool = "posts" =>
        \/ r.found # {} \/ "unavailable" \in r.outcomes
        \/ \A s \in DOMAIN Subreddits : s < r.round =>
              \A p \in Subreddits[s] \ Undated : Excused(p, r)

(* Items were served since the adapter was entered; Yahoo may have none. *)
Served(r, t) ==
    /\ r.at # "select" /\ r.tool = "news" => r.items = {}
    /\ r.at = "select" /\ r.tool \in {"news", "talk", "posts"} =>
         \/ r.tool = "news" /\ r.items = {}
         \/ \E u \in Times : /\ r.started <= u /\ u <= t
                             /\ r.items = Newest(ServableAt(r, u))

Absent(r) ==
    /\ r.answer = "no_data" => r.silent = {}
    /\ r.answer = "nothing" /\ r.tool \in FeedTools =>
         \A p \in Told(r.tool) : Excused(p, r)

Candid(r, t) ==
    IF r.at = "done" THEN Absent(r)
    ELSE Heard(r) /\ Placed(r) /\ r.started <= t /\ Posted(r) /\ Served(r, t)

AInv == \A c \in Calls : Candid(call[c], now)

(* The same request, at the same place, with what it has met so far. *)
Tracks(n, r) ==
    /\ n.tool = r.tool /\ n.place = r.place /\ n.round = r.round /\ n.date = r.date
    /\ n.started = r.started /\ n.outcomes = r.outcomes

(* And with what it has found and whom it has not heard. *)
Echoes(n, r) ==
    Tracks(n, r) /\ n.silent = r.silent /\ n.found = r.found /\ n.items = r.items /\ n.at = r.at

LEMMA NotesEcho ==
  ASSUME NEW r, IsCall(r), NEW note
  PROVE  /\ IsCall(Attempt(r, note)) /\ Echoes(Attempt(r, note), r)
         /\ IsCall(Observed(r, note)) /\ Echoes(Observed(r, note), r)
<1>1. IsCall(Attempt(r, note)) /\ Echoes(Attempt(r, note), r)
  BY DEF Attempt, IsCall, Fields, Echoes, Tracks
<1>2. IsCall(Observed(r, note)) /\ Echoes(Observed(r, note), r)
  BY DEF Observed, IsCall, Fields, Echoes, Tracks
<1> QED
  BY <1>1, <1>2

LEMMA MissedEchoes ==
  ASSUME NEW r, IsCall(r)
  PROVE  IsCall(Missed(r)) /\ Echoes(Missed(r), r)
  BY DEF Missed, IsCall, Fields, Echoes, Tracks

LEMMA ReportedEchoes ==
  ASSUME NEW r, IsCall(r), NEW rows
  PROVE  IsCall(Reported(r, rows)) /\ Echoes(Reported(r, rows), r)
<1> DEFINE o == Observed(Attempt(r, "available"), "usable")
<1>1. IsCall(o) /\ Echoes(o, r)
  BY NotesEcho DEF Echoes, Tracks
<1> HIDE DEF o
<1>2. LET n == [o EXCEPT !.rows = rows] IN IsCall(n) /\ Echoes(n, o)
  BY <1>1 DEF IsCall, Fields, Echoes, Tracks
<1> QED
  BY <1>1, <1>2 DEF Reported, o, Echoes, Tracks

LEMMA UnheardTracks ==
  ASSUME NEW r, IsCall(r)
  PROVE  IsCall(Unheard(r)) /\ Tracks(Unheard(r), r) /\ Unheard(r).found = r.found
  BY DEF Unheard, IsCall, Fields, Tracks

-----------------------------------------------------------------------------
(* Where a call may go without telling of an absence it has not seen.      *)

(* Most answers tell of no absence. *)
LEMMA TellsOfNone ==
  ASSUME NEW r, IsCall(r), NEW answer, answer \notin {"nothing", "no_data"}, NEW t
  PROVE  Candid(Done(r, answer), t)
<1> DEFINE d == Done(r, answer)
<1>1. d.at = "done" /\ d.answer = Said(answer, r.sources)
  BY DEF Done, IsCall, Fields
<1>2. d.answer \notin {"nothing", "no_data"}
  BY <1>1 DEF Said
<1> HIDE DEF d
<1>3. Candid(d, t)
  BY <1>1, <1>2 DEF Candid, Absent
<1> QED
  BY <1>3 DEF d

LEMMA DoneFields ==
  ASSUME NEW r, IsCall(r), NEW answer
  PROVE  LET d == Done(r, answer) IN
         /\ d.at = "done" /\ d.answer = Said(answer, r.sources) /\ d.silent = r.silent
         /\ d.tool = r.tool /\ d.date = r.date /\ d.started = r.started
  BY DEF Done, IsCall, Fields

(* Nothing was there, or no feed was asked. *)
LEMMA TellsOfNothing ==
  ASSUME NEW r, IsCall(r), NEW t,
         r.tool \in FeedTools => \A p \in Told(r.tool) : Excused(p, r)
  PROVE  Candid(Done(r, "nothing"), t)
<1> DEFINE d == Done(r, "nothing")
<1>1. /\ d.at = "done" /\ d.answer \in {"nothing", "withheld"}
      /\ d.tool = r.tool /\ d.date = r.date /\ d.started = r.started
  BY DoneFields DEF Said
<1> HIDE DEF d
<1>2. \A p : Excused(p, d) <=> Excused(p, r)
  BY <1>1 DEF Excused, Start
<1>3. Candid(d, t)
  BY <1>1, <1>2 DEF Candid, Absent
<1> QED
  BY <1>3 DEF d

LEMMA EnteredIsCandid ==
  ASSUME NEW r, IsCall(r), now \in Times, Heard(r),
         r.tool \in Tools, r.place \in DOMAIN Chain[r.tool]
  PROVE  Candid(Entered(r), now)
<1> DEFINE n == Entered(r)
<1>1. /\ n.at = "asked" /\ n.started = now /\ n.round = 1 /\ n.silent = r.silent
      /\ n.outcomes = r.outcomes /\ n.tool = r.tool /\ n.place = r.place /\ n.items = {}
  BY DEF Entered, IsCall, Fields
<1> HIDE DEF n
<1>2. DOMAIN Subreddits = 1 .. Len(Subreddits) /\ now <= now
  BY ConstantsAreRight DEF ConstantsAreRight, Times
<1>3. Posted(n)
  BY <1>1, <1>2 DEF Posted
<1>4. Candid(n, now)
  BY <1>1, <1>2, <1>3 DEF Candid, Heard, Placed, Served
<1> QED
  BY <1>4 DEF n

LEMMA MovesOn ==
  ASSUME NEW r, Candid(r, now), r.at # "done", now \in Times, NEW n, IsCall(n), Tracks(n, r),
         NEW outcome, n.silent = r.silent \/ outcome \in {"unavailable", "failed"}
  PROVE  Candid(NextVendor(n, outcome), now)
<1> DEFINE met == [n EXCEPT !.outcomes = @ \cup {outcome}]
           on == [met EXCEPT !.place = @ + 1]
           answer == Verdict(n.tool, met.outcomes)
<1>1. /\ IsCall(met) /\ met.outcomes = n.outcomes \cup {outcome} /\ met.silent = n.silent
      /\ met.tool = n.tool /\ met.place = n.place
  BY DEF IsCall, Fields
<1>2. Heard(met)
  BY <1>1 DEF Candid, Heard, Tracks
<1>3. NextVendor(n, outcome) = IF n.place < Len(Chain[n.tool]) THEN Entered(on)
                               ELSE Done(met, answer)
  BY DEF NextVendor
<1>4. /\ IsCall(on) /\ on.outcomes = met.outcomes /\ on.silent = met.silent
      /\ on.tool = n.tool /\ on.place = n.place + 1
  BY <1>1 DEF IsCall, Fields
<1>5. n.tool \in Tools /\ n.place \in DOMAIN Chain[n.tool]
  BY DEF Candid, Placed, Tracks
<1> HIDE DEF met, on
<1>6. CASE n.place < Len(Chain[n.tool])
  <2>1. n.place + 1 \in DOMAIN Chain[n.tool]
    BY <1>5, <1>6, ChainsAreRight DEF ChainsAreRight
  <2>2. Heard(on)
    BY <1>2, <1>4 DEF Heard
  <2> QED
    BY <1>3, <1>4, <1>5, <1>6, <2>1, <2>2, EnteredIsCandid
<1>7. CASE ~(n.place < Len(Chain[n.tool]))
  <2>1. answer # "nothing"
    BY DEF Verdict
  <2>2. answer = "no_data" => met.silent = {}
    BY <1>2 DEF Heard, Verdict
  <2> DEFINE d == Done(met, answer)
  <2>3. d.at = "done" /\ d.answer \in {answer, "withheld"} /\ d.silent = met.silent
    BY <1>1, DoneFields DEF Said
  <2> HIDE DEF d, answer
  <2>4. Candid(d, now)
    BY <2>1, <2>2, <2>3 DEF Candid, Absent
  <2> QED
    BY <1>3, <1>7, <2>4 DEF d, answer
<1> QED
  BY <1>6, <1>7

(* Without an answer it moves on, whatever it notes. *)
LEMMA NotesAndMovesOn ==
  ASSUME NEW r, IsCall(r), Candid(r, now), r.at # "done", now \in Times, NEW outcome
  PROVE  /\ Candid(NextVendor(r, outcome), now)
         /\ \A status : Candid(NextVendor(Attempt(r, status), outcome), now)
         /\ Candid(Unanswered(r), now)
         /\ Candid(NextVendor(Unheard(Missed(r)), "failed"), now)
         /\ Candid(NextVendor(Unheard(r), "unavailable"), now)
         /\ Candid(Garbled(r), now)
<1>1. Tracks(r, r)
  BY DEF Tracks
<1>2. \A status : IsCall(Attempt(r, status)) /\ Echoes(Attempt(r, status), r)
  BY NotesEcho
<1>3. IsCall(Missed(r)) /\ Echoes(Missed(r), r)
  BY MissedEchoes
<1>4. /\ IsCall(Unheard(Missed(r))) /\ Tracks(Unheard(Missed(r)), r)
      /\ IsCall(Unheard(r)) /\ Tracks(Unheard(r), r)
      /\ IsCall(Unheard(Attempt(r, "available"))) /\ Tracks(Unheard(Attempt(r, "available")), r)
  BY <1>2, <1>3, UnheardTracks DEF Echoes, Tracks
<1>5. Candid(NextVendor(r, outcome), now)
  BY <1>1, MovesOn
<1>6. \A status : Candid(NextVendor(Attempt(r, status), outcome), now)
  BY <1>2, MovesOn DEF Echoes
<1>7. Candid(Unanswered(r), now) /\ Candid(NextVendor(Unheard(Missed(r)), "failed"), now)
      /\ Candid(NextVendor(Unheard(r), "unavailable"), now) /\ Candid(Garbled(r), now)
  BY <1>4, MovesOn DEF Unanswered, Garbled
<1> QED
  BY <1>5, <1>6, <1>7

(* A step on the way that leaves what it has met, but serves no feed. *)
LEMMA StaysCandid ==
  ASSUME NEW r, Candid(r, now), r.at # "done", NEW n, Tracks(n, r), n.silent = r.silent,
         n.found = r.found, n.at \notin {"done", "select", "rss", "asked"},
         n.tool = "news" => r.at # "select" /\ n.items = r.items
  PROVE  Candid(n, now)
  BY DEF Candid, Heard, Placed, Posted, Served, Tracks, Excused, Start

(* What is known of a call on its way. *)
LEMMA CandidOnItsWay ==
  ASSUME IInv, AInv, NEW c \in Calls, call[c].at # "done"
  PROVE  LET r == call[c] IN
         /\ IsCall(r) /\ Candid(r, now) /\ Placed(r) /\ Heard(r) /\ now \in Times
         /\ r.started \in Times /\ r.started <= now /\ r.date \in Int /\ r.items \subseteq Published
<1>1. Open(call[c], now) /\ now \in Times /\ Candid(call[c], now)
  BY OnItsWay DEF AInv
<1> QED
  BY <1>1, DaysAreNumbers DEF Candid, Open, Dated, ItemsAreOut

LEMMA BecomesCandid ==
  ASSUME IInv, AInv, NEW c \in Calls, NEW r, Candid(r, now), Becomes(c, r)
  PROVE  AInv'
<1>1. \A e \in Calls : call'[e] = IF e = c THEN r ELSE call[e]
  BY DEF Becomes, IInv
<1>2. now' = now
  BY DEF Becomes
<1> QED
  BY <1>1, <1>2 DEF AInv

LEMMA EchoIsCandid ==
  ASSUME NEW r, Candid(r, now), r.at # "done", NEW n, Echoes(n, r)
  PROVE  Candid(n, now)
<1>1. \A t : ServableAt(n, t) = ServableAt(r, t)
  BY DEF Echoes, Tracks, ServableAt
<1>2. Heard(n) /\ Placed(n) /\ n.started <= now /\ n.at # "done"
  BY DEF Candid, Heard, Placed, Echoes, Tracks
<1>3. Posted(n)
  BY DEF Candid, Posted, Echoes, Tracks, Excused, Start
<1>4. Served(n, now)
  BY <1>1 DEF Candid, Served, Echoes, Tracks
<1> QED
  BY <1>2, <1>3, <1>4 DEF Candid

-----------------------------------------------------------------------------
(* The actions of the request, the file, and the answer.                   *)

LEMMA NotesAreCalls ==
  /\ \A r, note : IsCall(r) => IsCall(Attempt(r, note)) /\ IsCall(Observed(r, note))
  /\ \A r, rows : IsCall(r) => IsCall(Reported(r, rows))
  BY NotesEcho, ReportedEchoes

LEMMA InitIsCandid == Init => AInv
<1> SUFFICES ASSUME Init, NEW c \in Calls PROVE Candid(call[c], now)
  BY DEF AInv
<1>1. PICK plan \in Plans : call = [e \in Calls |-> NewCall(plan[e])]
  BY DEF Init
<1> DEFINE q == plan[c]
           r == NewCall(q)
<1>2. q.tool \in Tools
  BY ConstantsAreRight DEF ConstantsAreRight, RequestSet
<1>3. call[c] = r /\ now = 0
  BY <1>1 DEF Init
<1>4. /\ r.at = "idle" /\ r.tool = q.tool /\ r.place = 1 /\ r.round = 1 /\ r.started = 0
      /\ r.silent = {} /\ r.outcomes = {} /\ r.found = {} /\ r.items = {}
  BY DEF NewCall
<1> HIDE DEF r, q
<1>5. 1 \in DOMAIN Chain[r.tool]
  BY <1>2, <1>4, ChainsAreRight DEF ChainsAreRight
<1>6. Placed(r) /\ Heard(r) /\ Served(r, now)
  BY <1>2, <1>4, <1>5 DEF Placed, Heard, Served
<1>7. Posted(r)
  BY <1>4, ConstantsAreRight DEF Posted, ConstantsAreRight
<1> QED
  BY <1>3, <1>4, <1>6, <1>7 DEF Candid

LEMMA AskIsCandid == ASSUME IInv, AInv, NEW c \in Calls, Ask(c) PROVE AInv'
<1>1. call[c].at # "done" /\ Becomes(c, Entered(call[c]))
  BY DEF Ask
<1> QED
  BY <1>1, CandidOnItsWay, EnteredIsCandid, BecomesCandid DEF Placed

LEMMA EnterIsCandid == ASSUME IInv, AInv, NEW c \in Calls, Enter(c) PROVE AInv'
<1> DEFINE r == call[c]
           n == [r EXCEPT !.at = "fetch", !.started = now]
           w == Attempt(Observed(r, "withheld"), "withheld")
<1>1. r.at = "asked"
  BY DEF Enter
<1>2. IsCall(r) /\ Candid(r, now) /\ Placed(r) /\ Heard(r) /\ now \in Times
  BY <1>1, CandidOnItsWay
<1>3. \/ Becomes(c, NextVendor(Attempt(r, "empty"), "empty"))
      \/ Becomes(c, Done(w, "withheld"))
      \/ Becomes(c, n)
  BY DEF Enter
<1> HIDE DEF r
<1>4. CASE Becomes(c, NextVendor(Attempt(r, "empty"), "empty"))
  BY <1>1, <1>2, <1>4, NotesAndMovesOn, BecomesCandid
<1>5. CASE Becomes(c, Done(w, "withheld"))
  BY <1>2, <1>5, NotesAreCalls, TellsOfNone, BecomesCandid
<1>6. CASE Becomes(c, n)
  <2>1. /\ n.at = "fetch" /\ n.started = now /\ n.tool = r.tool /\ n.place = r.place
        /\ n.round = r.round /\ n.outcomes = r.outcomes /\ n.silent = r.silent
        /\ n.items = r.items
    BY <1>2 DEF IsCall, Fields
  <2> HIDE DEF n
  <2>2. DOMAIN Subreddits = 1 .. Len(Subreddits) /\ now <= now
    BY <1>2, ConstantsAreRight DEF ConstantsAreRight, Times
  <2>3. n.round = 1
    BY <1>1, <1>2, <2>1 DEF Placed
  <2>4. Posted(n)
    BY <2>2, <2>3 DEF Posted
  <2>5. Candid(n, now)
    BY <1>1, <1>2, <2>1, <2>2, <2>4 DEF Candid, Heard, Placed, Served
  <2> QED
    BY <1>6, <2>5, BecomesCandid
<1> QED
  BY <1>3, <1>4, <1>5, <1>6

LEMMA UnsupportedIsCandid == ASSUME IInv, AInv, NEW c \in Calls, Unsupported(c) PROVE AInv'
<1>1. call[c].at # "done" /\ Becomes(c, NextVendor(Attempt(call[c], "unavailable"), "failed"))
  BY DEF Unsupported
<1> QED
  BY <1>1, CandidOnItsWay, NotesAndMovesOn, BecomesCandid

(* The file is read, or not, and looked at. *)
LEMMA FileStaysCandid ==
  ASSUME NEW r, IsCall(r), Candid(r, now), r.at \notin {"done", "select"}, NEW held, NEW table,
         NEW at, at \notin {"done", "select", "rss", "asked"}
  PROVE  /\ Candid([r EXCEPT !.held = held, !.at = at], now)
         /\ Candid([r EXCEPT !.at = at, !.table = table, !.held = held], now)
         /\ Candid([r EXCEPT !.at = at, !.held = held], now)
         /\ Candid([r EXCEPT !.at = at], now)
<1> DEFINE Stays(n) == Tracks(n, r) /\ n.silent = r.silent /\ n.found = r.found /\ n.items = r.items
                     /\ n.at = at
<1>1. Stays([r EXCEPT !.held = held, !.at = at])
  BY DEF IsCall, Fields, Tracks
<1>2. Stays([r EXCEPT !.at = at, !.table = table, !.held = held])
  BY DEF IsCall, Fields, Tracks
<1>3. Stays([r EXCEPT !.at = at, !.held = held])
  BY DEF IsCall, Fields, Tracks
<1>4. Stays([r EXCEPT !.at = at])
  BY DEF IsCall, Fields, Tracks
<1>5. \A n : Stays(n) => Candid(n, now)
  BY StaysCandid
<1> HIDE DEF Stays
<1> QED
  BY <1>1, <1>2, <1>3, <1>4, <1>5

LEMMA ReadFileIsCandid == ASSUME IInv, AInv, NEW c \in Calls, ReadFile(c) PROVE AInv'
<1> DEFINE r == call[c]
<1>1. IsCall(r) /\ Candid(r, now) /\ r.at \notin {"done", "select"}
  BY CandidOnItsWay DEF ReadFile
<1>2. PICK held : Becomes(c, [r EXCEPT !.held = held,
                                       !.at = IF held = None THEN "fetch" ELSE "read"])
  BY DEF ReadFile
<1> QED
  BY <1>1, <1>2, FileStaysCandid, BecomesCandid

LEMMA JudgeFileIsCandid == ASSUME IInv, AInv, NEW c \in Calls, JudgeFile(c) PROVE AInv'
<1> DEFINE r == call[c]
<1>1. IsCall(r) /\ Candid(r, now) /\ r.at \notin {"done", "select"}
  BY CandidOnItsWay DEF JudgeFile
<1>2. \/ Becomes(c, [r EXCEPT !.at = "serve", !.table = r.held, !.held = None])
      \/ Becomes(c, [r EXCEPT !.at = "fetch", !.held = None])
  BY DEF JudgeFile
<1> HIDE DEF r
<1> QED
  BY <1>1, <1>2, FileStaysCandid, BecomesCandid

LEMMA DayByDayIsCandid ==
  ASSUME NEW r, IsCall(r), Candid(r, now), r.at # "done", now \in Times
  PROVE  Candid(DayByDay(r), now)
<1> DEFINE e == Entered(r)
           b == [e EXCEPT !.again = TRUE]
<1>1. Candid(e, now)
  BY EnteredIsCandid DEF Candid, Placed
<1>2. IsCall(e) /\ e.at = "asked"
  BY DEF Entered, IsCall, Fields
<1> HIDE DEF e
<1>3. Echoes(b, e)
  BY <1>2 DEF IsCall, Fields, Echoes, Tracks
<1> HIDE DEF b
<1>4. Candid(b, now)
  BY <1>1, <1>2, <1>3, EchoIsCandid
<1>5. Candid(NextVendor(r, "empty"), now)
  BY NotesAndMovesOn
<1> QED
  BY <1>4, <1>5 DEF DayByDay, b, e

LEMMA WriteFileIsCandid == ASSUME IInv, AInv, NEW c \in Calls, WriteFile(c) PROVE AInv'
<1> DEFINE r == call[c]
<1>1. IsCall(r) /\ Candid(r, now) /\ r.at \notin {"done", "select"} /\ now \in Times
  BY CandidOnItsWay DEF WriteFile
<1>2. \/ call' = [call EXCEPT ![c].at = "serve"] /\ UNCHANGED now
      \/ Becomes(c, [r EXCEPT !.at = "serve"])
      \/ Becomes(c, DayByDay(r))
      \/ Becomes(c, NextVendor(r, "failed"))
  BY DEF WriteFile
<1>3. CASE call' = [call EXCEPT ![c].at = "serve"] /\ UNCHANGED now
  <2>1. \A e \in Calls : call'[e] = IF e = c THEN [r EXCEPT !.at = "serve"] ELSE call[e]
    BY <1>3 DEF IInv
  <2>2. Candid([r EXCEPT !.at = "serve"], now)
    BY <1>1, FileStaysCandid
  <2> QED
    BY <1>3, <2>1, <2>2 DEF AInv
<1>4. CASE Becomes(c, [r EXCEPT !.at = "serve"])
  BY <1>1, <1>4, FileStaysCandid, BecomesCandid
<1>5. CASE Becomes(c, DayByDay(r)) \/ Becomes(c, NextVendor(r, "failed"))
  BY <1>1, <1>5, DayByDayIsCandid, NotesAndMovesOn, BecomesCandid
<1> QED
  BY <1>2, <1>3, <1>4, <1>5

LEMMA ServeIsCandid == ASSUME IInv, AInv, NEW c \in Calls, Serve(c) PROVE AInv'
<1> DEFINE r == call[c]
           kept == InRange(IF r.tool = "indicators" THEN r.table.priced ELSE r.table.rows, r)
           o == Observed(r, "usable")
           k == [o EXCEPT !.rows = kept]
           n == [k EXCEPT !.at = "assess"]
<1>1. IsCall(r) /\ Candid(r, now) /\ r.at \notin {"done", "select"} /\ now \in Times
  BY CandidOnItsWay DEF Serve
<1>2. \/ Becomes(c, NextVendor(Unheard(r), "unavailable"))
      \/ Becomes(c, NextVendor(r, "empty")) \/ Becomes(c, Done(k, "rows")) \/ Becomes(c, n)
  BY DEF Serve
<1> HIDE DEF r, kept
<1>3. IsCall(o) /\ Echoes(o, r)
  BY <1>1, NotesEcho
<1> HIDE DEF o
<1>4. IsCall(k) /\ Echoes(k, o)
  BY <1>3 DEF IsCall, Fields, Echoes, Tracks
<1> HIDE DEF k
<1>5. Tracks(n, k) /\ n.silent = k.silent /\ n.found = k.found /\ n.items = k.items
      /\ n.at = "assess"
  BY <1>4 DEF IsCall, Fields, Tracks
<1> HIDE DEF n
<1>6. Candid(n, now)
  BY <1>1, <1>3, <1>4, <1>5, StaysCandid DEF Echoes, Tracks
<1>7. /\ Candid(NextVendor(Unheard(r), "unavailable"), now)
      /\ Candid(NextVendor(r, "empty"), now) /\ Candid(Done(k, "rows"), now)
  BY <1>1, <1>4, NotesAndMovesOn, TellsOfNone
<1> QED
  BY <1>2, <1>6, <1>7, BecomesCandid DEF r

LEMMA AssessIsCandid ==
  ASSUME IInv, AInv, NEW c \in Calls, Assess(c) \/ Calculate(c)
  PROVE  AInv'
<1> DEFINE r == call[c]
           u == [r EXCEPT !.used = Calculable(r), !.made = r.table.made]
<1>1. IsCall(r) /\ Candid(r, now) /\ r.at # "done" /\ now \in Times
  BY CandidOnItsWay DEF Assess, Calculate
<1>2. \/ Becomes(c, Done(u, "rows"))
      \/ Becomes(c, Done(r, "rows"))
      \/ Becomes(c, DayByDay(r))
  BY DEF Assess, Calculate
<1>3. IsCall(u)
  BY <1>1 DEF IsCall, Fields
<1> HIDE DEF u
<1> QED
  BY <1>1, <1>2, <1>3, TellsOfNone, DayByDayIsCandid, BecomesCandid

-----------------------------------------------------------------------------
(* Yahoo and the Chinese price services.                                   *)

LEMMA ReceivedIsCandid ==
  ASSUME NEW r, IsCall(r), Candid(r, now), r.at \notin {"done", "select"},
         NEW start, NEW end, NEW s \in Received(r, start, end)
  PROVE  IsCall(s) /\ Candid(s, now) /\ s.at \in {"write", "serve"}
<1> DEFINE n == Attempt(r, "available")
<1>1. PICK t \in Answers(start, end) :
        s = [n EXCEPT !.at = IF UsesFile(r) THEN "write" ELSE "serve", !.table = t]
  BY DEF Received
<1>2. IsCall(n) /\ Echoes(n, r)
  BY NotesEcho
<1> HIDE DEF n
<1>3. /\ IsCall(s) /\ Tracks(s, n) /\ s.silent = n.silent /\ s.found = n.found
      /\ s.items = n.items /\ s.at \in {"write", "serve"}
  BY <1>1, <1>2 DEF IsCall, Fields, Tracks
<1>4. Candid(s, now)
  BY <1>2, <1>3, StaysCandid DEF Echoes, Tracks
<1> QED
  BY <1>3, <1>4

(* An attempt was noted, and the call goes on from where it says. *)
LEMMA NotedStaysCandid ==
  ASSUME NEW r, IsCall(r), Candid(r, now), r.at \notin {"done", "select"}, NEW status,
         NEW at, at \notin {"done", "select", "rss", "asked"}
  PROVE  /\ Candid([Attempt(r, status) EXCEPT !.at = at], now)
         /\ Candid([Missed(r) EXCEPT !.at = at], now)
<1> DEFINE a == Attempt(r, status)
           m == Missed(r)
<1>1. IsCall(a) /\ Echoes(a, r) /\ IsCall(m) /\ Echoes(m, r)
  BY NotesEcho, MissedEchoes
<1>2. a.at # "done" /\ a.at # "select" /\ m.at # "done" /\ m.at # "select"
  BY <1>1 DEF Echoes
<1> HIDE DEF a, m
<1>3. Candid(a, now) /\ Candid(m, now)
  BY <1>1, EchoIsCandid
<1>4. Candid([a EXCEPT !.at = at], now) /\ Candid([m EXCEPT !.at = at], now)
  BY <1>1, <1>2, <1>3, FileStaysCandid
<1> QED
  BY <1>4 DEF a, m

LEMMA YahooRefusesIsCandid == ASSUME IInv, AInv, NEW c \in Calls, YahooRefuses(c) PROVE AInv'
<1> DEFINE r == call[c]
           m == Missed(r)
           n == [m EXCEPT !.tries = @ + 1]
<1>1. IsCall(r) /\ Candid(r, now) /\ r.at # "done" /\ now \in Times
  BY CandidOnItsWay DEF YahooRefuses, Fetching
<1>2. Becomes(c, n) \/ Becomes(c, Unanswered(r))
  BY DEF YahooRefuses
<1> HIDE DEF r
<1>3. IsCall(m) /\ Echoes(m, r)
  BY <1>1, MissedEchoes
<1> HIDE DEF m
<1>4. Echoes(n, m)
  BY <1>3 DEF IsCall, Fields, Echoes, Tracks
<1> HIDE DEF n
<1>5. Candid(n, now)
  BY <1>1, <1>3, <1>4, EchoIsCandid DEF Echoes
<1> QED
  BY <1>1, <1>2, <1>5, NotesAndMovesOn, BecomesCandid

(* Of the feeds Yahoo has the news only. *)
LEMMA RoutedElsewhere ==
  ASSUME NEW r, Placed(r)
  PROVE  /\ r.tool = "talk" => Vendor(r) = "stocktwits"
         /\ r.tool = "posts" => Vendor(r) = "reddit"
         /\ r.tool = "mood" => Vendor(r) = "sentiment"
         /\ r.tool \notin {"talk", "posts", "mood"} =>
              Vendor(r) \in {"yfinance", "alpha_vantage", "akshare", "eastmoney"}
<1>1. r.tool \in Tools /\ r.place \in DOMAIN Chain[r.tool]
  BY DEF Placed
<1>2. ASSUME NEW v, Chain[r.tool] = <<v>> PROVE Vendor(r) = v
  BY <1>1, <1>2 DEF Vendor
<1>3. r.tool \in Tools \ {"talk", "posts", "mood"} =>
        Chain[r.tool][r.place] \in {"yfinance", "alpha_vantage", "akshare", "eastmoney"}
  BY <1>1, ChainsAreRight DEF ChainsAreRight
<1> QED
  BY <1>1, <1>2, <1>3, ChainsAreRight DEF ChainsAreRight, Vendor

LEMMA YahooIsEmptyIsCandid == ASSUME IInv, AInv, NEW c \in Calls, YahooIsEmpty(c) PROVE AInv'
<1> DEFINE r == call[c]
           a == Attempt(r, "empty")
           n == [a EXCEPT !.at = "select"]
<1>1. r.at = "fetch" /\ Vendor(r) = "yfinance"
  BY DEF YahooIsEmpty, Fetching
<1>2. IsCall(r) /\ Candid(r, now) /\ Placed(r)
  BY <1>1, CandidOnItsWay
<1>3. Becomes(c, [a EXCEPT !.at = "probe"]) \/ Becomes(c, n)
  BY DEF YahooIsEmpty
<1>4. CASE Becomes(c, [a EXCEPT !.at = "probe"])
  BY <1>1, <1>2, <1>4, NotedStaysCandid, BecomesCandid
<1>5. CASE Becomes(c, n)
  <2>1. IsCall(a) /\ Echoes(a, r)
    BY <1>2, NotesEcho
  <2> HIDE DEF a, r
  <2>2. /\ Tracks(n, a) /\ n.silent = a.silent /\ n.found = a.found /\ n.items = a.items
        /\ n.at = "select"
    BY <2>1 DEF IsCall, Fields, Tracks
  <2> HIDE DEF n
  <2>3. /\ Tracks(n, r) /\ n.silent = r.silent /\ n.found = r.found /\ n.items = r.items
    BY <2>1, <2>2 DEF Echoes, Tracks
  <2>4. n.tool \notin {"talk", "posts"}
    BY <1>1, <1>2, <2>3, RoutedElsewhere DEF Tracks
  <2>5. Served(n, now)
    BY <1>1, <1>2, <2>3, <2>4 DEF Candid, Served, Tracks
  <2>6. Heard(n) /\ Placed(n) /\ n.started <= now /\ Posted(n)
    BY <1>1, <1>2, <2>2, <2>3, <2>4 DEF Candid, Heard, Placed, Posted, Tracks
  <2>7. Candid(n, now)
    BY <2>2, <2>5, <2>6 DEF Candid
  <2> QED
    BY <1>5, <2>7, BecomesCandid DEF r
<1> QED
  BY <1>3, <1>4, <1>5

LEMMA YahooReportsAreCandid ==
  ASSUME IInv, AInv, NEW c \in Calls,
         YahooPrices(c) \/ YahooProfile(c) \/ YahooStatement(c) \/ YahooInsiders(c)
  PROVE  AInv'
<1> DEFINE r == call[c]
<1>1. r.at = "fetch"
  BY DEF YahooPrices, YahooProfile, YahooStatement, YahooInsiders, Fetching
<1> DEFINE a == Attempt(r, "available")
           n == [a EXCEPT !.at = "write", !.table = Dateless(Start(r), r.date)]
<1>2. IsCall(r) /\ Candid(r, now) /\ now \in Times
  BY <1>1, CandidOnItsWay
<1>3. \/ \E s \in Received(r, Start(r), r.date) : Becomes(c, s)
      \/ Becomes(c, n)
      \/ Becomes(c, Garbled(r))
      \/ Becomes(c, [Attempt(r, "available") EXCEPT !.at = "probe"])
      \/ Becomes(c, Done(Reported(r, Present(r)), "rows"))
  BY DEF YahooPrices, YahooProfile, YahooStatement, YahooInsiders
<1> HIDE DEF r
<1>4. Candid([Attempt(r, "available") EXCEPT !.at = "probe"], now)
  BY <1>1, <1>2, NotedStaysCandid
<1>5. Candid(Done(Reported(r, Present(r)), "rows"), now)
  BY <1>2, NotesAreCalls, TellsOfNone
<1>6. \A s \in Received(r, Start(r), r.date) : Candid(s, now)
  BY <1>1, <1>2, ReceivedIsCandid
<1>7. Candid(n, now)
  <2>1. IsCall(a) /\ Echoes(a, r)
    BY <1>2, NotesEcho
  <2> HIDE DEF a
  <2>2. Tracks(n, a) /\ n.silent = a.silent /\ n.found = a.found /\ n.items = a.items
        /\ n.at = "write"
    BY <2>1 DEF IsCall, Fields, Tracks
  <2> HIDE DEF n
  <2> QED
    BY <1>1, <1>2, <2>1, <2>2, StaysCandid DEF Echoes, Tracks
<1>8. Candid(Garbled(r), now)
  BY <1>1, <1>2, NotesAndMovesOn
<1> HIDE DEF n
<1> QED
  BY <1>3, <1>4, <1>5, <1>6, <1>7, <1>8, BecomesCandid

LEMMA ProbeIsCandid == ASSUME IInv, AInv, NEW c \in Calls, Probe(c) PROVE AInv'
<1> DEFINE r == call[c]
<1>1. IsCall(r) /\ Candid(r, now) /\ r.at # "done" /\ now \in Times
  BY CandidOnItsWay DEF Probe
<1>2. \/ r.tool = "insiders" /\ Becomes(c, Done(r, "nothing"))
      \/ Becomes(c, NextVendor(r, "empty"))
      \/ Becomes(c, NextVendor(Unheard(r), "unavailable"))
  BY DEF Probe
<1> HIDE DEF r
<1>3. CASE r.tool = "insiders" /\ Becomes(c, Done(r, "nothing"))
  <2>1. r.tool \notin FeedTools
    BY <1>3 DEF FeedTools
  <2> QED
    BY <1>1, <1>3, <2>1, TellsOfNothing, BecomesCandid
<1> QED
  BY <1>1, <1>2, <1>3, NotesAndMovesOn, BecomesCandid

LEMMA WholeIsCandid ==
  ASSUME NEW r, IsCall(r), Candid(r, now), r.at \notin {"done", "select"}, NEW s \in Whole(r)
  PROVE  Candid(s, now)
<1>1. PICK e \in Received(r, Start(r), r.date + 1) : s = Observed(e, "usable")
  BY DEF Whole
<1>2. IsCall(e) /\ Candid(e, now) /\ e.at # "done"
  BY ReceivedIsCandid
<1> QED
  BY <1>1, <1>2, NotesEcho, EchoIsCandid

LEMMA ChineseAreCandid ==
  ASSUME IInv, AInv, NEW c \in Calls, Tencent(c) \/ Eastmoney(c)
  PROVE  AInv'
<1> DEFINE r == call[c]
<1>1. r.at \notin {"done", "select"}
  BY DEF Tencent, Eastmoney
<1>2. IsCall(r) /\ Candid(r, now) /\ now \in Times
  BY <1>1, CandidOnItsWay
<1>3. \/ \E s \in Whole(r) : Becomes(c, s)
      \/ Becomes(c, [Attempt(r, "empty") EXCEPT !.at = "eastmoney"])
      \/ Becomes(c, [Missed(r) EXCEPT !.at = "eastmoney"])
      \/ Becomes(c, [r EXCEPT !.at = "curl"])
      \/ Becomes(c, NextVendor(Attempt(r, "empty"), "empty"))
      \/ Becomes(c, Unanswered(r))
  BY DEF Tencent, Eastmoney
<1> HIDE DEF r
<1>4. /\ Candid([Attempt(r, "empty") EXCEPT !.at = "eastmoney"], now)
      /\ Candid([Missed(r) EXCEPT !.at = "eastmoney"], now)
      /\ Candid([r EXCEPT !.at = "curl"], now)
  BY <1>1, <1>2, NotedStaysCandid, FileStaysCandid
<1>5. Candid(NextVendor(Attempt(r, "empty"), "empty"), now) /\ Candid(Unanswered(r), now)
  BY <1>1, <1>2, NotesAndMovesOn
<1>6. \A s \in Whole(r) : Candid(s, now)
  BY <1>1, <1>2, WholeIsCandid
<1> QED
  BY <1>3, <1>4, <1>5, <1>6, BecomesCandid

-----------------------------------------------------------------------------
(* Feeds: what was served, and what is said when none of it belongs.       *)

LEMMA ServedIsCandid ==
  ASSUME NEW r, IsCall(r), Candid(r, now), r.at \in {"fetch", "rss"}, now \in Times,
         NEW a, IsCall(a), Echoes(a, r)
  PROVE  Candid([a EXCEPT !.at = "select", !.items = Feed(r)], now)
<1> DEFINE n == [a EXCEPT !.at = "select", !.items = Feed(r)]
<1>1. Tracks(n, r) /\ n.silent = r.silent /\ n.found = r.found /\ n.at = "select"
      /\ n.items = Feed(r)
  BY DEF IsCall, Fields, Echoes, Tracks
<1> HIDE DEF n
<1>2. Feed(r) = Newest(ServableAt(r, now)) /\ ServableAt(r, now) = ServableAt(n, now)
  BY <1>1 DEF Feed, ServableAt, Tracks
<1>3. now <= now
  BY DEF Times
<1>4. Served(n, now)
  BY <1>1, <1>2, <1>3 DEF Candid, Served, Tracks
<1>5. Heard(n) /\ Placed(n) /\ n.started <= now
  BY <1>1 DEF Candid, Heard, Placed, Tracks
<1>6. Posted(n)
  BY <1>1 DEF Candid, Posted, Tracks, Excused, Start
<1>7. Candid(n, now)
  BY <1>1, <1>4, <1>5, <1>6 DEF Candid
<1> QED
  BY <1>7 DEF n

LEMMA YahooNewsIsCandid == ASSUME IInv, AInv, NEW c \in Calls, YahooNews(c) PROVE AInv'
<1> DEFINE r == call[c]
           a == Attempt(r, "available")
<1>1. r.at = "fetch" /\ Becomes(c, [a EXCEPT !.at = "select", !.items = Feed(r)])
  BY DEF YahooNews, Fetching
<1>2. IsCall(r) /\ Candid(r, now) /\ now \in Times
  BY <1>1, CandidOnItsWay
<1>3. IsCall(a) /\ Echoes(a, r)
  BY <1>2, NotesEcho
<1> HIDE DEF a, r
<1>4. Candid([a EXCEPT !.at = "select", !.items = Feed(r)], now)
  BY <1>1, <1>2, <1>3, ServedIsCandid
<1> QED
  BY <1>1, <1>4, BecomesCandid

(* A window without a gap that is judged by the present alone is of one    *)
(* day, and that is today.                                                 *)
LEMMA SeenAtOnce ==
  ASSUME NEW r, now \in Times, r.tool \in FeedTools, r.date \in Int, r.started \in Times,
         r.started <= now, Reach(r) = now, ~CoverageGap(r), NEW p \in Published
  PROVE  Excused(p, r)
<1>1. SUFFICES ASSUME p <= r.started, InWindow(p, Start(r), r.date)
               PROVE  UtcDay[p] = Start(r) /\ (r.tool = "posts" \/ FeedDays = 0)
  BY DEF Excused
<1>2. /\ p \in DOMAIN UtcDay /\ p \in Int /\ now \in DOMAIN UtcDay /\ now \in Int
      /\ r.started \in Int /\ UtcDay[p] \in Int /\ UtcDay[now] \in Int /\ FeedDays \in Nat
  BY Moments
<1>3. p <= now
  BY <1>1, <1>2
<1>4. UtcDay[p] <= UtcDay[now]
  BY <1>2, <1>3, Moments
<1>5. ~(r.date > UtcDay[now]) /\ ~(UtcDay[now] > Start(r)) /\ Start(r) <= UtcDay[p]
  BY <1>1 DEF CoverageGap, InWindow
<1>6. Start(r) = r.date - FeedDays
  BY DEF Start
<1> QED
  BY <1>2, <1>4, <1>5, <1>6

LEMMA SameCoverage ==
  ASSUME NEW r, NEW n, n.tool = r.tool, n.items = r.items, n.date = r.date
  PROVE  CoverageGap(n) <=> CoverageGap(r)
<1>1. Reach(n) = Reach(r) /\ Start(n) = Start(r)
  BY DEF Reach, Start
<1> QED
  BY <1>1 DEF CoverageGap

(* What a selection without a gap that kept nothing has seen. *)
LEMMA NoneToSelect ==
  ASSUME NEW r, Candid(r, now), now \in Times, r.at = "select", r.date \in Int,
         r.started \in Times, r.items \subseteq Published,
         r.tool \in {"news", "talk", "posts"}, Selected(r) = {}, ~CoverageGap(r),
         NEW p \in Published \ Undated, r.tool = "posts" => p \in Subreddits[r.round]
  PROVE  Excused(p, r)
<1>1. r.started <= now /\ Served(r, now)
  BY DEF Candid
<1>2. CASE r.tool = "news" /\ r.items = {}
  <2>1. Reach(r) = now /\ r.tool \in FeedTools
    BY <1>2, ReachIsFirst DEF FeedTools
  <2> QED
    BY <1>1, <2>1, SeenAtOnce
<1>3. CASE \E u \in Times : r.started <= u /\ u <= now /\ r.items = Newest(ServableAt(r, u))
  BY <1>3, NothingWasMissed
<1> QED
  BY <1>1, <1>2, <1>3 DEF Served

LEMMA NothingIsCandid ==
  ASSUME NEW r, IsCall(r), r.tool \in FeedTools,
         ~CoverageGap(r) => \A p \in Told(r.tool) : Excused(p, r)
  PROVE  Candid(Nothing(r), now)
<1> DEFINE k == Observed(r, "bare")
           g == Attempt(k, "unavailable")
           e == Attempt(k, "empty")
<1>1. IsCall(g) /\ IsCall(e) /\ Echoes(e, r)
  BY NotesEcho DEF Echoes, Tracks
<1>2. Nothing(r) = IF CoverageGap(r) THEN Done(g, "unavailable") ELSE Done(e, "nothing")
  BY DEF Nothing
<1> HIDE DEF g, e
<1>3. Candid(Done(g, "unavailable"), now)
  BY <1>1, TellsOfNone
<1>4. ASSUME ~CoverageGap(r) PROVE Candid(Done(e, "nothing"), now)
  <2>1. \A p : Excused(p, e) <=> Excused(p, r)
    BY <1>1 DEF Excused, Start, Echoes, Tracks
  <2>2. \A p \in Told(e.tool) : Excused(p, e)
    BY <1>1, <1>4, <2>1 DEF Echoes, Tracks
  <2> QED
    BY <1>1, <2>2, TellsOfNothing
<1> QED
  BY <1>2, <1>3, <1>4

(* The same call with what was found. *)
LEMMA FoundCall ==
  ASSUME NEW r, IsCall(r), NEW S
  PROVE  LET k == [r EXCEPT !.found = S] IN
         /\ IsCall(k) /\ Tracks(k, r) /\ k.found = S /\ k.items = r.items /\ k.silent = r.silent
         /\ k.at = r.at
  BY DEF IsCall, Fields, Tracks

LEMMA SelectNewsIsCandid == ASSUME IInv, AInv, NEW c \in Calls, SelectNews(c) PROVE AInv'
<1> DEFINE r == call[c]
           k == [r EXCEPT !.found = Selected(r)]
<1>1. r.at = "select" /\ r.tool = "news"
  BY DEF SelectNews
<1>2. /\ IsCall(r) /\ Candid(r, now) /\ now \in Times /\ r.started \in Times
      /\ r.date \in Int /\ r.items \subseteq Published
  BY <1>1, CandidOnItsWay
<1>3. Becomes(c, IF k.found # {} THEN Done(Observed(k, "usable"), "rows") ELSE Nothing(k))
  BY DEF SelectNews
<1>4. IsCall(k) /\ Tracks(k, r) /\ k.found = Selected(r) /\ k.items = r.items
  BY <1>2, FoundCall
<1> HIDE DEF k, r
<1>5. Candid(Done(Observed(k, "usable"), "rows"), now)
  BY <1>4, NotesAreCalls, TellsOfNone
<1>6. ASSUME k.found = {} PROVE Candid(Nothing(k), now)
  <2>1. CoverageGap(k) <=> CoverageGap(r)
    BY <1>4, SameCoverage DEF Tracks
  <2>2. ASSUME ~CoverageGap(k), NEW p \in Told(k.tool) PROVE Excused(p, k)
    <3>1. p \in Published \ Undated
      BY <1>1, <1>4 DEF Told, Tracks
    <3>2. Excused(p, r)
      BY <1>1, <1>2, <1>4, <1>6, <2>1, <2>2, <3>1, NoneToSelect
    <3> QED
      BY <1>4, <3>2 DEF Excused, Start, Tracks
  <2> QED
    BY <1>1, <1>4, <2>2, NothingIsCandid DEF FeedTools, Tracks
<1> QED
  BY <1>3, <1>5, <1>6, BecomesCandid

LEMMA SelectWorldIsCandid == ASSUME IInv, AInv, NEW c \in Calls, SelectWorld(c) PROVE AInv'
<1> DEFINE r == call[c]
           found == r.found \cup Selected(r)
           k == [r EXCEPT !.found = found, !.items = {}]
           n == [k EXCEPT !.at = "fetch", !.round = @ + 1, !.tries = 0]
<1>1. r.at = "select" /\ r.tool = "world"
  BY DEF SelectWorld
<1>2. /\ IsCall(r) /\ Candid(r, now) /\ now \in Times /\ r.started \in Times
      /\ r.date \in Int /\ r.started <= now
  BY <1>1, CandidOnItsWay
<1>3. \/ Becomes(c, n)
      \/ Becomes(c, Done(Observed(k, "usable"), "rows"))
      \/ Becomes(c, Nothing(k))
  BY DEF SelectWorld
<1> HIDE DEF found, r
<1>4. IsCall(k) /\ Tracks(k, r) /\ k.items = {} /\ k.silent = r.silent
  BY <1>2 DEF IsCall, Fields, Tracks
<1> HIDE DEF k
<1>5. /\ n.at = "fetch" /\ n.round = k.round + 1 /\ n.tool = k.tool /\ n.place = k.place
      /\ n.started = k.started /\ n.silent = k.silent /\ n.outcomes = k.outcomes
  BY <1>4 DEF IsCall, Fields
<1> HIDE DEF n
<1>6. Candid(n, now)
  BY <1>1, <1>2, <1>4, <1>5 DEF Candid, Heard, Placed, Posted, Served, Tracks
<1>7. Candid(Done(Observed(k, "usable"), "rows"), now)
  BY <1>4, NotesAreCalls, TellsOfNone
<1>8. Candid(Nothing(k), now)
  <2>1. k.tool = "world" /\ k.tool \in FeedTools /\ k.started = r.started /\ k.date = r.date
    BY <1>1, <1>4 DEF Tracks, FeedTools
  <2>2. Reach(k) = now
    BY <1>2, <1>4, <2>1, ReachIsFirst
  <2>3. ~CoverageGap(k) => \A p \in Told(k.tool) : Excused(p, k)
    BY <1>2, <2>1, <2>2, SeenAtOnce DEF Told
  <2> QED
    BY <1>4, <2>1, <2>3, NothingIsCandid
<1> QED
  BY <1>3, <1>6, <1>7, <1>8, BecomesCandid

LEMMA StockTwitsIsCandid == ASSUME IInv, AInv, NEW c \in Calls, StockTwits(c) PROVE AInv'
<1> DEFINE r == call[c]
<1>1. /\ r.at = "fetch"
      /\ \/ Becomes(c, [r EXCEPT !.at = "select", !.items = Feed(r)])
         \/ Becomes(c, Unanswered(r))
  BY DEF StockTwits, Fetching
<1>2. IsCall(r) /\ Candid(r, now) /\ now \in Times
  BY <1>1, CandidOnItsWay
<1> HIDE DEF r
<1>3. Echoes(r, r)
  BY DEF Echoes, Tracks
<1>4. Candid([r EXCEPT !.at = "select", !.items = Feed(r)], now)
  BY <1>1, <1>2, <1>3, ServedIsCandid
<1> QED
  BY <1>1, <1>2, <1>4, NotesAndMovesOn, BecomesCandid

LEMMA SelectTalkIsCandid == ASSUME IInv, AInv, NEW c \in Calls, SelectTalk(c) PROVE AInv'
<1> DEFINE r == call[c]
           k == [r EXCEPT !.found = Selected(r)]
           e == Attempt(k, "empty")
<1>1. r.at = "select" /\ r.tool = "talk"
  BY DEF SelectTalk
<1>2. /\ IsCall(r) /\ Candid(r, now) /\ now \in Times /\ r.started \in Times
      /\ r.date \in Int /\ r.items \subseteq Published
  BY <1>1, CandidOnItsWay
<1>3. \/ Becomes(c, Done(Observed(Attempt(k, "available"), "usable"), "rows"))
      \/ Becomes(c, Done(e, "unavailable"))
      \/ k.found = {} /\ ~CoverageGap(r) /\ Becomes(c, Done(e, "nothing"))
  BY DEF SelectTalk
<1>4. IsCall(k) /\ Tracks(k, r) /\ k.found = Selected(r)
  BY <1>2, FoundCall
<1> HIDE DEF k, r
<1>5. IsCall(e) /\ Tracks(e, r)
  BY <1>4, NotesEcho DEF Echoes, Tracks
<1> HIDE DEF e
<1>6. /\ Candid(Done(Observed(Attempt(k, "available"), "usable"), "rows"), now)
      /\ Candid(Done(e, "unavailable"), now)
  BY <1>4, <1>5, NotesAreCalls, TellsOfNone
<1>7. ASSUME k.found = {}, ~CoverageGap(r) PROVE Candid(Done(e, "nothing"), now)
  <2>1. ASSUME NEW p \in Told(e.tool) PROVE Excused(p, e)
    <3>1. p \in Published \ Undated
      BY <1>1, <1>5 DEF Told, Tracks
    <3>2. Excused(p, r)
      BY <1>1, <1>2, <1>4, <1>7, <3>1, NoneToSelect
    <3> QED
      BY <1>5, <3>2 DEF Excused, Start, Tracks
  <2> QED
    BY <1>5, <2>1, TellsOfNothing
<1> QED
  BY <1>3, <1>6, <1>7, BecomesCandid

-----------------------------------------------------------------------------
(* Reddit: one subreddit after the other.                                  *)

(* A subreddit is over: what it held was found, or is known as missing, or *)
(* there was nothing to miss.                                              *)
LEMMA NextSubredditIsCandid ==
  ASSUME NEW r, IsCall(r), now \in Times, r.tool = "posts", r.at # "done",
         Heard(r), Placed(r), r.started <= now, Posted(r),
         \/ r.found # {} \/ "unavailable" \in r.outcomes
         \/ r.round \in DOMAIN Subreddits =>
              \A p \in Subreddits[r.round] \ Undated : Excused(p, r)
  PROVE  Candid(NextSubreddit(r), now)
<1> DEFINE n == [r EXCEPT !.at = "fetch", !.round = @ + 1, !.items = {}]
<1>1. /\ n.at = "fetch" /\ n.round = r.round + 1 /\ n.tool = r.tool /\ n.place = r.place
      /\ n.started = r.started /\ n.silent = r.silent /\ n.outcomes = r.outcomes
      /\ n.date = r.date /\ n.found = r.found
  BY DEF IsCall, Fields
<1> HIDE DEF n
<1>2. DOMAIN Subreddits = 1 .. Len(Subreddits) /\ Len(Subreddits) \in Nat /\ r.round \in Nat
  BY ConstantsAreRight DEF ConstantsAreRight, Placed
<1>3. \/ r.found # {} \/ "unavailable" \in r.outcomes
      \/ \A s \in DOMAIN Subreddits : s <= r.round =>
            \A p \in Subreddits[s] \ Undated : Excused(p, r)
  <2>1. \A s \in DOMAIN Subreddits : s <= r.round => s < r.round \/ s = r.round
    BY <1>2
  <2> QED
    BY <2>1 DEF Posted
<1>4. Candid(n, now)
  <2>1. \A p : Excused(p, n) <=> Excused(p, r)
    BY <1>1 DEF Excused, Start
  <2>2. \A s \in DOMAIN Subreddits : s < n.round => s <= r.round
    BY <1>1, <1>2
  <2>3. Posted(n)
    BY <1>1, <1>3, <2>1, <2>2 DEF Posted
  <2> QED
    BY <1>1, <1>2, <2>3 DEF Candid, Heard, Placed, Served
<1>5. ASSUME ~(r.round < Len(Subreddits)) PROVE Candid(Done(r, Discussion(r)), now)
  <2>1. CASE r.found # {} \/ "unavailable" \in r.outcomes
    <3>1. Discussion(r) \notin {"nothing", "no_data"}
      BY <2>1 DEF Discussion
    <3> QED
      BY <3>1, TellsOfNone
  <2>2. CASE r.found = {} /\ "unavailable" \notin r.outcomes
    <3>1. Discussion(r) = "nothing"
      BY <2>2 DEF Discussion
    <3>2. \A s \in DOMAIN Subreddits : s <= r.round
      BY <1>2, <1>5
    <3>3. \A p \in Told(r.tool) : Excused(p, r)
      BY <1>3, <2>2, <3>2 DEF Told
    <3> QED
      BY <3>1, <3>3, TellsOfNothing
  <2> QED
    BY <2>1, <2>2
<1> QED
  BY <1>4, <1>5 DEF NextSubreddit, n

LEMMA RedditIsCandid == ASSUME IInv, AInv, NEW c \in Calls, Reddit(c) PROVE AInv'
<1> DEFINE r == call[c]
           m == Missed(r)
           n == [m EXCEPT !.at = "rss"]
           a == Attempt(r, IF Feed(r) = {} THEN "empty" ELSE "available")
<1>1. r.at = "fetch" /\ Vendor(r) = "reddit"
  BY DEF Reddit, Fetching
<1>2. IsCall(r) /\ Candid(r, now) /\ now \in Times /\ Placed(r)
  BY <1>1, CandidOnItsWay
<1>3. Becomes(c, [a EXCEPT !.at = "select", !.items = Feed(r)]) \/ Becomes(c, n)
  BY DEF Reddit, Posts
<1>4. IsCall(a) /\ Echoes(a, r) /\ IsCall(m) /\ Echoes(m, r)
  BY <1>2, NotesEcho, MissedEchoes
<1> HIDE DEF a, m, r
<1>5. Candid([a EXCEPT !.at = "select", !.items = Feed(r)], now)
  BY <1>1, <1>2, <1>4, ServedIsCandid
<1>6. Candid(n, now)
  <2>1. r.tool = "posts"
    BY <1>1, <1>2, RoutedElsewhere
  <2>2. Candid(m, now)
    BY <1>1, <1>2, <1>4, EchoIsCandid
  <2>3. /\ Tracks(n, m) /\ n.silent = m.silent /\ n.found = m.found /\ n.items = m.items
        /\ n.at = "rss" /\ m.at = "fetch" /\ m.tool = "posts"
    BY <1>1, <1>4, <2>1 DEF IsCall, Fields, Echoes, Tracks
  <2> HIDE DEF n
  <2> QED
    BY <2>2, <2>3 DEF Candid, Heard, Placed, Posted, Served, Tracks, Excused, Start
<1> QED
  BY <1>3, <1>5, <1>6, BecomesCandid

(* A word on the subreddit is noted. *)
LEMMA WordEchoes ==
  ASSUME NEW r, IsCall(r), NEW word
  PROVE  LET n == [r EXCEPT !.outcomes = @ \cup {word}] IN
         /\ IsCall(n) /\ n.outcomes = r.outcomes \cup {word} /\ n.at = r.at /\ n.tool = r.tool
         /\ n.place = r.place /\ n.round = r.round /\ n.date = r.date
         /\ n.started = r.started /\ n.silent = r.silent /\ n.found = r.found
  BY DEF IsCall, Fields

LEMMA RedditRssIsCandid == ASSUME IInv, AInv, NEW c \in Calls, RedditRss(c) PROVE AInv'
<1> DEFINE r == call[c]
           u == Unheard(Missed(r))
           n == [u EXCEPT !.outcomes = @ \cup {"unavailable"}]
           a == Attempt(r, IF Feed(r) = {} THEN "empty" ELSE "available")
<1>1. r.at = "rss"
  BY DEF RedditRss
<1>2. IsCall(r) /\ Candid(r, now) /\ now \in Times /\ Placed(r)
  BY <1>1, CandidOnItsWay
<1>3. \/ Becomes(c, [a EXCEPT !.at = "select", !.items = Feed(r)])
      \/ Becomes(c, NextSubreddit(n))
  BY DEF RedditRss, Posts
<1>4. IsCall(a) /\ Echoes(a, r)
  BY <1>2, NotesEcho
<1>5. IsCall(u) /\ Tracks(u, r) /\ u.at = "rss"
  <2>1. IsCall(Missed(r)) /\ Echoes(Missed(r), r)
    BY <1>2, MissedEchoes
  <2>2. IsCall(u) /\ Tracks(u, Missed(r))
    BY <2>1, UnheardTracks
  <2>3. u.at = Missed(r).at
    BY <2>1 DEF Unheard, IsCall, Fields
  <2> QED
    BY <1>1, <2>1, <2>2, <2>3 DEF Echoes, Tracks
<1> HIDE DEF a, u, r
<1>6. Candid([a EXCEPT !.at = "select", !.items = Feed(r)], now)
  BY <1>1, <1>2, <1>4, ServedIsCandid
<1>7. /\ IsCall(n) /\ n.outcomes = r.outcomes \cup {"unavailable"} /\ n.at = "rss"
      /\ n.tool = r.tool /\ n.place = r.place /\ n.round = r.round /\ n.started = r.started
  BY <1>5, WordEchoes DEF Tracks
<1> HIDE DEF n
<1>8. /\ Heard(n) /\ Placed(n) /\ n.started <= now /\ Posted(n) /\ n.tool = "posts"
      /\ "unavailable" \in n.outcomes
  BY <1>1, <1>2, <1>7 DEF Candid, Heard, Placed, Posted
<1>9. Candid(NextSubreddit(n), now)
  BY <1>2, <1>7, <1>8, NextSubredditIsCandid
<1> QED
  BY <1>3, <1>6, <1>9, BecomesCandid

LEMMA SelectPostsIsCandid == ASSUME IInv, AInv, NEW c \in Calls, SelectPosts(c) PROVE AInv'
<1> DEFINE r == call[c]
           kept == Selected(r)
           o == Observed(r, "usable")
           k == [o EXCEPT !.found = @ \cup kept]
           word == IF CoverageGap(r) THEN "unavailable" ELSE "nothing"
           n == [r EXCEPT !.outcomes = @ \cup {word}]
<1>1. r.at = "select" /\ r.tool = "posts"
  BY DEF SelectPosts
<1>2. /\ IsCall(r) /\ Candid(r, now) /\ now \in Times /\ r.started \in Times
      /\ r.date \in Int /\ r.items \subseteq Published /\ r.started <= now
  BY <1>1, CandidOnItsWay
<1>3. Becomes(c, NextSubreddit(IF kept # {} THEN k ELSE n))
  BY DEF SelectPosts
<1>4. IsCall(o) /\ Echoes(o, r)
  BY <1>2, NotesEcho
<1> HIDE DEF o, r
<1>5. ASSUME kept # {} PROVE Candid(NextSubreddit(k), now)
  <2> HIDE DEF kept
  <2>1. /\ IsCall(k) /\ Tracks(k, o) /\ k.found = o.found \cup kept /\ k.silent = o.silent
        /\ k.at = o.at
    BY <1>4, FoundCall
  <2> HIDE DEF k
  <2>2. /\ Heard(k) /\ Placed(k) /\ k.started <= now /\ Posted(k) /\ k.found # {}
        /\ k.tool = "posts" /\ k.at # "done"
    BY <1>1, <1>2, <1>4, <1>5, <2>1 DEF Candid, Heard, Placed, Posted, Echoes, Tracks
  <2> QED
    BY <1>2, <2>1, <2>2, NextSubredditIsCandid
<1>6. ASSUME kept = {} PROVE Candid(NextSubreddit(n), now)
  <2>0. CoverageGap(r) => word = "unavailable"
    OBVIOUS
  <2> HIDE DEF word
  <2>1. /\ IsCall(n) /\ n.outcomes = r.outcomes \cup {word} /\ n.at = r.at /\ n.tool = r.tool
        /\ n.place = r.place /\ n.round = r.round /\ n.date = r.date
        /\ n.started = r.started /\ n.silent = r.silent /\ n.found = r.found
    BY <1>2, WordEchoes
  <2>2. CoverageGap(r) => "unavailable" \in n.outcomes
    BY <2>0, <2>1
  <2>3. \A p : Excused(p, n) <=> Excused(p, r)
    <3> HIDE DEF n
    <3> QED
      BY <2>1 DEF Excused, Start
  <2> HIDE DEF n
  <2>4. Heard(n) /\ Placed(n) /\ Posted(n)
    BY <1>1, <1>2, <2>1, <2>3 DEF Candid, Heard, Placed, Posted
  <2>5. ASSUME ~CoverageGap(r), r.round \in DOMAIN Subreddits,
               NEW p \in Subreddits[r.round] \ Undated
        PROVE  Excused(p, n)
    <3>1. p \in Published \ Undated
      BY <2>5, ConstantsAreRight DEF ConstantsAreRight
    <3>2. Excused(p, r)
      BY <1>1, <1>2, <1>6, <2>5, <3>1, NoneToSelect
    <3> QED
      BY <2>3, <3>2
  <2> QED
    BY <1>1, <1>2, <2>1, <2>2, <2>4, <2>5, NextSubredditIsCandid
<1> QED
  BY <1>3, <1>5, <1>6, BecomesCandid

-----------------------------------------------------------------------------
(* Alpha Vantage, AkShare, and the Chinese sentiment sources.              *)

(* What tells of no feed may say that there is nothing. *)
LEMMA NoFeedTells ==
  ASSUME NEW r, IsCall(r), r.tool \notin FeedTools, NEW answer, answer # "no_data"
  PROVE  Candid(Done(r, answer), now)
  BY TellsOfNothing, TellsOfNone

LEMMA NotesKeepTheTool ==
  /\ \A r, note : IsCall(r) => Attempt(r, note).tool = r.tool /\ Observed(r, note).tool = r.tool
  /\ \A r, rows : IsCall(r) => Reported(r, rows).tool = r.tool
  BY NotesEcho, ReportedEchoes DEF Echoes, Tracks

LEMMA AlphaIsCandid ==
  ASSUME IInv, AInv, NEW c \in Calls, AlphaRefuses(c) \/ AlphaPrices(c)
  PROVE  AInv'
<1> DEFINE r == call[c]
<1>1. r.at = "fetch"
  BY DEF AlphaRefuses, AlphaPrices, Fetching
<1>2. IsCall(r) /\ Candid(r, now) /\ now \in Times
  BY <1>1, CandidOnItsWay
<1>3. \/ Becomes(c, NextVendor(Attempt(r, "not_configured"), "unconfigured"))
      \/ Becomes(c, Unanswered(r))
      \/ \E s \in Received(r, Start(r) - Span, HostDay[now]) : Becomes(c, s)
      \/ \E outcome \in {"empty", "failed"} :
           Becomes(c, NextVendor(Attempt(r, "available"), outcome))
  BY DEF AlphaRefuses, AlphaPrices
<1> HIDE DEF r
<1>4. \A s \in Received(r, Start(r) - Span, HostDay[now]) : Candid(s, now)
  BY <1>1, <1>2, ReceivedIsCandid
<1>5. \A status, outcome : Candid(NextVendor(Attempt(r, status), outcome), now)
  BY <1>1, <1>2, NotesAndMovesOn
<1>6. Candid(Unanswered(r), now)
  BY <1>1, <1>2, NotesAndMovesOn
<1> QED
  BY <1>3, <1>4, <1>5, <1>6, BecomesCandid

LEMMA AlphaReportsAreCandid ==
  ASSUME IInv, AInv, NEW c \in Calls, AlphaIndicator(c) \/ AlphaReport(c) \/ AlphaInsiders(c)
  PROVE  AInv'
<1> DEFINE r == call[c]
           Bare(status, kind) == Attempt(Observed(Attempt(r, status), kind), "empty")
           Twice == Attempt(Attempt(r, "available"), "unavailable")
<1>1. r.at = "fetch" /\ r.tool \notin FeedTools
  BY DEF AlphaIndicator, AlphaReport, AlphaInsiders, Fetching, FeedTools
<1>2. IsCall(r) /\ Candid(r, now) /\ now \in Times
  BY <1>1, CandidOnItsWay
<1>3. \/ Becomes(c, Done(Attempt(r, "unavailable"), "text"))
      \/ \E rows : Becomes(c, Done(Reported(r, rows), "rows"))
      \/ \E status, kind : Becomes(c, Done(Bare(status, kind), "nothing"))
      \/ \E status : Becomes(c, NextVendor(Attempt(r, status), "empty"))
      \/ Becomes(c, Garbled(r))
      \/ Becomes(c, Done(Twice, "unavailable"))
  BY DEF AlphaIndicator, AlphaReport, AlphaInsiders
<1> HIDE DEF r
<1>4. \A rows : Candid(Done(Reported(r, rows), "rows"), now)
  BY <1>2, NotesAreCalls, TellsOfNone
<1>5. ASSUME NEW status, NEW kind PROVE Candid(Done(Bare(status, kind), "nothing"), now)
  BY <1>1, <1>2, NotesAreCalls, NotesKeepTheTool, NoFeedTells
<1>6. Candid(Done(Attempt(r, "unavailable"), "text"), now) /\ Candid(Done(Twice, "unavailable"), now)
  BY <1>2, NotesAreCalls, TellsOfNone
<1>7. Candid(Garbled(r), now) /\ \A status : Candid(NextVendor(Attempt(r, status), "empty"), now)
  BY <1>1, <1>2, NotesAndMovesOn
<1> HIDE DEF Bare, Twice
<1> QED
  BY <1>3, <1>4, <1>5, <1>6, <1>7, BecomesCandid

LEMMA AlphaNewsIsCandid == ASSUME IInv, AInv, NEW c \in Calls, AlphaNews(c) PROVE AInv'
<1> DEFINE r == call[c]
           found == {p \in Published \ Undated : p <= now /\ InWindow(p, Start(r), r.date)}
           a == Attempt(r, "available")
           k == [a EXCEPT !.found = found]
           e == Attempt(Observed(k, "bare"), "empty")
<1>1. r.at = "fetch" /\ r.tool \in {"news", "world"}
  BY DEF AlphaNews, Fetching
<1>2. /\ IsCall(r) /\ Candid(r, now) /\ now \in Times /\ r.started \in Times
      /\ r.started <= now
  BY <1>1, CandidOnItsWay
<1>3. \/ Becomes(c, Done(Observed(k, "usable"), "rows"))
      \/ found = {} /\ Becomes(c, Done(e, "nothing"))
      \/ Becomes(c, Done(Attempt(a, "unavailable"), "unavailable"))
  <2> DEFINE usable == Done(Observed(k, "usable"), "rows")
             bare == Done(e, "nothing")
  <2>1. \/ Becomes(c, IF found # {} THEN usable ELSE bare)
        \/ Becomes(c, Done(Attempt(a, "unavailable"), "unavailable"))
    BY DEF AlphaNews
  <2> HIDE DEF usable, bare, found, a
  <2>2. \/ found # {} /\ Becomes(c, usable)
        \/ found = {} /\ Becomes(c, bare)
        \/ Becomes(c, Done(Attempt(a, "unavailable"), "unavailable"))
    BY <2>1
  <2> QED
    BY <2>2 DEF usable, bare
<1>4. IsCall(a) /\ Echoes(a, r)
  BY <1>2, NotesEcho
<1>5. ASSUME found = {}, NEW p \in Published \ Undated PROVE Excused(p, r)
  <2>1. p \in Int /\ now \in Int /\ r.started \in Int
    BY <1>2, Moments
  <2>2. p <= r.started => p <= now
    BY <1>2, <2>1
  <2> QED
    BY <1>5, <2>2 DEF Excused
<1> HIDE DEF found, a, r
<1>6. IsCall(k) /\ Tracks(k, a)
  BY <1>4, FoundCall
<1> HIDE DEF k
<1>7. IsCall(e) /\ Tracks(e, r)
  BY <1>4, <1>6, NotesEcho DEF Echoes, Tracks
<1> HIDE DEF e
<1>8. /\ Candid(Done(Observed(k, "usable"), "rows"), now)
      /\ Candid(Done(Attempt(a, "unavailable"), "unavailable"), now)
  BY <1>4, <1>6, NotesAreCalls, TellsOfNone
<1>9. ASSUME found = {} PROVE Candid(Done(e, "nothing"), now)
  <2>1. ASSUME NEW p \in Told(e.tool) PROVE Excused(p, e)
    <3>1. Excused(p, r)
      BY <1>1, <1>5, <1>7, <1>9 DEF Told, Tracks
    <3> QED
      BY <1>7, <3>1 DEF Excused, Start, Tracks
  <2> QED
    BY <1>7, <2>1, TellsOfNothing
<1> QED
  BY <1>3, <1>8, <1>9, BecomesCandid

(* A frame or a source after the other, for what is no routed feed. *)
LEMMA NextRoundIsCandid ==
  ASSUME NEW r, IsCall(r), Candid(r, now), r.at = "fetch", r.tool \notin {"news", "posts"},
         NEW round \in Nat
  PROVE  Candid([r EXCEPT !.round = round], now)
<1> DEFINE n == [r EXCEPT !.round = round]
<1>1. /\ n.at = "fetch" /\ n.round = round /\ n.tool = r.tool /\ n.place = r.place
      /\ n.started = r.started /\ n.silent = r.silent /\ n.outcomes = r.outcomes
  BY DEF IsCall, Fields
<1> HIDE DEF n
<1>2. Candid(n, now)
  BY <1>1 DEF Candid, Heard, Placed, Posted, Served
<1> QED
  BY <1>2 DEF n

LEMMA AkShareFailsIsCandid == ASSUME IInv, AInv, NEW c \in Calls, AkShareFails(c) PROVE AInv'
<1> DEFINE r == call[c]
<1>1. r.at = "fetch"
  BY DEF AkShareFails, Fetching
<1>2. IsCall(r) /\ Candid(r, now) /\ now \in Times
  BY <1>1, CandidOnItsWay
<1>3. \/ Becomes(c, NextVendor(Attempt(r, "not_configured"), "unconfigured"))
      \/ Becomes(c, NextVendor(Unheard(Missed(r)), "failed"))
  BY DEF AkShareFails
<1> HIDE DEF r
<1> QED
  BY <1>1, <1>2, <1>3, NotesAndMovesOn, BecomesCandid

LEMMA FiledIsCandid ==
  ASSUME NEW r, IsCall(r), Candid(r, now), r.at = "fetch",
         NEW k \in {Attempt(r, "empty")} \cup {Attempt(r, "available")} \cup Filed(r) \cup Unfiled(r)
  PROVE  IsCall(k) /\ Candid(k, now) /\ k.at = "fetch" /\ k.tool = r.tool
<1>1. IsCall(k) /\ Echoes(k, r)
  <2>1. CASE k \in Filed(r)
    BY <2>1, ReportedEchoes DEF Filed
  <2>2. CASE k \in Unfiled(r)
    <3>1. k = Observed(Attempt(r, "available"), "withheld")
      BY <2>2 DEF Unfiled
    <3> QED
      BY <3>1, NotesEcho DEF Echoes, Tracks
  <2> QED
    BY <2>1, <2>2, NotesEcho
<1> QED
  BY <1>1, EchoIsCandid DEF Echoes, Tracks

LEMMA NextFrameIsCandid ==
  ASSUME NEW r, IsCall(r), Candid(r, now), r.at = "fetch", r.tool \notin {"news", "posts"},
         now \in Times
  PROVE  /\ Candid(NextFrame(r), now)
         /\ Candid(NextStatement(r), now)
<1>1. /\ Candid([r EXCEPT !.round = 2], now) /\ Candid(NextVendor(r, "empty"), now)
      /\ Candid(Done(r, "rows"), now) /\ Candid(Done(r, "withheld"), now)
  BY NextRoundIsCandid, NotesAndMovesOn, TellsOfNone
<1> DEFINE second == [r EXCEPT !.round = 2]
<1> HIDE DEF second
<1>2. NextFrame(r) \in {second, Done(r, "rows"), Done(r, "withheld"), NextVendor(r, "empty")}
  BY DEF NextFrame, second
<1>3. NextStatement(r) \in {second, NextVendor(r, "empty")}
  BY DEF NextStatement, second
<1> QED
  BY <1>1, <1>2, <1>3 DEF second

LEMMA AkShareIsCandid ==
  ASSUME IInv, AInv, NEW c \in Calls, AkShareProfile(c) \/ AkShareStatement(c)
  PROVE  AInv'
<1> DEFINE r == call[c]
           Notes == {Attempt(r, "empty")} \cup {Attempt(r, "available")} \cup Filed(r) \cup Unfiled(r)
<1>1. r.at = "fetch" /\ r.tool \notin {"news", "posts"}
  BY DEF AkShareProfile, AkShareStatement, Fetching
<1>2. IsCall(r) /\ Candid(r, now) /\ now \in Times
  BY <1>1, CandidOnItsWay
<1>3. \/ \E k \in Notes : \/ Becomes(c, NextFrame(k)) \/ Becomes(c, Done(k, "rows"))
                          \/ Becomes(c, Done(k, "withheld")) \/ Becomes(c, NextStatement(k))
      \/ Becomes(c, NextVendor(Attempt(r, "available"), "empty"))
  BY DEF AkShareProfile, AkShareStatement
<1> HIDE DEF r
<1>4. ASSUME NEW k \in Notes
      PROVE  IsCall(k) /\ Candid(k, now) /\ k.at = "fetch" /\ k.tool \notin {"news", "posts"}
  BY <1>1, <1>2, FiledIsCandid
<1> HIDE DEF Notes
<1>5. ASSUME NEW k \in Notes
      PROVE  /\ Candid(NextFrame(k), now) /\ Candid(NextStatement(k), now)
             /\ Candid(Done(k, "rows"), now) /\ Candid(Done(k, "withheld"), now)
  BY <1>2, <1>4, NextFrameIsCandid, TellsOfNone
<1>6. Candid(NextVendor(Attempt(r, "available"), "empty"), now)
  BY <1>1, <1>2, NotesAndMovesOn
<1> QED
  BY <1>3, <1>5, <1>6, BecomesCandid

LEMMA NextSourceIsCandid ==
  ASSUME NEW r, IsCall(r), Candid(r, now), r.at = "fetch", r.tool = "mood", NEW status
  PROVE  Candid(NextSource(r, status), now)
<1> DEFINE next == [r EXCEPT !.round = Following(r)]
           n == [r EXCEPT !.round = Following(r), !.tries = 0]
<1>1. r.round \in Nat
  BY DEF Candid, Placed
<1>2. Following(r) \in Nat
  BY <1>1 DEF Following
<1>3. Candid(next, now)
  BY <1>2, NextRoundIsCandid
<1>4. Echoes(n, next) /\ next.at = "fetch"
  BY DEF IsCall, Fields, Echoes, Tracks
<1> HIDE DEF next, n
<1>5. Candid(n, now)
  BY <1>3, <1>4, EchoIsCandid
<1> DEFINE word == IF r.found # {} \/ r.rows # {} THEN "rows"
                   ELSE IF status = "empty" THEN "blank" ELSE "text"
<1>6. word \notin {"nothing", "no_data"}
  OBVIOUS
<1> HIDE DEF word
<1>7. Candid(Done(r, word), now)
  BY <1>6, TellsOfNone
<1> QED
  BY <1>5, <1>7 DEF NextSource, word, n

LEMMA NextKeywordIsCandid ==
  ASSUME NEW r, IsCall(r), Candid(r, now), r.at = "fetch", r.tool = "mood", NEW status
  PROVE  Candid(NextKeyword(r, status), now)
<1> DEFINE n == [r EXCEPT !.tries = @ + 1]
<1>1. Echoes(n, r)
  BY DEF IsCall, Fields, Echoes, Tracks
<1> HIDE DEF n
<1>2. Candid(n, now)
  BY <1>1, EchoIsCandid
<1>3. Candid(NextSource(r, status), now)
  BY NextSourceIsCandid
<1> QED
  BY <1>2, <1>3 DEF NextKeyword, n

(* A call for the Chinese mood, with a note. *)
LEMMA MoodNotes ==
  ASSUME NEW r, IsCall(r), Candid(r, now), r.at = "fetch", r.tool = "mood",
         NEW k, Tracks(k, r), k.silent = r.silent, k.at = r.at
  PROVE  Candid(k, now) /\ k.at = "fetch" /\ k.tool = "mood"
<1>1. k.at = "fetch" /\ k.tool = "mood"
  BY DEF Tracks
<1>2. Candid(k, now)
  BY <1>1 DEF Candid, Heard, Placed, Posted, Served, Tracks
<1> QED
  BY <1>1, <1>2

LEMMA MoodPasses ==
  ASSUME NEW r, IsCall(r), Candid(r, now), r.at = "fetch", r.tool = "mood", NEW status
  PROVE  /\ Candid(NextSource(r, status), now)
         /\ Candid(NextSource(Missed(r), status), now)
         /\ Candid(NextKeyword(Missed(r), status), now)
         /\ \A note : /\ Candid(NextSource(Attempt(r, note), status), now)
                      /\ Candid(NextKeyword(Attempt(r, note), status), now)
<1>1. IsCall(Missed(r)) /\ Echoes(Missed(r), r)
  BY MissedEchoes
<1>2. \A note : IsCall(Attempt(r, note)) /\ Echoes(Attempt(r, note), r)
  BY NotesEcho
<1>3. /\ Candid(Missed(r), now) /\ Missed(r).at = "fetch" /\ Missed(r).tool = "mood"
      /\ \A note : /\ Candid(Attempt(r, note), now) /\ Attempt(r, note).at = "fetch"
                   /\ Attempt(r, note).tool = "mood"
  BY <1>1, <1>2, MoodNotes DEF Echoes
<1> QED
  BY <1>1, <1>2, <1>3, NextSourceIsCandid, NextKeywordIsCandid

LEMMA MoodIsAsked ==
  ASSUME IInv, AInv, NEW c \in Calls, Fetching(c, "sentiment")
  PROVE  LET r == call[c] IN
         IsCall(r) /\ Candid(r, now) /\ r.at = "fetch" /\ r.tool = "mood"
<1>1. /\ IsCall(call[c]) /\ Candid(call[c], now) /\ call[c].at = "fetch" /\ Placed(call[c])
      /\ Vendor(call[c]) = "sentiment"
  BY CandidOnItsWay DEF Fetching
<1> QED
  BY <1>1, RoutedElsewhere

LEMMA MoodNameIsCandid == ASSUME IInv, AInv, NEW c \in Calls, MoodName(c) PROVE AInv'
<1> DEFINE r == call[c]
           a == Attempt(r, "available")
           Named(named) == [a EXCEPT !.named = named]
<1>1. IsCall(r) /\ Candid(r, now) /\ r.at = "fetch" /\ r.tool = "mood"
  BY MoodIsAsked DEF MoodName
<1>2. \/ Becomes(c, NextSource(r, None))
      \/ Becomes(c, NextSource(Missed(r), "unavailable"))
      \/ Becomes(c, NextSource(Attempt(r, "empty"), "empty"))
      \/ \E named : Becomes(c, NextSource(Named(named), "available"))
  BY DEF MoodName
<1> HIDE DEF r
<1>3. ASSUME NEW named PROVE Candid(NextSource(Named(named), "available"), now)
  <2> DEFINE n == Named(named)
  <2>1. IsCall(a) /\ Echoes(a, r)
    BY <1>1, NotesEcho
  <2> HIDE DEF a
  <2>2. IsCall(n) /\ Echoes(n, a)
    BY <2>1 DEF IsCall, Fields, Echoes, Tracks
  <2> HIDE DEF n, Named
  <2>3. Candid(n, now) /\ n.at = "fetch" /\ n.tool = "mood"
    BY <1>1, <2>1, <2>2, MoodNotes DEF Echoes, Tracks
  <2>4. Candid(NextSource(n, "available"), now)
    BY <2>2, <2>3, NextSourceIsCandid
  <2> QED
    BY <2>4 DEF n
<1> HIDE DEF a, Named
<1> QED
  BY <1>1, <1>2, <1>3, MoodPasses, BecomesCandid

LEMMA CollectedIsCandid ==
  ASSUME NEW r, IsCall(r), Candid(r, now), r.at = "fetch", r.tool = "mood", NEW k \in Collected(r)
  PROVE  /\ Candid(NextSource(k, "available"), now)
         /\ Candid(NextKeyword(k, "available"), now)
<1>1. PICK kept \in {InChina(r, Before(r)), {}} :
        k = LET a == Attempt([r EXCEPT !.found = @ \cup kept], "available")
            IN  IF kept # {} THEN Observed(a, "usable") ELSE a
  BY DEF Collected
<1> DEFINE f == [r EXCEPT !.found = @ \cup kept]
           a == Attempt(f, "available")
           o == Observed(a, "usable")
<1>2. k = o \/ k = a
  BY <1>1
<1>3. IsCall(f) /\ Tracks(f, r) /\ f.silent = r.silent /\ f.at = r.at
  BY FoundCall
<1> HIDE DEF f
<1>4. IsCall(a) /\ Echoes(a, f)
  BY <1>3, NotesEcho
<1> HIDE DEF a
<1>5. IsCall(o) /\ Echoes(o, a)
  BY <1>4, NotesEcho
<1> HIDE DEF o
<1>6. IsCall(k) /\ Tracks(k, r) /\ k.silent = r.silent /\ k.at = r.at
  BY <1>2, <1>3, <1>4, <1>5 DEF Echoes, Tracks
<1>7. Candid(k, now) /\ k.at = "fetch" /\ k.tool = "mood"
  BY <1>6, MoodNotes
<1> QED
  BY <1>6, <1>7, NextSourceIsCandid, NextKeywordIsCandid

LEMMA MoodItemsIsCandid ==
  ASSUME IInv, AInv, NEW c \in Calls, MoodItems(c) \/ MoodSearch(c)
  PROVE  AInv'
<1> DEFINE r == call[c]
<1>1. IsCall(r) /\ Candid(r, now) /\ r.at = "fetch" /\ r.tool = "mood"
  BY MoodIsAsked DEF MoodItems, MoodSearch
<1>2. CASE MoodItems(c)
  <2>1. \/ Becomes(c, NextSource(Missed(r), "unavailable"))
        \/ \E status : Becomes(c, NextSource(Attempt(r, status), status))
        \/ \E k \in Collected(r) : Becomes(c, NextSource(k, "available"))
    BY <1>2 DEF MoodItems
  <2> HIDE DEF r
  <2> QED
    BY <1>1, <2>1, MoodPasses, CollectedIsCandid, BecomesCandid
<1>3. CASE MoodSearch(c)
  <2>1. \/ Becomes(c, NextKeyword(Missed(r), "unavailable"))
        \/ Becomes(c, NextKeyword(Attempt(r, "empty"), "empty"))
        \/ \E k \in Collected(r) : Becomes(c, NextKeyword(k, "available"))
    BY <1>3 DEF MoodSearch
  <2> HIDE DEF r
  <2> QED
    BY <1>1, <2>1, MoodPasses, CollectedIsCandid, BecomesCandid
<1> QED
  BY <1>2, <1>3

LEMMA MoodKeywordsIsCandid == ASSUME IInv, AInv, NEW c \in Calls, MoodKeywords(c) PROVE AInv'
<1> DEFINE r == call[c]
           today == ChinaDay[now]
           p == Reported(r, {today})
           late == IF today > r.run THEN {"future"} ELSE {}
           k == [p EXCEPT !.sources = @ \cup late]
<1>1. IsCall(r) /\ Candid(r, now) /\ r.at = "fetch" /\ r.tool = "mood"
  BY MoodIsAsked DEF MoodKeywords
<1>2. \/ Becomes(c, NextSource(Missed(r), "unavailable"))
      \/ \E status : Becomes(c, NextSource(Attempt(r, status), status))
      \/ Becomes(c, NextSource(k, "available"))
  BY DEF MoodKeywords
<1> HIDE DEF r, late
<1>3. IsCall(p) /\ Echoes(p, r)
  BY <1>1, ReportedEchoes
<1> HIDE DEF p
<1>4. IsCall(k) /\ Echoes(k, p)
  BY <1>3 DEF IsCall, Fields, Echoes, Tracks
<1> HIDE DEF k
<1>5. Echoes(k, r)
  BY <1>3, <1>4 DEF Echoes, Tracks
<1>6. Candid(NextSource(k, "available"), now)
  BY <1>1, <1>4, <1>5, MoodNotes, NextSourceIsCandid DEF Echoes
<1>7. \A status : /\ Candid(NextSource(Attempt(r, status), status), now)
                  /\ Candid(NextSource(Missed(r), "unavailable"), now)
  BY <1>1, MoodPasses
<1> QED
  BY <1>2, <1>6, <1>7, BecomesCandid

-----------------------------------------------------------------------------
(* What time does, and the theorem.                                        *)

(* Time passes a call by: what it was served it was served before. *)
LEMMA TickIsCandid == ASSUME IInv, AInv, Tick PROVE AInv'
<1>1. now \in Times /\ now' = now + 1 /\ call' = call
  BY DEF IInv, Tick
<1>2. ASSUME NEW c \in Calls PROVE Candid(call[c], now + 1)
  <2> DEFINE r == call[c]
  <2>1. Candid(r, now)
    BY DEF AInv
  <2>2. CASE r.at = "done"
    BY <2>1, <2>2 DEF Candid
  <2>3. CASE r.at # "done"
    <3>1. r.started \in Times /\ r.started <= now
      BY <2>3, CandidOnItsWay
    <3>2. now \in Int /\ r.started \in Int /\ \A u \in Times : u \in Int
      BY <1>1, <3>1, TimesAreNumbers
    <3>3. r.started <= now + 1 /\ \A u \in Times : u <= now => u <= now + 1
      BY <3>1, <3>2
    <3> HIDE DEF r
    <3>4. Served(r, now) => Served(r, now + 1)
      BY <3>3 DEF Served
    <3>5. Candid(r, now + 1)
      BY <2>1, <2>3, <3>3, <3>4 DEF Candid
    <3> QED
      BY <3>5 DEF r
  <2> QED
    BY <2>2, <2>3
<1> QED
  BY <1>1, <1>2 DEF AInv

LEMMA NextIsCandid == IInv /\ AInv /\ [Next]_vars => AInv'
<1> SUFFICES ASSUME IInv, AInv, [Next]_vars PROVE AInv'
  OBVIOUS
<1>1. CASE UNCHANGED vars
  BY <1>1 DEF vars, AInv
<1>2. CASE Tick
  BY <1>2, TickIsCandid
<1>3. ASSUME NEW c \in Calls, Ask(c) PROVE AInv'
  BY <1>3, AskIsCandid
<1>4. ASSUME NEW c \in Calls, Step(c) PROVE AInv'
  <2>1. CASE Enter(c) \/ Unsupported(c) \/ ReadFile(c) \/ JudgeFile(c) \/ WriteFile(c)
    BY <2>1, EnterIsCandid, UnsupportedIsCandid, ReadFileIsCandid, JudgeFileIsCandid,
       WriteFileIsCandid
  <2>2. CASE Serve(c) \/ Assess(c) \/ Calculate(c)
    BY <2>2, ServeIsCandid, AssessIsCandid
  <2>3. CASE YahooRefuses(c) \/ YahooIsEmpty(c) \/ YahooPrices(c) \/ YahooProfile(c)
             \/ YahooStatement(c) \/ YahooInsiders(c) \/ YahooNews(c) \/ Probe(c)
    BY <2>3, YahooRefusesIsCandid, YahooIsEmptyIsCandid, YahooReportsAreCandid,
       YahooNewsIsCandid, ProbeIsCandid
  <2>4. CASE SelectNews(c) \/ SelectWorld(c) \/ Tencent(c) \/ Eastmoney(c)
    BY <2>4, SelectNewsIsCandid, SelectWorldIsCandid, ChineseAreCandid
  <2>5. CASE AlphaRefuses(c) \/ AlphaPrices(c) \/ AlphaIndicator(c) \/ AlphaReport(c)
             \/ AlphaInsiders(c) \/ AlphaNews(c)
    BY <2>5, AlphaIsCandid, AlphaReportsAreCandid, AlphaNewsIsCandid
  <2>6. CASE AkShareFails(c) \/ AkShareProfile(c) \/ AkShareStatement(c)
    BY <2>6, AkShareFailsIsCandid, AkShareIsCandid
  <2>7. CASE StockTwits(c) \/ SelectTalk(c) \/ Reddit(c) \/ RedditRss(c) \/ SelectPosts(c)
    BY <2>7, StockTwitsIsCandid, SelectTalkIsCandid, RedditIsCandid, RedditRssIsCandid,
       SelectPostsIsCandid
  <2>8. CASE MoodName(c) \/ MoodItems(c) \/ MoodSearch(c) \/ MoodKeywords(c)
    BY <2>8, MoodNameIsCandid, MoodItemsIsCandid, MoodKeywordsIsCandid
  <2> QED
    BY <1>4, <2>1, <2>2, <2>3, <2>4, <2>5, <2>6, <2>7, <2>8 DEF Step
<1> QED
  BY <1>1, <1>2, <1>3, <1>4 DEF Next

(* That there is nothing is said only where it was seen: after every       *)
(* vendor was heard, or where no dated item of the window was missed.      *)
THEOREM AbsencesAreObserved == Spec => []AbsenceIsObserved
<1>1. IInv /\ AInv => AbsenceIsObserved
  <2> SUFFICES ASSUME IInv, AInv, NEW c \in Calls
               PROVE  Absent(call[c])
    BY DEF AbsenceIsObserved, Absent, Excused
  <2>1. CASE call[c].at = "done"
    BY <2>1 DEF AInv, Candid
  <2>2. CASE call[c].at # "done"
    <3>1. call[c].answer = None
      BY <2>2, OnItsWay DEF Open
    <3>2. None # "no_data" /\ None # "nothing"
      BY ConstantsAreRight DEF ConstantsAreRight
    <3> QED
      BY <3>1, <3>2 DEF Absent
  <2> QED
    BY <2>1, <2>2
<1> QED
  BY <1>1, CallsAreSound, InitIsCandid, NextIsCandid, PTL DEF Spec
=============================================================================
