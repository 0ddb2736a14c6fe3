---------------------------- MODULE SourceCalls ----------------------------
(* The tool calls of one or of several runs, each on its way from the      *)
(* request through the configured vendors to an answer, and to the status  *)
(* the evidence ledger writes down for it.  Calls run side by side, on     *)
(* threads of one process and in several processes; they share the file in *)
(* which Yahoo's daily prices are kept.                                    *)
(*                                                                         *)
(* A price table is the set of days it has a row for, with the moment it   *)
(* was downloaded; a feed is the set of moments at which its items were    *)
(* published.  What rows and items say is left out, except whether a row   *)
(* has a closing price and whether an item is dated.                       *)
(*                                                                         *)
(* This module is what all calls share: dates, feeds, the record of a      *)
(* call, the router, the price file and the answer.  What each vendor does *)
(* is in Vendors.                                                          *)
EXTENDS Integers, FiniteSets, Sequences

CONSTANTS
    Calls,         \* identities of tool calls
    Plans,         \* what the calls may ask, all of them together
    Chain,         \* the configured vendors of each tool, in their order
    MaxTime,       \* bound on the clock
    HostDay,       \* the day on the host's clock at each moment
    UtcDay,        \* the UTC day at each moment, earlier moments included
    ChinaDay,      \* the day in China at each moment, earlier ones included
    SourceDay,     \* the day at the exchange at each moment
    Opens,         \* the moment from which a day's row is served
    Settles,       \* the moment from which a day's row is final
    Published,     \* the moments at which the items of feeds were published
    Undated,       \* those of them whose items carry no date
    Queries,       \* what each search for world news finds
    Subreddits,    \* what is posted in each subreddit
    FeedLimit,     \* items a feed returns
    Lookback,      \* how far back Reddit's search reaches
    FeedDays,      \* days before the last that a feed tool asks for
    RecentDays,    \* days before those that the Chinese sources fall back on
    Span,          \* days of history a price tool asks for
    Enough,        \* rows that make a shorter history acceptable
    Warmup,        \* complete rows that an indicator needs
    StaleDays,     \* how far the last row may lie before the requested day
    Ttl,           \* how long the file serves a request for the current day
    MaxRetries,    \* repetitions of a rate-limited request
    None           \* no table, no answer

Times == 0 .. MaxTime
Days == DOMAIN Opens
PriceTools == {"snapshot", "indicators", "prices"}
ReportTools == {"profile", "statements", "insiders"}
FeedTools == {"news", "world", "talk", "posts", "mood"}
Tools == PriceTools \cup ReportTools \cup FeedTools

(* mainland: the instrument is a Chinese A-share; run: the run's own date; *)
(* asked: the date the model named.                                        *)
RequestSet == [tool : Tools, mainland : BOOLEAN, run : Days, asked : Days]

ASSUME ConstantsAreRight ==
    /\ {MaxTime, FeedLimit, Lookback, FeedDays, RecentDays, Span, Enough, Warmup, StaleDays,
        Ttl, MaxRetries} \subseteq Nat
    /\ Days \subseteq Int
    /\ Plans \subseteq [Calls -> RequestSet]
    /\ HostDay \in [Times -> Days] /\ SourceDay \in [Times -> Days]
    /\ Times \subseteq DOMAIN UtcDay /\ UtcDay \in [DOMAIN UtcDay -> Int]
    /\ DOMAIN UtcDay \subseteq Int /\ ChinaDay \in [DOMAIN UtcDay -> Int]
    /\ Published \subseteq DOMAIN UtcDay /\ Undated \subseteq Published /\ IsFiniteSet(Published)
    /\ \A t \in Times : t - Lookback \in DOMAIN UtcDay
    /\ Queries \in Seq(SUBSET Published) /\ Subreddits \in Seq(SUBSET Published)
    /\ Opens \in [Days -> Int] /\ Settles \in [Days -> Int]
    /\ None \notin {"rows", "some", "available", "nothing", "no_data"}

(* UTC days follow each other, and the day begins earlier in China. *)
ASSUME ClocksAreRight ==
    /\ \A s, t \in DOMAIN UtcDay : s <= t => UtcDay[s] <= UtcDay[t]
    /\ \A t \in DOMAIN UtcDay : UtcDay[t] <= ChinaDay[t]

(* The configuration: the snapshot always asks Yahoo; discussion and the   *)
(* Chinese sentiment sources are not routed.                               *)
ASSUME ChainsAreRight ==
    /\ DOMAIN Chain = Tools
    /\ \A t \in Tools : Chain[t] \in Seq(STRING) /\ Chain[t] # <<>>
    /\ Chain["snapshot"] = <<"yfinance">>
    /\ Chain["talk"] = <<"stocktwits">>
    /\ Chain["posts"] = <<"reddit">>
    /\ Chain["mood"] = <<"sentiment">>
    /\ \A t \in Tools \ {"talk", "posts", "mood"} : \A i \in DOMAIN Chain[t] :
         Chain[t][i] \in {"yfinance", "alpha_vantage", "akshare", "eastmoney"}

(* A session is over when its day is over at the exchange. *)
ASSUME SettlesByMidnight ==
    \A t \in Times, d \in Days : SourceDay[t] > d => Settles[d] <= t

VARIABLES
    now,   \* the clock
    file,  \* the symbol's price file: the table in it and when it was written
    call   \* each call

vars == <<now, file, call>>

-----------------------------------------------------------------------------
(* Dates, tables and feeds.                                                *)

(* No tool asks a vendor for a date after the run's. *)
AsOf(asked, run) == IF asked <= run THEN asked ELSE run

IsHistorical(day) == day < HostDay[now]

LastOf(S) == CHOOSE d \in S : \A e \in S : e <= d

(* A table: the days asked for, those with a row, those of them with a     *)
(* closing price, and the moment of the download.                          *)
Table(start, end, rows, priced) ==
    [start |-> start, end |-> end, rows |-> rows, priced |-> priced, made |-> now]

(* A frame without a column of dates: a table of no day at all. *)
Dateless(start, end) == Table(start, end, {}, {})

(* What a price vendor may answer: every row there is; the newest of them  *)
(* without its close; a frame that ended long ago.                         *)
Answers(start, end) ==
    LET all == {d \in Days : start <= d /\ d <= end /\ Opens[d] <= now}
        old == {d \in all : d < end - StaleDays}
    IN  {t \in {Table(start, end, all, all), Table(start, end, old, old),
                Table(start, end, all, {d \in all : d # LastOf(all)})} : t.rows # {}}

(* What a feed serves when it is asked: its newest items; Reddit's only    *)
(* those of a week.                                                        *)
Newest(items) == {p \in items : Cardinality({q \in items : q > p}) < FeedLimit}

Feed(r) ==
    Newest({p \in Published :
        /\ p <= now
        /\ r.tool = "posts" => p \in Subreddits[r.round] /\ p >= now - Lookback
        /\ r.tool = "world" => p \in Queries[r.round]})

InWindow(p, start, end) == start <= UtcDay[p] /\ UtcDay[p] <= end

-----------------------------------------------------------------------------
(* A call: where it is, what was asked, which vendor is being asked, for   *)
(* the how many-th time and, where it takes several requests, for which;   *)
(* what was read from the file, the table or the items received, and the   *)
(* items kept so far; the outcomes of the vendors before, the statuses of  *)
(* all attempts and the kinds of sources observed; whether the company's   *)
(* name is known to search for; the answer, its rows, and those used in    *)
(* calculations.  Three fields are for the properties    *)
(* alone: whether any request went unanswered, which vendors never         *)
(* answered, and when the rows that were used had been downloaded.         *)

(* What no model asks for itself is asked for as of the run's date. *)
DateOf(q) ==
    IF q.tool \in {"insiders", "talk", "posts", "mood"} THEN q.run ELSE AsOf(q.asked, q.run)

NewCall(q) ==
    [at |-> "idle", tool |-> q.tool, mainland |-> q.mainland, run |-> q.run,
     date |-> DateOf(q), place |-> 1, started |-> 0, tries |-> 0, round |-> 1,
     held |-> None, table |-> None, items |-> {}, found |-> {},
     outcomes |-> {}, attempts |-> {}, sources |-> {}, named |-> FALSE, again |-> FALSE,
     answer |-> None, status |-> None, rows |-> {}, used |-> {},
     missed |-> FALSE, silent |-> {}, made |-> 0]

Init ==
    /\ now = 0
    /\ file = [table |-> None, written |-> 0]
    /\ \E plan \in Plans : call = [c \in Calls |-> NewCall(plan[c])]

Vendor(r) == Chain[r.tool][r.place]
Start(r) == r.date - (IF r.tool \in FeedTools THEN FeedDays ELSE Span)

(* Whether an item belongs to the answer: one without a date only where    *)
(* the window reaches the present.                                         *)
Belongs(p, r) ==
    IF p \in Undated THEN UtcDay[now] <= r.date ELSE InWindow(p, Start(r), r.date)

(* The earliest moment the served items speak for; the world's news are    *)
(* put together from searches and speak for no stretch of time.            *)
Reach(r) ==
    LET spoken == (IF r.tool = "world" THEN {} ELSE r.items \ Undated) \cup {now}
                  \cup (IF r.tool = "posts" /\ Cardinality(r.items) < FeedLimit
                        THEN {now - Lookback} ELSE {})
    IN  CHOOSE p \in spoken : \A q \in spoken : p <= q

(* The window goes past today, or begins before what the feed reaches. *)
CoverageGap(r) == r.date > UtcDay[now] \/ UtcDay[Reach(r)] > Start(r)

(* Yahoo's prices for the snapshot and the indicators go through the file; *)
(* an A-share's go to the Chinese sources instead.                         *)
UsesFile(r) == r.tool \in {"snapshot", "indicators"} /\ Vendor(r) = "yfinance" /\ ~r.mainland
AsksChina(r) ==
    \/ Vendor(r) = "eastmoney"
    \/ r.tool \in {"snapshot", "indicators"} /\ Vendor(r) = "yfinance" /\ r.mainland

-----------------------------------------------------------------------------
(* What the evidence ledger writes down.                                   *)

Attempt(r, status) == [r EXCEPT !.attempts = @ \cup {status}]

(* A source was observed: with data, without, withheld, or of a later day. *)
Observed(r, kind) == [r EXCEPT !.sources = @ \cup {kind}]

(* Fault: the attempt is noted only when the call gives up. *)
MissedUnnoted(r) == [r EXCEPT !.missed = TRUE]

Missed(r) == [r EXCEPT !.attempts = @ \cup {"unavailable"}, !.missed = TRUE]

Unheard(r) == [r EXCEPT !.silent = @ \cup {Vendor(r)}]

(* Whatever the answer was, it is withheld when every source was, and when *)
(* one spoke of a later day.                                               *)
Said(answer, sources) ==
    IF "future" \in sources \/ sources = {"withheld"} THEN "withheld" ELSE answer

(* The status of the record, from the answer, the attempts and the sources. *)
Status(said, attempts, sources) ==
    IF "future" \in sources \/ sources = {"withheld"} THEN "withheld"
    ELSE IF said = "raised" THEN "unavailable"
    ELSE IF said \in {"unavailable", "no_data"} /\ "usable" \notin sources THEN "unavailable"
    ELSE IF said \in {"nothing", "blank"} /\ "usable" \notin sources THEN "empty"
    ELSE IF said \in {"rows", "text", "withheld"}
            /\ attempts \cap {"unavailable", "empty", "withheld"} = {} THEN "available"
    ELSE "partial"

(* What the call worked with is gone. *)
Done(r, answer) ==
    LET said == Said(answer, r.sources) IN
    [r EXCEPT !.at = "done", !.answer = said, !.status = Status(said, r.attempts, r.sources),
              !.rows = IF said \in {"rows", "some"} THEN @ ELSE {},
              !.found = IF said \in {"rows", "some"} THEN @ ELSE {},
              !.place = 1, !.tries = 0, !.round = 1, !.table = None, !.items = {},
              !.named = FALSE, !.outcomes = {}, !.attempts = {}, !.sources = {}]

-----------------------------------------------------------------------------
(* The router.                                                             *)

(* Fault: the last word is the absence. *)
VerdictOfAbsence(tool, outcomes) ==
    IF "empty" \in outcomes THEN "no_data"
    ELSE IF tool = "snapshot" /\ "failed" \in outcomes THEN "raised" ELSE "unavailable"

(* After the last vendor a failure outweighs an absence. *)
Verdict(tool, outcomes) ==
    IF tool = "snapshot" /\ "failed" \in outcomes THEN "raised"
    ELSE IF outcomes \cap {"unavailable", "failed"} = {} /\ "empty" \in outcomes THEN "no_data"
    ELSE "unavailable"

(* A vendor's adapter is entered; what the one before had put together is  *)
(* lost.                                                                   *)
Entered(r) ==
    [r EXCEPT !.at = "asked", !.started = now, !.tries = 0, !.round = 1, !.held = None,
              !.table = None, !.items = {}, !.found = {}, !.rows = {}]

(* Fault: after the last vendor comes the first. *)
NextVendorAround(r, outcome) ==
    Entered([r EXCEPT !.outcomes = @ \cup {outcome}, !.place = (@ % Len(Chain[r.tool])) + 1])

(* A vendor is done without an answer: the next one is asked. *)
NextVendor(r, outcome) ==
    LET met == [r EXCEPT !.outcomes = @ \cup {outcome}]
    IN  IF r.place < Len(Chain[r.tool])
        THEN Entered([met EXCEPT !.place = @ + 1])
        ELSE Done(met, Verdict(r.tool, met.outcomes))

Unanswered(r) == NextVendor(Unheard(Missed(r)), "unavailable")

(* The call takes a step of its own; the file is left alone. *)
Becomes(c, r) == call' = [call EXCEPT ![c] = r] /\ UNCHANGED <<now, file>>

-----------------------------------------------------------------------------
(* Actions: the request, and the file.                                     *)

Ask(c) ==
    LET r == call[c] IN
    /\ r.at = "idle"
    /\ r.run <= HostDay[now]
    /\ Becomes(c, Entered(r))

(* An adapter that does not serve the instrument says so without a request. *)
NotCovered(r) ==
    \/ Vendor(r) \in {"eastmoney", "akshare"} /\ ~r.mainland
    \/ Vendor(r) = "yfinance" /\ r.tool \in ReportTools /\ r.mainland

(* Reports of the present are withheld from a past run before they are     *)
(* asked for.                                                              *)
Withheld(r) == r.tool \in ReportTools /\ Vendor(r) # "akshare" /\ IsHistorical(r.date)

Enter(c) ==
    LET r == call[c] IN
    /\ r.at = "asked"
    /\ ~UsesFile(r)
    /\ Becomes(c, IF NotCovered(r) THEN NextVendor(Attempt(r, "empty"), "empty")
                  ELSE IF Withheld(r)
                       THEN Done(Attempt(Observed(r, "withheld"), "withheld"), "withheld")
                       ELSE [r EXCEPT !.at = "fetch", !.started = now])

(* An indicator the vendor does not know. *)
Unsupported(c) ==
    LET r == call[c] IN
    /\ r.at = "asked" /\ r.tool = "indicators" /\ ~r.again
    /\ Becomes(c, NextVendor(Attempt(r, "unavailable"), "failed"))

(* The file is read first and judged afterwards; one that cannot be read   *)
(* counts as empty.                                                        *)
ReadFile(c) ==
    LET r == call[c] IN
    /\ r.at = "asked"
    /\ UsesFile(r)
    /\ \E held \in {file.table, None} :
         Becomes(c, [r EXCEPT !.held = held, !.at = IF held = None THEN "fetch" ELSE "read"])

(* The rows that were read reach the request, or are many enough. *)
CacheWindow(table, r) ==
    /\ table.end >= r.date
    /\ \/ table.start <= Start(r)
       \/ Cardinality({d \in table.rows : table.start <= d /\ d <= r.date}) >= Enough

(* The age is that of the file now on disk. *)
CacheIsFresh(r) ==
    /\ HostDay[file.written] = HostDay[r.started]
    /\ r.date < HostDay[r.started] \/ r.started - file.written <= Ttl

JudgeFile(c) ==
    LET r == call[c] IN
    /\ r.at = "read"
    /\ Becomes(c, IF CacheWindow(r.held, r) /\ CacheIsFresh(r)
                  THEN [r EXCEPT !.at = "serve", !.table = r.held, !.held = None]
                  ELSE [r EXCEPT !.at = "fetch", !.held = None])

(* When the indicators cannot be calculated from the whole table they are  *)
(* once more, day by day, each from prices of its own; one day stands for  *)
(* all.  When that fails too, the symbol counts as one without data.       *)
DayByDay(r) == IF r.again THEN NextVendor(r, "empty") ELSE [Entered(r) EXCEPT !.again = TRUE]

(* Another program may keep the file open: then it stays as it is.  It may *)
(* also not be writable at all.                                            *)
WriteFile(c) ==
    LET r == call[c] IN
    /\ r.at = "write"
    /\ \/ /\ call' = [call EXCEPT ![c].at = "serve"]
          /\ file' = [table |-> r.table, written |-> now]
          /\ UNCHANGED now
       \/ Becomes(c, [r EXCEPT !.at = "serve"])
       \/ Becomes(c, IF r.tool = "indicators" THEN DayByDay(r) ELSE NextVendor(r, "failed"))

-----------------------------------------------------------------------------
(* Actions: from a table to the answer.                                    *)

(* Fault: rows are cut at the old end only. *)
InRangeFromStart(days, r) == {d \in days : Start(r) <= d}

(* Rows after the date are dropped; what is left must not end long ago. *)
InRange(days, r) == {d \in days : Start(r) <= d /\ d <= r.date}

IsStale(days, r) == Vendor(r) = "yfinance" /\ LastOf(days) < r.date - StaleDays

(* The verifier sees the rows as they are, the indicators those with a     *)
(* close; what is asked for the file must have one.  A frame without dates *)
(* is refused only here, when it is in the file already, and again for as  *)
(* long as the file serves.                                                *)
Serve(c) ==
    LET r == call[c]
        kept == InRange(IF r.tool = "indicators" THEN r.table.priced ELSE r.table.rows, r)
    IN
    /\ r.at = "serve"
    /\ Becomes(c, IF r.table.rows = {} THEN NextVendor(Unheard(r), "unavailable")
                  ELSE IF kept = {} \/ (UsesFile(r) /\ InRange(r.table.priced, r) = {})
                     \/ IsStale(kept, r)
                  THEN NextVendor(r, "empty")
                  ELSE LET k == [Observed(r, "usable") EXCEPT !.rows = kept]
                       IN  IF r.tool = "prices" THEN Done(k, "rows") ELSE [k EXCEPT !.at = "assess"])

(* A row is complete when its day is over, at the exchange and in UTC, by  *)
(* the clock of the observation; the Chinese rows name no time zone.       *)
Completed(r) ==
    {d \in r.rows \cap r.table.priced :
        ~r.mainland /\ d < SourceDay[now] /\ d < UtcDay[now]}

(* One unusable row keeps the verifier from calculating anything, and so   *)
(* does a lack of complete ones.                                           *)
Calculable(r) ==
    IF r.rows \subseteq r.table.priced /\ Cardinality(Completed(r)) >= Warmup
    THEN Completed(r) ELSE {}

Assess(c) ==
    LET r == call[c] IN
    /\ r.at = "assess" /\ r.tool = "snapshot"
    /\ Becomes(c, Done([r EXCEPT !.used = Calculable(r), !.made = r.table.made], "rows"))

(* The indicators are calculated from the whole table; that may fail. *)
Calculate(c) ==
    LET r == call[c] IN
    /\ r.at = "assess" /\ r.tool = "indicators"
    /\ \/ Becomes(c, Done(r, "rows"))
       \/ Becomes(c, DayByDay(r))
=============================================================================
