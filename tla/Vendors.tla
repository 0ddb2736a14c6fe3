------------------------------ MODULE Vendors ------------------------------
(* What each vendor of research data may answer to a call, and what its    *)
(* adapter makes of it: Yahoo, the Chinese price services, Alpha Vantage,  *)
(* AkShare, StockTwits, Reddit and the Chinese sentiment sources.          *)
EXTENDS SourceCalls

Fetching(c, vendor) == call[c].at = "fetch" /\ Vendor(call[c]) = vendor

(* Prices were received. *)
Received(r, start, end) ==
    {[Attempt(r, "available") EXCEPT !.at = IF UsesFile(r) THEN "write" ELSE "serve", !.table = t] :
        t \in Answers(start, end)}

(* Rows of a report, each named by the day from which it is known. *)
Reported(r, rows) == [Observed(Attempt(r, "available"), "usable") EXCEPT !.rows = rows]

(* A report of the present is of the day on which it is asked for; that    *)
(* midnight passes while the vendor is waited for is left out.             *)
Present(r) == {HostDay[r.started]}

(* An answer that cannot be read is not one about the symbol. *)
Garbled(r) == NextVendor(Unheard(Attempt(r, "available")), "unavailable")

-----------------------------------------------------------------------------
(* Yahoo.                                                                  *)

(* A rate limit is waited out a few times; any other failure is final. *)
YahooRefuses(c) ==
    LET r == call[c] IN
    /\ Fetching(c, "yfinance") /\ ~AsksChina(r)
    /\ \/ r.tries < MaxRetries /\ Becomes(c, [Missed(r) EXCEPT !.tries = @ + 1])
       \/ Becomes(c, Unanswered(r))

(* Yahoo has nothing: no such symbol, or no row in the window. *)
YahooIsEmpty(c) ==
    LET r == Attempt(call[c], "empty") IN
    /\ Fetching(c, "yfinance") /\ ~AsksChina(r)
    /\ Becomes(c, [r EXCEPT !.at = IF r.tool \in FeedTools THEN "select" ELSE "probe"])

(* A frame may come without dates: the price tool refuses it at once, the  *)
(* others when it has been written to the file.                            *)
YahooPrices(c) ==
    LET r == call[c] IN
    /\ Fetching(c, "yfinance") /\ r.tool \in PriceTools /\ ~AsksChina(r)
    /\ \/ \E s \in Received(r, Start(r), r.date) : Becomes(c, s)
       \/ UsesFile(r) /\ Becomes(c, [Attempt(r, "available") EXCEPT !.at = "probe"])
       \/ Becomes(c, IF UsesFile(r)
                     THEN [Attempt(r, "available") EXCEPT
                            !.at = "write", !.table = Dateless(Start(r), r.date)]
                     ELSE Garbled(r))

(* A profile without a single field counts as received all the same. *)
YahooProfile(c) ==
    LET r == call[c] IN
    /\ Fetching(c, "yfinance") /\ r.tool = "profile"
    /\ \/ Becomes(c, Done(Reported(r, Present(r)), "rows"))
       \/ Becomes(c, [Attempt(r, "available") EXCEPT !.at = "probe"])

YahooStatement(c) ==
    LET r == call[c] IN
    /\ Fetching(c, "yfinance") /\ r.tool = "statements"
    /\ Becomes(c, Done(Reported(r, Present(r)), "rows"))

YahooInsiders(c) ==
    LET r == call[c] IN
    /\ Fetching(c, "yfinance") /\ r.tool = "insiders"
    /\ Becomes(c, Done(Reported(r, Present(r)), "rows"))

YahooNews(c) ==
    LET r == call[c] IN
    /\ Fetching(c, "yfinance") /\ r.tool \in {"news", "world"} /\ Feed(r) # {}
    /\ Becomes(c, [Attempt(r, "available") EXCEPT !.at = "select", !.items = Feed(r)])

(* Silence and an outage look alike; the host is asked whether it is there. *)
(* Most symbols have no insider trades: that is an answer.                  *)
Probe(c) ==
    LET r == call[c] IN
    /\ r.at = "probe"
    /\ \/ Becomes(c, IF r.tool = "insiders" THEN Done(r, "nothing") ELSE NextVendor(r, "empty"))
       \/ Becomes(c, NextVendor(Unheard(r), "unavailable"))

(* Of the items only the window's are kept. *)
Selected(r) == {p \in r.items : Belongs(p, r)}

(* Nothing was found: an absence only where the feed reached. *)
Nothing(r) ==
    LET k == Observed(r, "bare") IN
    IF CoverageGap(r) THEN Done(Attempt(k, "unavailable"), "unavailable")
                      ELSE Done(Attempt(k, "empty"), "nothing")

SelectNews(c) ==
    LET r == call[c]
        k == [r EXCEPT !.found = Selected(r)]
    IN
    /\ r.at = "select" /\ r.tool = "news"
    /\ Becomes(c, IF k.found # {} THEN Done(Observed(k, "usable"), "rows") ELSE Nothing(k))

(* The searches for world news go on until enough was found. *)
SelectWorld(c) ==
    LET r == call[c]
        k == [r EXCEPT !.found = @ \cup Selected(r), !.items = {}]
    IN
    /\ r.at = "select" /\ r.tool = "world"
    /\ Becomes(c, IF Cardinality(k.found) < FeedLimit /\ r.round < Len(Queries)
                  THEN [k EXCEPT !.at = "fetch", !.round = @ + 1, !.tries = 0]
                  ELSE IF k.found # {} THEN Done(Observed(k, "usable"), "rows") ELSE Nothing(k))

-----------------------------------------------------------------------------
(* Tencent, and after it Eastmoney: both drop rows without a close, and    *)
(* may send rows after the window.                                         *)

Whole(r) ==
    LET whole == {s \in Received(r, Start(r), r.date + 1) :
                    s.table.rows = s.table.priced /\ InRange(s.table.rows, r) # {}}
    IN  {Observed(s, "usable") : s \in whole}

Tencent(c) ==
    LET r == call[c] IN
    /\ r.at = "fetch" /\ AsksChina(r)
    /\ \/ \E s \in Whole(r) : Becomes(c, s)
       \/ Becomes(c, [Attempt(r, "empty") EXCEPT !.at = "eastmoney"])
       \/ Becomes(c, [Missed(r) EXCEPT !.at = "eastmoney"])

(* Eastmoney is asked over one transport and, where that fails, over a      *)
(* second; the failure of the first is noted nowhere, the request is one.  *)
Eastmoney(c) ==
    LET r == call[c] IN
    /\ r.at \in {"eastmoney", "curl"}
    /\ \/ r.at = "eastmoney" /\ Becomes(c, [r EXCEPT !.at = "curl"])
       \/ \E s \in Whole(r) : Becomes(c, s)
       \/ Becomes(c, NextVendor(Attempt(r, "empty"), "empty"))
       \/ r.at = "curl" /\ Becomes(c, Unanswered(r))

-----------------------------------------------------------------------------
(* Alpha Vantage.                                                          *)

(* It needs a key; limits and refusals are failures of the request. *)
AlphaRefuses(c) ==
    LET r == call[c] IN
    /\ Fetching(c, "alpha_vantage")
    /\ \/ Becomes(c, NextVendor(Attempt(r, "not_configured"), "unconfigured"))
       \/ Becomes(c, Unanswered(r))

(* The whole series is sent, up to the present. *)
AlphaPrices(c) ==
    LET r == call[c] IN
    /\ Fetching(c, "alpha_vantage") /\ r.tool = "prices"
    /\ \/ \E s \in Received(r, Start(r) - Span, HostDay[now]) : Becomes(c, s)
       \/ \E outcome \in {"empty", "failed"} :
            Becomes(c, NextVendor(Attempt(r, "available"), outcome))

(* One indicator is not to be had, and is refused without a request; a     *)
(* series that ends before the window is an answer.                        *)
AlphaIndicator(c) ==
    LET r == call[c] IN
    /\ Fetching(c, "alpha_vantage") /\ r.tool = "indicators"
    /\ \/ Becomes(c, Done(Attempt(r, "unavailable"), "text"))
       \/ \E t \in Answers(Start(r) - Span, HostDay[now]) :
            LET kept == InRange(t.priced, r) IN
            Becomes(c, IF kept # {} THEN Done(Reported(r, kept), "rows")
                       ELSE Done(Attempt(Observed(Attempt(r, "available"), "bare"), "empty"), "nothing"))
       \/ \E status \in {"available", "empty"} : Becomes(c, NextVendor(Attempt(r, status), "empty"))
       \/ Becomes(c, Garbled(r))

(* An empty report is an answer, and one of an unexpected form too. *)
AlphaReport(c) ==
    LET r == call[c] IN
    /\ Fetching(c, "alpha_vantage") /\ r.tool \in {"profile", "statements"}
    /\ \/ Becomes(c, Done(Reported(r, Present(r)), "rows"))
       \/ \E status \in {"available", "empty"} :
            LET kind == IF r.tool = "statements" THEN "usable" ELSE "bare"
            IN  Becomes(c, Done(Attempt(Observed(Attempt(r, status), kind), "empty"), "nothing"))
       \/ Becomes(c, Done(Attempt(Attempt(r, "available"), "unavailable"), "unavailable"))
       \/ r.tool = "statements" /\ Becomes(c, Garbled(r))

AlphaInsiders(c) ==
    LET r == call[c] IN
    /\ Fetching(c, "alpha_vantage") /\ r.tool = "insiders"
    /\ \/ Becomes(c, Done(Reported(r, Present(r)), "rows"))
       \/ Becomes(c, Done(Attempt(Observed(Attempt(r, "available"), "bare"), "empty"), "nothing"))
       \/ Becomes(c, Done(Attempt(Attempt(r, "available"), "unavailable"), "unavailable"))

(* It searches the news in the window itself; undated items are dropped. *)
AlphaNews(c) ==
    LET r == call[c]
        found == {p \in Published \ Undated : p <= now /\ InWindow(p, Start(r), r.date)}
        k == [Attempt(r, "available") EXCEPT !.found = found]
    IN
    /\ Fetching(c, "alpha_vantage") /\ r.tool \in {"news", "world"}
    /\ \/ Becomes(c, IF found # {} THEN Done(Observed(k, "usable"), "rows")
                     ELSE Done(Attempt(Observed(k, "bare"), "empty"), "nothing"))
       \/ Becomes(c, Done(Attempt(Attempt(r, "available"), "unavailable"), "unavailable"))

-----------------------------------------------------------------------------
(* AkShare: reports of A-shares in frames, one after the other.            *)

(* The library may not be installed, and a request may fail. *)
AkShareFails(c) ==
    LET r == call[c] IN
    /\ Fetching(c, "akshare")
    /\ \/ Becomes(c, NextVendor(Attempt(r, "not_configured"), "unconfigured"))
       \/ Becomes(c, NextVendor(Unheard(Missed(r)), "failed"))

(* A past run gets what was filed by its date. *)
FiledBy(r) == {d \in Days : d <= (IF IsHistorical(r.date) THEN r.date ELSE HostDay[now])}

Filed(r) == {Reported(r, r.rows \cup {d}) : d \in FiledBy(r)}

(* It gets nothing of a frame that names no day of filing. *)
Unfiled(r) ==
    IF IsHistorical(r.date) THEN {Observed(Attempt(r, "available"), "withheld")} ELSE {}

(* After the first of a profile's two frames comes the second. *)
NextFrame(r) ==
    CASE r.round = 1 -> [r EXCEPT !.round = 2]
      [] r.round # 1 /\ r.rows # {} -> Done(r, "rows")
      [] r.round # 1 /\ r.rows = {} /\ "withheld" \in r.sources -> Done(r, "withheld")
      [] OTHER -> NextVendor(r, "empty")

(* A frame of which nothing was filed in time ends the attempt. *)
AkShareProfile(c) ==
    LET r == call[c] IN
    /\ Fetching(c, "akshare") /\ r.tool = "profile"
    /\ \/ \E k \in {Attempt(r, "empty")} \cup Filed(r) \cup Unfiled(r) : Becomes(c, NextFrame(k))
       \/ IsHistorical(r.date) /\ Becomes(c, NextVendor(Attempt(r, "available"), "empty"))

(* Where Eastmoney's statement has nothing to offer Sina's is asked for. *)
NextStatement(r) == IF r.round = 1 THEN [r EXCEPT !.round = 2] ELSE NextVendor(r, "empty")

AkShareStatement(c) ==
    LET r == call[c] IN
    /\ Fetching(c, "akshare") /\ r.tool = "statements"
    /\ \/ \E k \in Filed(r) : Becomes(c, Done(k, "rows"))
       \/ \E k \in Unfiled(r) : Becomes(c, Done(k, "withheld"))
       \/ \E status \in {"empty", "available"} : Becomes(c, NextStatement(Attempt(r, status)))

-----------------------------------------------------------------------------
(* Discussion: StockTwits, and Reddit's subreddits one after the other.    *)

StockTwits(c) ==
    LET r == call[c] IN
    /\ Fetching(c, "stocktwits")
    /\ \/ Becomes(c, [r EXCEPT !.at = "select", !.items = Feed(r)])
       \/ Becomes(c, Unanswered(r))

SelectTalk(c) ==
    LET r == call[c]
        k == [r EXCEPT !.found = Selected(r)]
    IN
    /\ r.at = "select" /\ r.tool = "talk"
    /\ Becomes(c, IF k.found # {} THEN Done(Observed(Attempt(k, "available"), "usable"), "rows")
                  ELSE Done(Attempt(k, "empty"), IF CoverageGap(r) THEN "unavailable" ELSE "nothing"))

(* The posts of all subreddits, with a word on each that gave none. *)
Discussion(r) ==
    CASE r.found # {} /\ r.outcomes = {} -> "rows"
      [] r.found # {} /\ r.outcomes # {} -> "some"
      [] r.found = {} /\ "unavailable" \in r.outcomes -> "unavailable"
      [] OTHER -> "nothing"

NextSubreddit(r) ==
    IF r.round < Len(Subreddits) THEN [r EXCEPT !.at = "fetch", !.round = @ + 1, !.items = {}]
    ELSE Done(r, Discussion(r))

Posts(r) ==
    [Attempt(r, IF Feed(r) = {} THEN "empty" ELSE "available") EXCEPT
        !.at = "select", !.items = Feed(r)]

Reddit(c) ==
    LET r == call[c] IN
    /\ Fetching(c, "reddit")
    /\ \/ Becomes(c, Posts(r))
       \/ Becomes(c, [Missed(r) EXCEPT !.at = "rss"])

(* The search has a second endpoint. *)
RedditRss(c) ==
    LET r == call[c] IN
    /\ r.at = "rss"
    /\ \/ Becomes(c, Posts(r))
       \/ Becomes(c, NextSubreddit([Unheard(Missed(r)) EXCEPT !.outcomes = @ \cup {"unavailable"}]))

SelectPosts(c) ==
    LET r == call[c]
        kept == Selected(r)
        notice == IF CoverageGap(r) THEN "unavailable" ELSE "nothing"
    IN
    /\ r.at = "select" /\ r.tool = "posts"
    /\ Becomes(c, NextSubreddit(
            IF kept # {} THEN [Observed(r, "usable") EXCEPT !.found = @ \cup kept]
                         ELSE [r EXCEPT !.outcomes = @ \cup {notice}]))

-----------------------------------------------------------------------------
(* The Chinese sentiment sources, one after the other: the company's name, *)
(* news and a search for them, both once more for the time before if there *)
(* were none, the keywords of the day, and posts.  A source that fails is  *)
(* passed over.                                                            *)

MoodSources == <<"name", "news", "search", "older news", "older search", "keywords", "comments">>

IsPast(r) == r.date < HostDay[r.started]

(* Name and keywords are those of the present. *)
Following(r) ==
    LET next == IF MoodSources[r.round] = "search" /\ r.found # {} THEN 6 ELSE r.round + 1
    IN  IF next = 6 /\ IsPast(r) THEN 7 ELSE next

(* Whatever was found, a text is put together. *)
NextSource(r, status) ==
    IF r.round < Len(MoodSources) THEN [r EXCEPT !.round = Following(r), !.tries = 0]
    ELSE Done(r, IF r.found # {} \/ r.rows # {} THEN "rows"
                 ELSE IF status = "empty" THEN "blank" ELSE "text")

MoodName(c) ==
    LET r == call[c] IN
    /\ Fetching(c, "sentiment") /\ MoodSources[r.round] = "name"
    /\ IF IsPast(r) THEN Becomes(c, NextSource(r, None))
       ELSE \/ Becomes(c, NextSource(Missed(r), "unavailable"))
            \/ Becomes(c, NextSource(Attempt(r, "empty"), "empty"))
            \/ \E named \in BOOLEAN :
                 Becomes(c, NextSource([Attempt(r, "available") EXCEPT !.named = named], "available"))

(* By the Chinese date; undated items are dropped. *)
InChina(r, before) ==
    {p \in Feed(r) \ Undated : Start(r) - before <= ChinaDay[p] /\ ChinaDay[p] <= r.date}

Before(r) == IF MoodSources[r.round] \in {"older news", "older search"} THEN RecentDays ELSE 0

(* Items were received; those of the days asked for are kept, or there are *)
(* none of these days.                                                     *)
Collected(r) ==
    {LET k == Attempt([r EXCEPT !.found = @ \cup kept], "available")
     IN  IF kept # {} THEN Observed(k, "usable") ELSE k : kept \in {InChina(r, Before(r)), {}}}

MoodItems(c) ==
    LET r == call[c]
        source == MoodSources[r.round]
    IN
    /\ Fetching(c, "sentiment") /\ source \in {"news", "older news", "comments"}
    /\ \/ Becomes(c, NextSource(Missed(r), "unavailable"))
       \/ /\ source # "comments"
          /\ Becomes(c, NextSource(Attempt(r, "not_configured"), "not_configured"))
       \/ Becomes(c, NextSource(Attempt(r, "empty"), "empty"))
       \/ \E k \in Collected(r) : Becomes(c, NextSource(k, "available"))

(* What is searched for: the code and, where it is known, the name and     *)
(* both together, each in a request of its own.                            *)
Keywords(r) == IF r.named THEN 3 ELSE 1

NextKeyword(r, status) ==
    IF r.tries + 1 < Keywords(r) THEN [r EXCEPT !.tries = @ + 1] ELSE NextSource(r, status)

MoodSearch(c) ==
    LET r == call[c] IN
    /\ Fetching(c, "sentiment") /\ MoodSources[r.round] \in {"search", "older search"}
    /\ \/ Becomes(c, NextKeyword(Missed(r), "unavailable"))
       \/ Becomes(c, NextKeyword(Attempt(r, "empty"), "empty"))
       \/ \E k \in Collected(r) : Becomes(c, NextKeyword(k, "available"))

(* The keywords of the day are not looked at for their date: the ledger    *)
(* notices when it is past the run's.                                      *)
MoodKeywords(c) ==
    LET r == call[c]
        today == ChinaDay[now]
        k == [Reported(r, {today}) EXCEPT !.sources = @ \cup (IF today > r.run THEN {"future"} ELSE {})]
    IN
    /\ Fetching(c, "sentiment") /\ MoodSources[r.round] = "keywords"
    /\ \/ Becomes(c, NextSource(Missed(r), "unavailable"))
       \/ \E status \in {"not_configured", "empty"} : Becomes(c, NextSource(Attempt(r, status), status))
       \/ Becomes(c, NextSource(k, "available"))

-----------------------------------------------------------------------------
(* The specification.                                                      *)

Tick ==
    /\ now < MaxTime
    /\ now' = now + 1
    /\ UNCHANGED <<file, call>>

Step(c) ==
    \/ Enter(c) \/ Unsupported(c) \/ ReadFile(c) \/ JudgeFile(c) \/ WriteFile(c)
    \/ Serve(c) \/ Assess(c) \/ Calculate(c)
    \/ YahooRefuses(c) \/ YahooIsEmpty(c) \/ YahooPrices(c) \/ YahooProfile(c)
    \/ YahooStatement(c) \/ YahooInsiders(c) \/ YahooNews(c) \/ Probe(c)
    \/ SelectNews(c) \/ SelectWorld(c) \/ Tencent(c) \/ Eastmoney(c)
    \/ AlphaRefuses(c) \/ AlphaPrices(c) \/ AlphaIndicator(c) \/ AlphaReport(c)
    \/ AlphaInsiders(c) \/ AlphaNews(c)
    \/ AkShareFails(c) \/ AkShareProfile(c) \/ AkShareStatement(c)
    \/ StockTwits(c) \/ SelectTalk(c) \/ Reddit(c) \/ RedditRss(c) \/ SelectPosts(c)
    \/ MoodName(c) \/ MoodItems(c) \/ MoodSearch(c) \/ MoodKeywords(c)

Next == Tick \/ \E c \in Calls : Ask(c) \/ Step(c)

Spec == Init /\ [][Next]_vars

(* A call runs on a thread of its own, and every request has a timeout. *)
FairSpec == Spec /\ \A c \in Calls : WF_vars(Step(c))

-----------------------------------------------------------------------------
(* Properties.                                                             *)

(* What a feed could have told. *)
Told(tool) ==
    (IF tool = "posts" THEN UNION {Subreddits[s] : s \in DOMAIN Subreddits} ELSE Published)
        \ Undated

(* That there is nothing is said only where it was seen: the router says   *)
(* it when every vendor of the chain was heard, and a feed when really no  *)
(* dated item was in the window.  Reddit's search ends in the middle of    *)
(* its first day, and of a window of a single day only the part that is    *)
(* over can have been seen.                                                *)
AbsenceIsObserved ==
    \A c \in Calls : LET r == call[c] IN
        /\ r.answer = "no_data" => r.silent = {}
        /\ r.answer = "nothing" /\ r.tool \in FeedTools =>
             \A p \in Told(r.tool) :
                p <= r.started /\ InWindow(p, Start(r), r.date)
                => UtcDay[p] = Start(r) /\ (r.tool = "posts" \/ FeedDays = 0)

(* No answer holds a row, an item or a report of a day after the run's,    *)
(* also when another run has filled the file with later days, a vendor     *)
(* sends all it has, or the day has already begun elsewhere.               *)
NothingFromAfterTheRun ==
    \A c \in Calls : LET r == call[c] IN
        r.answer \in {"rows", "some"} =>
            /\ \A d \in r.rows : d <= r.run
            /\ \A p \in r.found : UtcDay[p] <= r.run

(* A record is marked available only if every request for its data was     *)
(* answered: a retry, and a source that failed, show.                      *)
AvailableIsUndisturbed ==
    \A c \in Calls : call[c].status = "available" => ~call[c].missed

(* Whatever the vendors do, a call that was made comes to an answer. *)
EveryCallIsAnswered ==
    \A c \in Calls : call[c].at = "asked" ~> call[c].at = "done"

(* The verifier calculates with finished rows only: a row it uses, once    *)
(* its session was over before the request, was downloaded after the       *)
(* session.                                                                *)
OnlySettledRowsCount ==
    \A c \in Calls : \A d \in call[c].used :
        Settles[d] <= call[c].started => Settles[d] <= call[c].made
=============================================================================
