---------------------------- MODULE MCSourceCalls ----------------------------
(* Small instances of Vendors, and with it of SourceCalls, for TLC. *)
EXTENDS Vendors, TLC

CONSTANTS c1, c2

(* Days 0 and 1 are past; day 2 is in session at the exchange at first,    *)
(* day 3 afterwards.  The host is in China, half a day ahead.              *)
TheHostDay == (0 :> 3) @@ (1 :> 3) @@ (2 :> 4)
TheSourceDay == (0 :> 2) @@ (1 :> 3) @@ (2 :> 3)
TheUtcDay == [t \in -4 .. 2 |-> CASE t < -2 -> 0 [] t < 0 -> 1 [] t = 0 -> 2 [] OTHER -> 3]
TheChinaDay ==
    [t \in -4 .. 2 |-> CASE t = -4 -> 0 [] t < -1 -> 1 [] t = -1 -> 2 [] t = 2 -> 4 [] OTHER -> 3]
TheOpens == (0 :> -4) @@ (1 :> -2) @@ (2 :> 0) @@ (3 :> 1) @@ (4 :> 3) @@ (5 :> 5)
TheSettles == (0 :> -2) @@ (1 :> 0) @@ (2 :> 1) @@ (3 :> 3) @@ (4 :> 5) @@ (5 :> 7)

ThePublished == {-4, -2, -1, 1}
TheUndated == {-2}
TheQueries == <<{-4, -1}, {-2, 1}>>
TheSubreddits == <<{-4, -1}, {-2, 1}>>

(* The configured defaults, with Alpha Vantage behind them. *)
TheChain ==
    [t \in Tools |->
        CASE t = "snapshot" -> <<"yfinance">>
          [] t = "prices" -> <<"eastmoney", "yfinance", "alpha_vantage">>
          [] t \in {"profile", "statements"} -> <<"akshare", "yfinance", "alpha_vantage">>
          [] t = "talk" -> <<"stocktwits">>
          [] t = "posts" -> <<"reddit">>
          [] t = "mood" -> <<"sentiment">>
          [] OTHER -> <<"yfinance", "alpha_vantage">>]

Request(tool, mainland, run, asked) ==
    [tool |-> tool, mainland |-> mainland, run |-> run, asked |-> asked]

(* A run of day 5 is not begun within these moments. *)
Alone(request) == (c1 :> request) @@ (c2 :> Request("talk", FALSE, 5, 5))

(* Prices of runs of two days share the file; other calls share nothing.   *)
(* A model may name a day after the run's.                                 *)
ThePlans ==
    {(c1 :> Request("snapshot", FALSE, 2, 3)) @@ (c2 :> Request("snapshot", FALSE, 3, 3))}
    \cup {Alone(Request(t, FALSE, run, 3)) : t \in Tools \ {"snapshot", "mood"}, run \in {2, 3}}
    \cup {Alone(Request(t, TRUE, run, run)) :
            t \in {"snapshot", "prices", "profile", "statements", "mood"}, run \in {2, 3}}
==============================================================================
