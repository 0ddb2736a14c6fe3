----------------------- MODULE MCReferenceEvaluation -----------------------
(* A small instance of ReferenceEvaluation for TLC. *)
EXTENDS ReferenceEvaluation, TLC

CONSTANTS east, west, coin, odd

(* A day is three moments.  Days in the east begin a moment before UTC's, *)
(* in the west two moments after; the host is in the east.                 *)
DayOf(t, ahead) == (t + ahead + 3) \div 3 - 1

TheUtcDay == [t \in Moments |-> DayOf(t, 0)]
TheHostDay == [t \in Moments |-> DayOf(t, 1)]
TheLocalDay ==
    (east :> [t \in Moments |-> DayOf(t, 1)]) @@ (west :> [t \in Moments |-> DayOf(t, -2)])
    @@ (coin :> TheUtcDay)

TheDays == -1 .. 5
Begins(d, ahead) == 3 * d - ahead

(* Sessions end before their day does; coins are traded around the clock.  *)
TheOpens ==
    (east :> [d \in TheDays |-> Begins(d, 1) + 1]) @@ (west :> [d \in TheDays |-> Begins(d, -2) + 1])
    @@ (coin :> [d \in TheDays |-> Begins(d, 0)])
TheFinal ==
    (east :> [d \in TheDays |-> Begins(d, 1) + 2]) @@ (west :> [d \in TheDays |-> Begins(d, -2) + 2])
    @@ (coin :> [d \in TheDays |-> Begins(d, 0) + 3])

TheSessions == (east :> TheDays) @@ (west :> TheDays) @@ (coin :> TheDays)

(* Nobody understands the last name; the first release did not care. *)
TheTarget == (east :> east) @@ (west :> west) @@ (coin :> coin) @@ (odd :> None)
TheOldTarget == [TheTarget EXCEPT ![odd] = coin]
=============================================================================
