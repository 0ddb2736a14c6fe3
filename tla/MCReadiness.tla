---------------------------- MODULE MCReadiness ----------------------------
(* Instances of Readiness for TLC. *)
EXTENDS Readiness, TLC

(* Days of two moments; a zone ahead of UTC, one behind it, and one whose   *)
(* name is not admitted.  The host is ahead of UTC.                         *)
Zones == [east |-> 1, west |-> -1]

Warmup == [short |-> 1, long |-> 2]

Row(day, zone, midnight, values) ==
    [day |-> day, zone |-> zone, midnight |-> midnight, values |-> values,
     origin |-> IF zone = None THEN "unknown" ELSE "timestamp"]

Good(day, zone) == Row(day, zone, TRUE, "one")

AnyRow == {Row(day, zone, midnight, values) :
              day \in 0 .. 2, zone \in {"east", "west", "odd", None},
              midnight \in BOOLEAN, values \in {"one", "other", "broken"}}

Yahoo(table) == [table |-> table, repeated |-> FALSE, undated |-> 0, basis |-> "adjusted",
                 carried |-> "adjusted", failing |-> {}]

Series(zone) == Yahoo(SetToBag({Good(0, zone), Good(1, zone)}))

(* One row more, one row changed, one row twice, and what else may differ.  *)
Deliveries(zone) ==
    {Yahoo(SetToBag({Good(0, zone), Good(1, zone), row})) : row \in AnyRow}
        \cup {Yahoo(SetToBag({Good(0, zone), row})) : row \in AnyRow}
        \cup {Yahoo(SetToBag({row})) : row \in {row \in AnyRow : row.values # "other"}}
        \cup {Yahoo(SetToBag({Good(0, zone)}) (+) SetToBag({row}) (+) SetToBag({row})) :
                  row \in AnyRow}
        \cup {Yahoo(SetToBag({Good(-1, zone), Good(0, zone)}))}
        \cup {[Series(zone) EXCEPT !.repeated = TRUE],
              [Series(zone) EXCEPT !.undated = 1], [Series(zone) EXCEPT !.failing = {"long"}],
              [Series(zone) EXCEPT !.basis = None, !.carried = None],
              [Series(zone) EXCEPT !.basis = "forward", !.carried = None]}

Run(analysts, feed, statuses, snapshots, others, questions) ==
    [analysts |-> analysts, feed |-> feed, statuses |-> statuses, snapshots |-> snapshots,
     others |-> others, questions |-> questions]

Either == {"available", "partial"}

(* The vendor's table grew, lost a row, was corrected or changed its basis  *)
(* between two snapshots of one run.                                        *)
Revisions ==
    {{Series("east"), d} :
        d \in {[Series("east") EXCEPT !.basis = "forward", !.carried = None],
               [Series("east") EXCEPT !.undated = 1],
               [Series("east") EXCEPT !.repeated = TRUE],
               Yahoo(SetToBag({Good(0, "east"), Row(1, "east", TRUE, "other")})),
               Yahoo(SetToBag({Good(0, "east"), Row(1, "east", TRUE, "broken")})),
               Yahoo(SetToBag({Good(0, "east"), Good(1, "east"), Good(2, "east")})),
               Yahoo(SetToBag({Good(0, "west"), Good(1, "west")})),
               Yahoo(SetToBag({Good(0, "east"), Row(1, "east", FALSE, "one")})),
               Yahoo(SetToBag({Good(0, "east"), Good(1, "east")}) (+) SetToBag({Good(1, "east")})),
               Yahoo(SetToBag({Good(1, "east")}))}}

-----------------------------------------------------------------------------
(* Numbers: 2.5, -0.5 and one that is too long to be compared.              *)

Number(digits, fraction, exponent) ==
    [digits |-> digits, fraction |-> fraction, exponent |-> exponent]

Cells == [one |-> [numeric |-> TRUE, literal |-> Number(25, 1, 0)],
          other |-> [numeric |-> TRUE, literal |-> Number(-5, 1, 0)],
          broken |-> [numeric |-> FALSE]]

Literals == {Number(2, 0, 0), Number(3, 0, 0), Number(25, 1, 0), Number(250, 2, 0), Number(25, 0, -1),
             Number(3, 0, 1), Number(-1, 0, 0), Number(0, 0, 0), Number(-5, 1, 0), Number(12345, 0, 0)}

(* A selection, and whether it is the whole of a number.                    *)
Selection(token, before, after, scaled, whole) ==
    [token |-> token, before |-> before, after |-> after, scaled |-> scaled, whole |-> whole]

Whole == Selection(TRUE, <<"blank", "letter">>, <<"point", "blank">>, FALSE, TRUE)

Selections ==
    {Whole,
     Selection(TRUE, <<"letter">>, <<>>, FALSE, TRUE),                      \* Close2.5
     Selection(FALSE, <<"digit">>, <<>>, FALSE, FALSE),                     \* a part of a number
     Selection(TRUE, <<"point">>, <<>>, FALSE, FALSE),                      \* .5
     Selection(TRUE, <<>>, <<"comma", "digit">>, FALSE, FALSE),             \* 1,250
     Selection(TRUE, <<"thin space", "digit">>, <<>>, FALSE, FALSE),        \* 1 250
     Selection(TRUE, <<"sign">>, <<>>, FALSE, FALSE),                       \* a typographic minus
     Selection(TRUE, <<>>, <<"exponent", "letter">>, FALSE, FALSE),
     Selection(TRUE, <<>>, <<"blank", "letter">>, TRUE, FALSE)}             \* 2.5 million

Binding(text, after, exact) ==
    [given |-> TRUE, text |-> text, before |-> <<>>, after |-> after, exact |-> exact]

NotBound == [given |-> FALSE]
Unbound == [instrument |-> NotBound, row_date |-> NotBound, units |-> NotBound]

(* Right, wrong, a part of a longer word, and units that no vendor states.  *)
Bindings ==
    {Unbound,
     [Unbound EXCEPT !.instrument = Binding("instrument", <<"blank">>, TRUE)],
     [Unbound EXCEPT !.instrument = Binding("instrument", <<"letter">>, FALSE)],
     [Unbound EXCEPT !.instrument = Binding("another", <<>>, FALSE)],
     [Unbound EXCEPT !.row_date = Binding(0, <<>>, FALSE)],
     [Unbound EXCEPT !.units = Binding("units", <<>>, FALSE)]}

Request(record, path, date, field, literal, places, selection, bindings) ==
    [record |-> record, literal |-> literal, places |-> places, selection |-> selection,
     bindings |-> bindings, selector |-> [path |-> path, date |-> date, field |-> field]]

Paths == {"rows", "recent_closes", "latest_ohlcv"}

Questions ==
    [none |-> {},
     few |-> {Request(record, "rows", 1, "Close", Number(25, 1, 0), 1, Whole, Unbound) :
                 record \in 1 .. 2},
     all |->
        {Request(1, path, date, "Close", literal, places, Whole, Unbound) :
            path \in Paths, date \in 0 .. 1, literal \in Literals, places \in 0 .. 2}
        \cup {Request(1, path, date, field, Number(25, 1, 0), 1, Whole, Unbound) :
                 path \in Paths, date \in 0 .. 1, field \in {"Date", "Open", "Rumour"}}
        \cup {Request(1, path, None, "Close", Number(25, 1, 0), 1, Whole, Unbound) : path \in Paths}
        \cup {Request(1, "rows", 1, "Close", Number(25, 1, 0), 1, selection, bindings) :
                 selection \in Selections, bindings \in Bindings}]

Quoted ==
    {{Series("east")},
     {[Series("east") EXCEPT !.repeated = TRUE]},
     {Yahoo(SetToBag({Good(0, "east"), Row(1, "east", TRUE, "other")}))},
     {Yahoo(SetToBag({Good(0, "east"), Row(1, "east", TRUE, "broken")}))},
     {Yahoo(SetToBag({Good(0, "east"), Good(1, "east"), Row(1, "east", TRUE, "other")}))},
     {Yahoo(SetToBag({Good(0, "east")}) (+) SetToBag({Good(1, "east")}) (+) SetToBag({Good(1, "east")}))}}

ResearchPlans ==
    {Run({"market"}, {d}, {"available"}, 1, 0, "none") : d \in Deliveries("east") \cup Deliveries("west")}
        \cup {Run({"market"}, feed, {"available"}, 2, 0, "none") : feed \in Revisions}
        \cup {Run({"market", "news"}, {Series("east")}, Either, 1, 1, "none"), Run({"news"}, {}, {}, 0, 2, "none"),
              Run({"market"}, {Series("east")}, Either, 1, 1, "few")}
        \cup {Run({"market"}, feed, Either, 1, 0, "all") : feed \in Quoted}

(* What is said of the selections and bindings above agrees with the rules. *)
ASSUME ReadersAgree
=============================================================================
