--------------------------- MODULE SavedNumbers ---------------------------
(* The comparison of a number that is written in a report with one that was *)
(* saved in a table: exact decimals, rounded half up, and the rules for     *)
(* which characters of a text are a whole number.                           *)
(*                                                                          *)
(* A literal is its digits read as an integer, how many of them follow the  *)
(* point, and its exponent.  Of the text around a selection two characters  *)
(* on each side are kept, each as its class, the nearest first.             *)
EXTENDS Integers, Sequences, FiniteSets

CONSTANTS
    MaxDigits,     \* digits of a literal that is still compared
    MaxExponent,   \* its exponent
    MaxPlaces      \* decimal places that a review may ask for

ASSUME LimitsAreRight == {MaxDigits, MaxExponent, MaxPlaces} \subseteq Nat

Magnitude(n) == IF n < 0 THEN -n ELSE n

-----------------------------------------------------------------------------
(* Decimals.                                                               *)

IsLiteral(n) == n.digits \in Int /\ n.fraction \in Nat /\ n.exponent \in Int

(* The powers of ten.                                                      *)
Ten[n \in Nat] == IF n = 0 THEN 1 ELSE 10 * Ten[n - 1]

Fits(literal) ==
    /\ Magnitude(literal.digits) < Ten[MaxDigits]
    /\ literal.fraction < MaxDigits
    /\ Magnitude(literal.exponent) <= MaxExponent

DecimalParts(literal) ==
    [coefficient |-> literal.digits, power |-> literal.exponent - literal.fraction]

(* Fault: a remainder of exactly one half is dropped. *)
RoundedHalfDown(unsigned, divisor) ==
    unsigned \div divisor + IF 2 * (unsigned % divisor) > divisor THEN 1 ELSE 0

RoundedHalfUp(unsigned, divisor) ==
    unsigned \div divisor + IF 2 * (unsigned % divisor) >= divisor THEN 1 ELSE 0

(* Ties go away from zero: the magnitude is rounded.                        *)
RoundSaved(literal, places) ==
    LET n == DecimalParts(literal)
        shift == n.power + places
        unsigned == Magnitude(n.coefficient)
        rounded == IF shift >= 0 THEN unsigned * Ten[shift]
                                 ELSE RoundedHalfUp(unsigned, Ten[-shift])
    IN  [coefficient |-> IF n.coefficient < 0 THEN -rounded ELSE rounded, power |-> -places]

EqualDecimal(m, n) ==
    LET common == IF m.power < n.power THEN m.power ELSE n.power
    IN  m.coefficient * Ten[m.power - common] = n.coefficient * Ten[n.power - common]

-----------------------------------------------------------------------------
(* Selections.                                                             *)

Separators == {"point", "comma", "thin space"}

(* A separator between the selection and a digit groups or continues it.    *)
Grouped(side) == Len(side) = 2 /\ side[1] \in Separators /\ side[2] = "digit"

Next1(side) == IF side = <<>> THEN "edge" ELSE side[1]

SupportedNeighbours(before, after) ==
    /\ Next1(before) \notin {"sign", "underscore", "digit", "point"}
    /\ Next1(after) \notin {"underscore", "exponent", "digit"}
    /\ ~Grouped(before) /\ ~Grouped(after)

(* A selection is a number if it is a token of the number grammar with      *)
(* nothing around it that would make it another number, nor a unit of scale.*)
NumericSelection(s) == s.token /\ SupportedNeighbours(s.before, s.after) /\ ~s.scaled

SupportedContext(s) ==
    {Next1(s.before), Next1(s.after)} \cap {"underscore", "digit", "letter", "exponent"} = {}

-----------------------------------------------------------------------------
(* Tables.                                                                 *)

(* A cell, or why there is none.  A table is a set of rows that are told    *)
(* apart by more than their labels; it may name a column twice.  A label    *)
(* that is an integer is a date, and any other names no row, though a row   *)
(* may have it.                                                             *)
Missing(reason) == [found |-> FALSE, reason |-> reason]

Found(literal) == [found |-> TRUE, literal |-> literal]

AmbiguousRows(table) == \E r, s \in table.rows : r # s /\ r.date = s.date

Cell(table, selector) ==
    LET named == {row \in table.rows : row.date = selector.date}
        cell == (CHOOSE row \in named : TRUE).cells[selector.field]
    IN  IF ~table.present THEN Missing("table_missing")
        ELSE IF table.repeated THEN Missing("table_ambiguous")
        ELSE IF AmbiguousRows(table) THEN Missing("row_ambiguous")
        ELSE IF named = {} \/ selector.date \notin Int THEN Missing("row_missing")
        ELSE IF selector.field \notin table.fields THEN Missing("field_missing")
        ELSE IF ~cell.numeric THEN Missing("field_not_numeric")
        ELSE IF ~Fits(cell.literal) THEN Missing("number_unsupported")
        ELSE Found(cell.literal)

-----------------------------------------------------------------------------
(* Reviews.                                                                *)

(* What a bound passage says of the context; `expected' is empty if the     *)
(* context is not known.                                                    *)
ContextResult(binding, expected) ==
    IF ~binding.given THEN "unreviewed"
    ELSE IF expected = {} \/ ~SupportedContext(binding) THEN "missing"
    ELSE IF binding.text \in expected THEN "match" ELSE "mismatch"

Result(status, reason) == [status |-> status, reason |-> reason]

(* Differing comes before missing, and both before what a reader must judge.*)
Derive(request, cell, contexts) ==
    LET supported == NumericSelection(request.selection)
        comparable == cell.found /\ supported /\ Fits(request.literal)
        equal == EqualDecimal(DecimalParts(request.literal),
                              RoundSaved(cell.literal, request.places))
    IN  IF "mismatch" \in contexts THEN Result("mismatch", "context_mismatch")
        ELSE IF comparable /\ ~equal THEN Result("mismatch", "value_mismatch")
        ELSE IF "missing" \in contexts THEN Result("missing", "context_missing")
        ELSE IF ~cell.found /\ cell.reason # "number_unsupported"
        THEN Result("missing", cell.reason)
        ELSE IF ~supported THEN Result("manual_inference", "selection_unsupported")
        ELSE IF ~comparable THEN Result("manual_inference", "number_unsupported")
        ELSE Result("match", "value_match")
=============================================================================
