--------------------------- MODULE FactOperators ---------------------------
(***************************************************************************)
(* The bounded computation protocol of household questions                 *)
(* (facts/operators.py): the registry of operations and what each accepts, *)
(* the predicates of filters, the aggregations, and calendar arithmetic.   *)
(*                                                                         *)
(* A stored value is [kind, v]; a missing one is NoValue.  Dates are       *)
(* <<year, month, day>>.  The failure of an operator (the code raises) is  *)
(* NoValue too: no operator returns a missing value otherwise.             *)
(***************************************************************************)
EXTENDS Integers, Sequences, FiniteSets, SequencesExt

NoValue == [kind |-> "none", v |-> 0]
IsMissing(x) == x.kind = "none"
IntValue(n) == [kind |-> "integer", v |-> n]
TextValue(s) == [kind |-> "string", v |-> s]
DateValue(d) == [kind |-> "date", v |-> d]

----------------------------------------------------------------------------
(* What each operation accepts. *)

Temporal == {"date", "datetime"}
Numeric == {"integer", "number"}
AnyKind == {"any"}

Definition(shape, field, kinds, ordered, required) ==
  [shape |-> shape, field |-> field, kinds |-> kinds,
   ordered |-> ordered, required |-> required]

(* The operations a question may use, by name (FACT_OPERATORS). *)
Operators ==
  LET plan == Definition("plan", "none", AnyKind, FALSE, {})
      listed(field) == Definition("collection", field, AnyKind, FALSE, {})
      extreme == Definition("collection", "required", Numeric \cup Temporal, FALSE, {})
      sorted == Definition("collection", "required", AnyKind, TRUE, {})
      total == Definition("collection", "required", Numeric, FALSE, {})
      transform(kinds, required) ==
        Definition("scalar", "required", kinds, FALSE, required)
  IN  [select |-> plan, resolve_reference |-> plan, inspect |-> plan,
       same_entity |-> plan, count |-> listed("none"),
       first |-> listed("optional"), last |-> listed("optional"),
       latest |-> sorted, earliest |-> sorted,
       sum |-> total, average |-> total, min |-> total, max |-> total,
       argmin |-> extreme, argmax |-> extreme,
       date_add |-> transform(Temporal, {"amount", "mode"}),
       date_difference |-> transform(Temporal, {"mode"}),
       annual_occurrence |-> transform(Temporal, {}),
       unit_conversion |-> transform(Numeric, {"from_unit", "to_unit"})]

(* Whether a value of this kind may stand where `accepted` is declared. *)
KindFits(actual, accepted) ==
  \/ actual \in {"unknown", "any"}
  \/ "any" \in accepted
  \/ actual \in accepted
  \/ actual = "integer" /\ "number" \in accepted

(* Whether operation op, defined as d, accepts this use of it; params      *)
(* holds the options the request gives, by name.                           *)
OperatorAccepts(d, op, hasField, kind, hasOrder, params) ==
  LET mode == IF "mode" \in DOMAIN params THEN params.mode ELSE "none"
  IN  /\ d.field = "required" => hasField
      /\ d.field = "none" => ~hasField
      /\ KindFits(kind, d.kinds)
      /\ d.ordered = hasOrder
      /\ d.ordered => KindFits(kind, Temporal)
      /\ d.required \subseteq DOMAIN params
      /\ op = "date_difference" => mode \in {"years", "months", "days", "seconds"}
      /\ op = "date_add" => mode \in {"years", "months", "days"}
      /\ op = "annual_occurrence" => mode \in {"none", "days"}

(* The kind of a column of values; a mixed one is unknown. *)
InferFieldKind(values) ==
  LET kinds == {v.kind : v \in values} \ {"none"}
  IN  IF kinds # {} /\ kinds \subseteq Numeric
      THEN IF "number" \in kinds THEN "number" ELSE "integer"
      ELSE IF Cardinality(kinds) = 1 THEN CHOOSE k \in kinds : TRUE ELSE "unknown"

----------------------------------------------------------------------------
(* Predicates.  Values of kinds that do not compare satisfy no ordering.   *)

DateLess(a, b) ==
  \/ a[1] < b[1]
  \/ a[1] = b[1] /\ a[2] < b[2]
  \/ a[1] = b[1] /\ a[2] = b[2] /\ a[3] < b[3]

Less(l, r) ==
  /\ l.kind = r.kind
  /\ \/ l.kind = "integer" /\ l.v < r.v
     \/ l.kind = "date" /\ DateLess(l.v, r.v)

Same(l, r) == l.kind = r.kind /\ l.v = r.v

(* For "in" and "date_range" the operand is a sequence of values. *)
EvaluatePredicate(op, l, r) ==
  CASE op = "eq" -> Same(l, r)
    [] op = "ne" -> ~Same(l, r)
    [] op = "lt" -> Less(l, r)
    [] op = "lte" -> Less(l, r) \/ (Same(l, r) /\ l.kind \in {"integer", "date"})
    [] op = "gt" -> Less(r, l)
    [] op = "gte" -> Less(r, l) \/ (Same(l, r) /\ l.kind \in {"integer", "date"})
    [] op = "in" -> \E i \in DOMAIN r : Same(l, r[i])
    [] op = "exists" -> ~IsMissing(l) = (IsMissing(r) \/ r.v)
    [] op = "date_range" -> /\ Len(r) = 2
                            /\ ~Less(l, r[1]) /\ Less(l, r[2])

----------------------------------------------------------------------------
(* Aggregations over the values of a list of records.                      *)

IsNumber(v) == v.kind \in Numeric

SumOf(values) == FoldLeft(LAMBDA total, x : total + x.v, 0, values)

Extreme(values, minimum) ==
  CHOOSE i \in DOMAIN values :
    /\ \A j \in DOMAIN values :
         ~IF minimum THEN Less(values[j], values[i]) ELSE Less(values[i], values[j])
    /\ \A j \in 1 .. i - 1 :
         IF minimum THEN Less(values[i], values[j]) ELSE Less(values[j], values[i])

(* sum, average, min and max: of numbers only, and of every record's. *)
Aggregate(op, values) ==
  IF values = <<>> \/ \E i \in DOMAIN values : ~IsNumber(values[i])
  THEN NoValue
  ELSE CASE op = "sum" -> IntValue(SumOf(values))
         [] op = "average" -> IntValue(SumOf(values) \div Len(values))
         [] op = "min" -> values[Extreme(values, TRUE)]
         [] op = "max" -> values[Extreme(values, FALSE)]

----------------------------------------------------------------------------
(* Calendar arithmetic. *)

MinYear == 1
MaxYear == 9999

IsLeap(y) == y % 4 = 0 /\ (y % 100 # 0 \/ y % 400 = 0)

MonthRange(y, m) ==
  IF m = 2 THEN IF IsLeap(y) THEN 29 ELSE 28
  ELSE IF m \in {4, 6, 9, 11} THEN 30 ELSE 31

IsDate(d) == /\ d[1] \in MinYear .. MaxYear /\ d[2] \in 1 .. 12
             /\ d[3] \in 1 .. MonthRange(d[1], d[2])

DaysBeforeYear(y) == LET p == y - 1 IN 365 * p + p \div 4 - p \div 100 + p \div 400

DaysBeforeMonth(y, m) ==
  <<0, 31, 59, 90, 120, 151, 181, 212, 243, 273, 304, 334>>[m]
    + IF m > 2 /\ IsLeap(y) THEN 1 ELSE 0

Ordinal(d) == DaysBeforeYear(d[1]) + DaysBeforeMonth(d[1], d[2]) + d[3]

DayOfYear(y, k) ==
  LET m == CHOOSE q \in 1 .. 12 : /\ DaysBeforeMonth(y, q) < k
                                  /\ q = 12 \/ k <= DaysBeforeMonth(y, q + 1)
  IN  DateValue(<<y, m, k - DaysBeforeMonth(y, m)>>)

YearOf(n) == CHOOSE y \in (n \div 366) .. (n \div 365 + 1) :
               y >= 1 /\ DaysBeforeYear(y) < n /\ n <= DaysBeforeYear(y + 1)

(* The date with this ordinal, or NoValue outside the calendar. *)
FromOrdinal(n) ==
  IF n < 1 \/ n > Ordinal(<<MaxYear, 12, 31>>) THEN NoValue
  ELSE DayOfYear(YearOf(n), n - DaysBeforeYear(YearOf(n)))

(* Whole years, months or days from `stored` to `now`, truncated to zero.  *)
Span(s, e, mode) ==
  CASE mode = "years" -> e[1] - s[1] - IF e[2] < s[2] \/ (e[2] = s[2] /\ e[3] < s[3])
                                       THEN 1 ELSE 0
    [] mode = "months" -> (e[1] - s[1]) * 12 + e[2] - s[2] - IF e[3] < s[3] THEN 1 ELSE 0
    [] OTHER -> (IF mode = "seconds" THEN 86400 ELSE 1) * (Ordinal(e) - Ordinal(s))

DateDifference(stored, now, mode) ==
  IF DateLess(now, stored) THEN -Span(now, stored, mode) ELSE Span(stored, now, mode)

(* Mutant: a month that has no such day is answered by its last day. *)
DateAddClamped(stored, amount, mode) ==
  IF mode = "days" THEN FromOrdinal(Ordinal(stored) + amount)
  ELSE LET total == stored[1] * 12 + stored[2] - 1
                      + IF mode = "years" THEN amount * 12 ELSE amount
           y == total \div 12
           m == (total % 12) + 1
           last == MonthRange(y, m)
       IN  DateValue(<<y, m, IF stored[3] < last THEN stored[3] ELSE last>>)

(* A month that has no such day is answered by the next month's first day. *)
InMonth(y, m, day, last) ==
  IF y \notin MinYear .. MaxYear THEN NoValue
  ELSE IF day <= last THEN DateValue(<<y, m, day>>)
  ELSE FromOrdinal(Ordinal(<<y, m, last>>) + 1)

(* total counts months from the year 0. *)
AfterMonths(total, day) ==
  InMonth(total \div 12, (total % 12) + 1, day, MonthRange(total \div 12, (total % 12) + 1))

DateAdd(stored, amount, mode) ==
  IF mode = "days" THEN FromOrdinal(Ordinal(stored) + amount)
  ELSE AfterMonths(stored[1] * 12 + stored[2] - 1 + (IF mode = "years" THEN amount * 12 ELSE amount),
                   stored[3])

(* Mutant: every leap year is looked for within four years. *)
OccurrenceWithinFour(stored, today) ==
  LET candidates == {y \in today[1] .. today[1] + 4 :
                       LET d == <<y, stored[2], stored[3]>>
                       IN  IsDate(d) /\ ~DateLess(d, today)}
  IN  IF candidates = {} THEN NoValue
      ELSE LET y == CHOOSE q \in candidates : \A r \in candidates : q <= r
           IN  DateValue(<<y, stored[2], stored[3]>>)

(* The next day of this month and day, today included. *)
AnnualOccurrence(stored, today) ==
  LET candidates == {y \in today[1] .. today[1] + 8 :
                       LET d == <<y, stored[2], stored[3]>>
                       IN  IsDate(d) /\ ~DateLess(d, today)}
  IN  IF candidates = {} THEN NoValue
      ELSE LET y == CHOOSE q \in candidates : \A r \in candidates : q <= r
           IN  DateValue(<<y, stored[2], stored[3]>>)
============================================================================
