----------------------------- MODULE FactDates -----------------------------
(***************************************************************************)
(* The calendar arithmetic of FactOperators over the days of a window: the *)
(* stored date and the offset asked for walk through it, one at a time.    *)
(***************************************************************************)
EXTENDS FactOperators

CONSTANTS
  Windows,       \* pairs of dates: the first and the last stored date
  Offsets,       \* the offsets of date_add
  OccurrenceYears \* the years in which today is tried for the next birthday

VARIABLES stored, offset, today

vars == <<stored, offset, today>>

Init == \E w \in Windows :
          /\ stored = w[1] /\ today = w[1]
          /\ offset \in Offsets

NextDay(d) == FromOrdinal(Ordinal(d) + 1).v

(* The next stored date of the window. *)
Advance == \E w \in Windows :
             /\ ~DateLess(stored, w[1]) /\ DateLess(stored, w[2])
             /\ stored' = NextDay(stored)
             /\ today' = stored'
             /\ UNCHANGED offset

(* Today moves a quarter on, so that leap days are asked for from every    *)
(* part of the cycle.                                                      *)
Later == /\ today[1] + 1 \in OccurrenceYears
         /\ today' = FromOrdinal(Ordinal(today) + 91).v
         /\ UNCHANGED <<stored, offset>>

Next == Advance \/ Later

Spec == Init /\ [][Next]_vars

----------------------------------------------------------------------------
(* An offset of n years or months is the first day on which n of them are  *)
(* complete: date_add answers a date from which date_difference counts n,  *)
(* and the day before it counts one less.  (The comment in _date_add: "Its *)
(* anniversary becomes complete on the next month's first day, as in       *)
(* date_difference.")  This is said of forward offsets; a backward one     *)
(* that meets a short month lands later than its own anniversary, never    *)
(* by more than one unit.                                                  *)
OffsetMeetsItsAnniversary ==
  \A mode \in {"years", "months", "days"} :
    LET target == DateAdd(stored, offset, mode)
    IN  ~IsMissing(target) =>
          /\ IsDate(target.v)
          /\ IF offset >= 0 \/ mode = "days"
             THEN DateDifference(stored, target.v, mode) = offset
             ELSE DateDifference(stored, target.v, mode) \in {offset, offset + 1}
          /\ offset > 0 =>
               DateDifference(stored, FromOrdinal(Ordinal(target.v) - 1).v, mode)
                 = offset - 1

(* The next occurrence of a month and day is the first such day that is    *)
(* not past, leap days and centuries without one included: no day between  *)
(* today and it has the same month and day.                                *)
OccurrenceIsNext ==
  LET next == AnnualOccurrence(stored, today)
  IN  /\ ~IsMissing(next)
      /\ ~DateLess(next.v, today)
      /\ <<next.v[2], next.v[3]>> = <<stored[2], stored[3]>>
      /\ \A y \in today[1] .. next.v[1] :
           LET d == <<y, stored[2], stored[3]>>
           IN  IsDate(d) /\ ~DateLess(d, today) => ~DateLess(d, next.v)
============================================================================
