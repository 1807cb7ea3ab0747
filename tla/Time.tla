-------------------------------- MODULE Time --------------------------------
(***************************************************************************)
(* util/time.go: the two ways a date reaches a search.  Hours and minutes  *)
(* are left out, a date standing for the moment it begins.                 *)
(***************************************************************************)
EXTENDS Integers

Dates == [yr : Nat, mo : 1 .. 12, d : 1 .. 31]

\* time.Date: dates in their order.  Month 0 is December of the year before.
Date(yr, mo, d) == (12 * yr + mo) * 31 + d

\* The minute a form was submitted at, "2016-12-01 10:22".
ParseMinuteString(date) == Date(date.yr, date.mo, date.d)

\* The end of a range, "12/01/2016 10:22".  The table of months is keyed by
\* their names, and the two digits are in it for no month: all are month 0.
ParseMomentString(date) == Date(date.yr, 0, date.d)

=============================================================================
