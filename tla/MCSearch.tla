------------------------------ MODULE MCSearch ------------------------------
(***************************************************************************)
(* Model values for SearchPipeline: a form identifier, the key of an       *)
(* account and three keys of another program that decode to forms.         *)
(***************************************************************************)
EXTENDS SearchPipeline

CONSTANTS i1, i2

On(yr, mo, d) == [yr |-> yr, mo |-> mo, d |-> d]

MCSubmitted ==
  <<NoForm, On(2015, 12, 10), On(2016, 3, 10), NoForm, On(2015, 12, 11)>>

Range(after, before, issue) == [after |-> after, before |-> before, issue |-> issue]

\* A range over all years, and one of three months, which the search takes for
\* two days of December: a key is dated at its edge, one within it, and one
\* within the range that was asked for.
MCSearches ==
  {Range(On(2014, 1, 1), On(2017, 1, 1), i1),
   Range(On(2016, 1, 10), On(2016, 4, 12), i1),
   Range(On(2014, 1, 1), On(2017, 1, 1), i2)}

=============================================================================
