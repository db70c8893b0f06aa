------------------------------ MODULE Merging -------------------------------
(***************************************************************************)
(* s1engine/merge.py: one table from the results of the slices.  A slice's *)
(* result is a function from the group keys that occur in it to a row with *)
(* a sum, a minimum, a maximum and a count of distinct values; a value     *)
(* that the backend did not return for the group is Missing.  For a query  *)
(* of kind "rows" a result is a set of rows, and the table a bag of them.  *)
(***************************************************************************)
EXTENDS Integers, FiniteSets, FiniteSetsExt, Functions

CONSTANT Missing   \* None: the cell is empty, or the column is not there

ASSUME MissingAssumption == Missing \notin Int

\* _to_number: an empty cell counts as zero.
ToNumber(x) == IF x = Missing THEN 0 ELSE x

KeysOf(results) == UNION {DOMAIN r : r \in results}

\* The rows of a group; results are told apart by the slice they come from.
RowsOf(results, slices, key) == {s \in slices : key \in DOMAIN results[s]}

MergedSum(results, rows, key) ==
  SumFunction([s \in rows |-> ToNumber(results[s][key].sum)])

\* Mutant: the columns of distinct counts are reduced like a minimum.
MergedDistinctOfOne(results, rows, key) == Min({results[s][key].distinct : s \in rows})

MergedDistinct(results, rows, key) ==
  SumFunction([s \in rows |-> ToNumber(results[s][key].distinct)])

\* Mutant: the minimum starts from zero, as the sums do.
MergedMinFromZero(results, rows, key) == Min({0} \cup {ToNumber(results[s][key].min) : s \in rows})

MergedMin(results, rows, key) == Min({ToNumber(results[s][key].min) : s \in rows})

\* merge_aggregate: sums and distinct counts are added up, the others reduced.
MergeAggregate(results, slices) ==
  [key \in KeysOf({results[s] : s \in slices}) |->
     LET rows == RowsOf(results, slices, key) IN
     [sum |-> MergedSum(results, rows, key),
      min |-> MergedMin(results, rows, key),
      max |-> Max({ToNumber(results[s][key].max) : s \in rows}),
      distinct |-> MergedDistinct(results, rows, key)]]

\* The warning that goes with distinct counts from more than one slice; results
\* without rows have no columns and are left out before.
Approximate(results, slices) == Cardinality({s \in slices : DOMAIN results[s] # {}}) > 1

\* concat_rows: every row of every slice, as often as there are slices with it.
ConcatRows(results, slices) ==
  [row \in UNION {results[s] : s \in slices} |->
     Cardinality({s \in slices : row \in results[s]})]
=============================================================================
