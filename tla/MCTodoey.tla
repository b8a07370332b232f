------------------------------ MODULE MCTodoey -------------------------------
(***************************************************************************)
(* Todoey on a small instance.  Two categories and two items are enough    *)
(* for an item of another category, for a list with two rows in either     *)
(* order of creation and for a search that hides one of them; the terms    *)
(* overlap, so that one search after another narrows the first.  Dates are *)
(* no row numbers, so that one taken for the other shows.                  *)
(***************************************************************************)
EXTENDS Todoey

CONSTANTS milk, bread, m, r

MCCategoryDate == {10, 20}
MCItemDate == {30, 40}
MCTitle == {milk, bread}
MCTerm == {m, r}
MCMatch == [t \in MCTerm |-> IF t = m THEN {milk} ELSE {milk, bread}]
=============================================================================
