------------------------------ MODULE TableRows ------------------------------
(***************************************************************************)
(* A UITableView whose rows show objects sorted newest first, as both      *)
(* screens of Todoey do.  An object is named by the moment it was created  *)
(* (its dateCreated), a natural number, so the order of a set of objects   *)
(* is fixed by the set and "the object at row r" is a function of the set  *)
(* alone.  Rows are counted from 1.                                        *)
(***************************************************************************)
EXTENDS Integers, FiniteSets

(* The row at which key k stands in the table of the keys S: one more than *)
(* the number of objects created after it.                                 *)
Row(S, k) == 1 + Cardinality({x \in S : x > k})

(* results[indexPath.row]                                                  *)
KeyAt(S, r) == CHOOSE k \in S : Row(S, k) = r

(* The cells of a table are a function from the key each cell was rendered *)
(* for to what was written in the cell at that moment.  deleteRows(at:)    *)
(* takes one cell away and renders none of the others again.               *)
WithoutRow(cells, r) ==
    [k \in DOMAIN cells \ {KeyAt(DOMAIN cells, r)} |-> cells[k]]

(* UIKit raises NSInternalInconsistencyException unless the data source,   *)
(* asked again, counts exactly one row less than the table showed.         *)
DeleteRowsAgrees(cells, live) ==
    Cardinality(live) = Cardinality(DOMAIN cells) - 1
=============================================================================
