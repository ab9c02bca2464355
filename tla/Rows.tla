--------------------------------- MODULE Rows ---------------------------------
(***************************************************************************)
(* Rows of a table: an id not handed out yet, a deleted row, columns that  *)
(* may be without a value, and requests that leave columns out.            *)
(***************************************************************************)
CONSTANTS
  Null,         \* a column without a value
  Absent        \* an optional field left out of a request

NoRow == [status |-> "NONE"]
GoneRow == [status |-> "GONE"]
Vacant == {NoRow, GoneRow}

OrNull(S) == S \cup {Null}
Optional(S) == S \cup {Absent}

\* Mutant: a column the request leaves out is overwritten.
GivenOrLost(old, new) == new

\* A column whose value the request leaves out stays as it is.
Given(old, new) == IF new = Absent THEN old ELSE new
=============================================================================
