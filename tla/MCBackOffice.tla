------------------------------ MODULE MCBackOffice ------------------------------
(* Small instances of BackOffice for TLC. *)
EXTENDS BackOffice, TLC

Blank ==
  [code |-> Absent, type |-> Absent, value |-> Absent, max |-> Absent, min |-> Absent,
   from |-> Absent, until |-> Absent, limit |-> Absent, count |-> Absent, active |-> Absent]

Values == {0, 2, 120}
Limits == {Null, 1, 2}
Starts == {Null, 1, 2}
Ends == {Null, 1}

\* The plainest discount of each type: updates set the other columns.
PlainOffers ==
  {[code |-> code, type |-> type, value |-> 2, max |-> Null, min |-> Null,
    from |-> Null, until |-> Null, limit |-> limit, count |-> count, active |-> TRUE] :
     code \in Codes, type \in Types, limit \in Limits, count \in {0, 1}}

\* Updates of one group of columns; the service never compares one group with another.
GroupPatches ==
  {[Blank EXCEPT !.type = type, !.value = value] :
     type \in Optional(Types), value \in Optional(Values)}
  \cup {[Blank EXCEPT !.from = from, !.until = until] :
     from \in Optional(Starts), until \in Optional(Ends)}
  \cup {[Blank EXCEPT !.max = max] : max \in {Null, 0, 1}}
  \cup {[Blank EXCEPT !.min = min] : min \in {Null, 0, 2}}
  \cup {[Blank EXCEPT !.limit = limit] : limit \in Limits}
  \cup {[Blank EXCEPT !.count = count] : count \in {0, 1}}

SingleItems == {{}} \cup {{i} : i \in ItemIds}

Anyone == Permutations(Callers) \cup Permutations(TaxIds) \cup Permutations(ItemIds)
=============================================================================
