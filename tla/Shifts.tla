-------------------------------- MODULE Shifts --------------------------------
(***************************************************************************)
(* ShiftsService: cash shifts are opened, edited, closed and deleted.      *)
(*                                                                         *)
(* A location stands for the pair of organisation and location that create *)
(* looks up.  Clients are careful about the shifts of Guarded: at most one *)
(* request about such a shift is in flight.  About the others they do as   *)
(* they please.                                                            *)
(***************************************************************************)
EXTENDS Integers, Handlers

CONSTANTS
  ShiftIds,      \* ids the Shift table may ever hand out
  Locations,     \* organisations and locations that shifts are opened for
  Openings,      \* amounts of cash a shift is opened with
  Closings,      \* cash, card, transfers and other at closing, added up
  Openers,       \* callers that send POST /shifts
  Guarded,       \* shifts with at most one request in flight
  Mobile,        \* shifts that clients send another location for with PATCH
  Absent         \* an optional field left out of a request

ASSUME ShiftsAssumption ==
  /\ Openings \subseteq Nat /\ Closings \subseteq Nat
  /\ Openers \subseteq Callers
  /\ Guarded \subseteq ShiftIds /\ Mobile \subseteq ShiftIds
  /\ IsFiniteSet(ShiftIds)
  /\ Absent \notin Nat \cup Locations

VARIABLE
  shift     \* the Shift table

vars == <<shift, call>>

NoRow == [status |-> "NONE"]
GoneRow == [status |-> "GONE"]

Statuses == {"OPEN", "CLOSED"}
\* What close writes: the total expected and what is over or short of it.
Figures == [expected: Nat, variance: Int]
Rows == [status: Statuses, loc: Locations, opening: Nat, figures: Figures \cup {Absent}]
Patches == [loc: Locations \cup {Absent}, opening: Openings \cup {Absent}]
Calls ==
  {Idle}
  \cup [step: {"insert"}, loc: Locations, opening: Openings]
  \cup [step: {"patch"}, shift: ShiftIds, patch: Patches]
  \cup [step: {"close"}, shift: ShiftIds, figures: Figures]
  \cup [step: {"delete"}, shift: ShiftIds]

TypeOK ==
  /\ shift \in [ShiftIds -> Rows \cup {NoRow, GoneRow}]
  /\ call \in [Callers -> Calls]

Live(s) == shift[s].status \in Statuses
OpenAt(l) == {s \in ShiftIds : shift[s].status = "OPEN" /\ shift[s].loc = l}

\* A request about an existing shift: its first statement finds the row.
About(s) ==
  /\ Live(s)
  /\ s \in Guarded =>
       \A d \in Callers : call[d].step \in {"patch", "close", "delete"} => call[d].shift # s

-----------------------------------------------------------------------------
\* Bound: the Shift table hands out the ids of ShiftIds and no more.
RoomForShift ==
  Cardinality({c \in Callers : call[c].step = "insert"})
    < Cardinality({s \in ShiftIds : shift[s] = NoRow})

\* Mutant: the look-up forgets the status, and finds the newest shift closed.
OpenReadUnchecked(c, l, opening) ==
  /\ c \in Openers
  /\ RoomForShift
  /\ Start(c, [step |-> "insert", loc |-> l, opening |-> opening])
  /\ UNCHANGED shift

OpenRead(c, l, opening) ==
  /\ c \in Openers
  /\ RoomForShift
  /\ OpenAt(l) = {}
  /\ Start(c, [step |-> "insert", loc |-> l, opening |-> opening])
  /\ UNCHANGED shift

NewShift(l, opening) ==
  [status |-> "OPEN", loc |-> l, opening |-> opening, figures |-> Absent]

OpenInsert(c) ==
  LET k == call[c] IN
  /\ k.step = "insert"
  /\ \E s \in ShiftIds :
       /\ shift[s] = NoRow
       /\ shift' = [shift EXCEPT ![s] = NewShift(k.loc, k.opening)]
  /\ End(c)

PatchRead(c, s, patch) ==
  /\ About(s)
  /\ patch.loc # Absent => s \in Mobile
  /\ Start(c, [step |-> "patch", shift |-> s, patch |-> patch])
  /\ UNCHANGED shift

\* Columns whose value the request leaves out stay as they are.
Patched(row, patch) ==
  [row EXCEPT !.loc = IF patch.loc = Absent THEN @ ELSE patch.loc,
              !.opening = IF patch.opening = Absent THEN @ ELSE patch.opening]

PatchWrite(c) ==
  LET k == call[c] IN
  /\ k.step = "patch"
  /\ shift' = IF Live(k.shift) THEN [shift EXCEPT ![k.shift] = Patched(@, k.patch)] ELSE shift
  /\ End(c)

\* Mutant: the opening cash is not selected.
FiguresUnread(row, total) == [expected |-> Absent, variance |-> total]

\* The figures are computed from the row that was read.
FiguresOf(row, total) == [expected |-> row.opening, variance |-> total - row.opening]

\* Mutant: a closed shift is closed again.
CloseReadAgain(c, s, total) ==
  /\ About(s)
  /\ Start(c, [step |-> "close", shift |-> s, figures |-> FiguresOf(shift[s], total)])
  /\ UNCHANGED shift

CloseRead(c, s, total) ==
  /\ About(s)
  /\ shift[s].status # "CLOSED"
  /\ Start(c, [step |-> "close", shift |-> s, figures |-> FiguresOf(shift[s], total)])
  /\ UNCHANGED shift

Closed(row, figures) == [row EXCEPT !.status = "CLOSED", !.figures = figures]

CloseWrite(c) ==
  LET k == call[c] IN
  /\ k.step = "close"
  /\ shift' = IF Live(k.shift) THEN [shift EXCEPT ![k.shift] = Closed(@, k.figures)] ELSE shift
  /\ End(c)

\* Mutant: the status is not looked at.
RemoveReadOpen(c, s) ==
  /\ About(s)
  /\ Start(c, [step |-> "delete", shift |-> s])
  /\ UNCHANGED shift

RemoveRead(c, s) ==
  /\ About(s)
  /\ shift[s].status # "OPEN"
  /\ Start(c, [step |-> "delete", shift |-> s])
  /\ UNCHANGED shift

RemoveWrite(c) ==
  LET s == call[c].shift IN
  /\ call[c].step = "delete"
  /\ shift' = IF Live(s) THEN [shift EXCEPT ![s] = GoneRow] ELSE shift
  /\ End(c)

Abort(c) == Fail(c) /\ UNCHANGED shift

BeginCall(c) ==
  \/ \E l \in Locations, opening \in Openings : OpenRead(c, l, opening)
  \/ \E s \in ShiftIds :
       \/ \E patch \in Patches : PatchRead(c, s, patch)
       \/ \E total \in Closings : CloseRead(c, s, total)
       \/ RemoveRead(c, s)

Step(c) == OpenInsert(c) \/ PatchWrite(c) \/ CloseWrite(c) \/ RemoveWrite(c)

Init == shift = [s \in ShiftIds |-> NoRow] /\ HandlersInit
Next == \E c \in Callers : BeginCall(c) \/ Step(c) \/ Abort(c)
Spec == Init /\ [][Next]_vars

-----------------------------------------------------------------------------
(***************************************************************************)
(* Two opens of one location may both find no open shift, and update looks *)
(* for none where it moves a shift to.  Yet a location never has more      *)
(* shifts, open or about to be, than there are callers that open shifts,   *)
(* beside those that clients move: under one opener, the one active shift  *)
(* of the documents and the shifts moved there (create, 21-44).            *)
(***************************************************************************)
OpeningAt(l) == {c \in Callers : call[c].step = "insert" /\ call[c].loc = l}
Settled(l) == OpenAt(l) \ Mobile
FewOpenPerLocation == \A l \in Locations :
  Cardinality(Settled(l)) + Cardinality(OpeningAt(l)) <= Cardinality(Openers)

(***************************************************************************)
(* An open shift is never deleted, whatever requests overtake each other:  *)
(* remove read it closed, and no request opens a closed shift again        *)
(* (remove, 130-142).                                                      *)
(***************************************************************************)
OpenShiftIsKept == [][\A s \in ShiftIds :
  shift[s].status = "OPEN" => shift'[s] # GoneRow]_vars

(***************************************************************************)
(* A guarded shift is closed on the opening cash it has at that moment,    *)
(* although close read it a statement earlier, and its closing figures     *)
(* never change again (close, 97-128).                                     *)
(***************************************************************************)
ClosedOnce == [][\A s \in Guarded : Live(s)' =>
  /\ shift[s].status = "OPEN" /\ shift'[s].status = "CLOSED" =>
       shift'[s].figures.expected = shift[s].opening
  /\ shift[s].status = "CLOSED" =>
       /\ shift'[s].status = "CLOSED"
       /\ shift'[s].figures = shift[s].figures]_vars
=============================================================================
