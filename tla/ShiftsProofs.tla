----------------------------- MODULE ShiftsProofs -----------------------------
(***************************************************************************)
(* Theorems about Shifts, for any number of shifts, locations, amounts and *)
(* requests in flight.                                                     *)
(***************************************************************************)
EXTENDS Shifts, FiniteSetTheorems, TLAPS

LEMMA VacantRows == NoRow.status \notin Statuses /\ GoneRow.status \notin Statuses
BY DEF NoRow, GoneRow, Statuses

LEMMA LiveRow ==
  ASSUME TypeOK, NEW s \in ShiftIds, Live(s)
  PROVE  shift[s] \in Rows
BY VacantRows DEF TypeOK, Live

\* What the writing statements make of a row is a row again.
LEMMA RowsStayRows ==
  /\ \A l \in Locations, opening \in Openings : NewShift(l, opening) \in Rows
  /\ \A row \in Rows, patch \in Patches : Patched(row, patch) \in Rows
  /\ \A row \in Rows, figures \in Figures : Closed(row, figures) \in Rows
<1>1. ASSUME NEW row \in Rows, NEW patch \in Patches
      PROVE  Patched(row, patch) \in Rows
  <2> DEFINE loc == IF patch.loc = Absent THEN row.loc ELSE patch.loc
             opening == IF patch.opening = Absent THEN row.opening ELSE patch.opening
  <2>1. loc \in Locations /\ opening \in Nat
    BY ShiftsAssumption DEF ShiftsAssumption, Rows, Patches
  <2>2. Patched(row, patch) = [row EXCEPT !.loc = loc, !.opening = opening]
    BY DEF Patched
  <2> HIDE DEF loc, opening
  <2> QED BY <2>1, <2>2 DEF Rows
<1> QED BY <1>1, ShiftsAssumption DEF ShiftsAssumption, NewShift, Closed, Rows, Statuses

LEMMA FiguresType ==
  ASSUME NEW row \in Rows, NEW total \in Closings
  PROVE  FiguresOf(row, total) \in Figures
BY ShiftsAssumption DEF ShiftsAssumption, Rows, FiguresOf, Figures

-----------------------------------------------------------------------------
(***************************************************************************)
(* Type correctness: a shift is vacant, deleted, or a row with all its     *)
(* columns, and a handler in flight carries the locals of its statement.   *)
(***************************************************************************)
LEMMA TypePreserved == TypeOK /\ [Next]_vars => TypeOK'
<1> SUFFICES ASSUME TypeOK, Next PROVE TypeOK'
  BY DEF vars, TypeOK
<1> PICK c \in Callers : BeginCall(c) \/ Step(c) \/ Abort(c)
  BY DEF Next
<1> USE DEF Calls
<1>0. shift \in [ShiftIds -> Rows \cup {NoRow, GoneRow}] /\ call \in [Callers -> Calls]
  BY DEF TypeOK
<1>1. ASSUME NEW k \in Calls, Start(c, k), UNCHANGED shift PROVE TypeOK'
  BY <1>0, <1>1 DEF Start, TypeOK
<1>2. ASSUME End(c), shift' \in [ShiftIds -> Rows \cup {NoRow, GoneRow}] PROVE TypeOK'
  BY <1>0, <1>2 DEF End, TypeOK
<1>3. ASSUME NEW l \in Locations, NEW opening \in Openings, OpenRead(c, l, opening)
      PROVE  TypeOK'
  BY <1>1, <1>3 DEF OpenRead
<1>4. ASSUME NEW s \in ShiftIds, NEW patch \in Patches, PatchRead(c, s, patch)
      PROVE  TypeOK'
  BY <1>1, <1>4 DEF PatchRead
<1>5. ASSUME NEW s \in ShiftIds, NEW total \in Closings, CloseRead(c, s, total)
      PROVE  TypeOK'
  BY <1>1, <1>5, LiveRow, FiguresType DEF CloseRead, About
<1>6. ASSUME NEW s \in ShiftIds, RemoveRead(c, s) PROVE TypeOK'
  BY <1>1, <1>6 DEF RemoveRead
<1>7. ASSUME OpenInsert(c) PROVE TypeOK'
  <2>1. call[c].loc \in Locations /\ call[c].opening \in Openings
    BY <1>0, <1>7 DEF OpenInsert, Idle
  <2> QED BY <1>0, <1>2, <1>7, <2>1, RowsStayRows DEF OpenInsert
<1>8. ASSUME PatchWrite(c) PROVE TypeOK'
  <2>1. call[c].shift \in ShiftIds /\ call[c].patch \in Patches
    BY <1>0, <1>8 DEF PatchWrite, Idle
  <2> QED BY <1>0, <1>2, <1>8, <2>1, LiveRow, RowsStayRows DEF PatchWrite
<1>9. ASSUME CloseWrite(c) PROVE TypeOK'
  <2>1. call[c].shift \in ShiftIds /\ call[c].figures \in Figures
    BY <1>0, <1>9 DEF CloseWrite, Idle
  <2> QED BY <1>0, <1>2, <1>9, <2>1, LiveRow, RowsStayRows DEF CloseWrite
<1>10. ASSUME RemoveWrite(c) PROVE TypeOK'
  BY <1>0, <1>2, <1>10 DEF RemoveWrite
<1>11. ASSUME Abort(c) PROVE TypeOK'
  BY <1>0, <1>2, <1>11 DEF Abort, Fail
<1> QED BY <1>3, <1>4, <1>5, <1>6, <1>7, <1>8, <1>9, <1>10, <1>11 DEF BeginCall, Step

LEMMA TypeInit == Init => TypeOK
BY DEF Init, HandlersInit, TypeOK, Calls

(***************************************************************************)
(* In every environment the Shift table and the handlers in flight have    *)
(* their types (ShiftsService).                                            *)
(***************************************************************************)
THEOREM TypeCorrect == Spec => []TypeOK
<1> QED BY TypeInit, TypePreserved, PTL DEF Spec

-----------------------------------------------------------------------------
(* The number of open shifts of a location *)

InsertersOpen == \A c \in Callers : call[c].step = "insert" => c \in Openers

\* A location is about to change only for a shift that clients move.
MovesMobile == \A c \in Callers :
  call[c].step = "patch" /\ call[c].patch.loc # Absent => call[c].shift \in Mobile

LEMMA InsertersPreserved == InsertersOpen /\ TypeOK /\ [Next]_vars => InsertersOpen'
<1> SUFFICES ASSUME InsertersOpen, TypeOK, [Next]_vars PROVE InsertersOpen'
  OBVIOUS
<1>1. CASE UNCHANGED vars
  BY <1>1 DEF vars, InsertersOpen
<1>2. ASSUME NEW c \in Callers, BeginCall(c) \/ Step(c) \/ Abort(c)
      PROVE  InsertersOpen'
  BY <1>2 DEF InsertersOpen, TypeOK, BeginCall, Step, Abort, Fail, End, Start, Idle,
              OpenRead, PatchRead, CloseRead, RemoveRead,
              OpenInsert, PatchWrite, CloseWrite, RemoveWrite
<1> QED BY <1>1, <1>2 DEF Next

LEMMA MovesPreserved == MovesMobile /\ TypeOK /\ [Next]_vars => MovesMobile'
<1> SUFFICES ASSUME MovesMobile, TypeOK, [Next]_vars PROVE MovesMobile'
  OBVIOUS
<1>1. CASE UNCHANGED vars
  BY <1>1 DEF vars, MovesMobile
<1>2. ASSUME NEW c \in Callers, BeginCall(c) \/ Step(c) \/ Abort(c)
      PROVE  MovesMobile'
  BY <1>2 DEF MovesMobile, TypeOK, BeginCall, Step, Abort, Fail, End, Start, Idle,
              OpenRead, PatchRead, CloseRead, RemoveRead,
              OpenInsert, PatchWrite, CloseWrite, RemoveWrite
<1> QED BY <1>1, <1>2 DEF Next

LEMMA FiniteOpen ==
  ASSUME NEW l, InsertersOpen
  PROVE  /\ IsFiniteSet(Settled(l)) /\ IsFiniteSet(OpeningAt(l)) /\ IsFiniteSet(Openers)
         /\ Cardinality(Settled(l)) \in Nat
         /\ Cardinality(OpeningAt(l)) \in Nat
         /\ Cardinality(Openers) \in Nat
         /\ Cardinality(OpeningAt(l)) <= Cardinality(Openers)
<1>1. IsFiniteSet(Openers)
  BY FS_Subset, ShiftsAssumption, HandlersAssumption DEF ShiftsAssumption, HandlersAssumption
<1>2. OpeningAt(l) \in SUBSET Openers /\ Settled(l) \in SUBSET ShiftIds
  BY DEF OpeningAt, OpenAt, Settled, InsertersOpen
<1> QED BY <1>1, <1>2, FS_Subset, FS_CardinalityType, ShiftsAssumption DEF ShiftsAssumption

\* A step that opens nothing at l keeps the bound of l.
LEMMA FewerOpen ==
  ASSUME NEW l, InsertersOpen, InsertersOpen',
         Cardinality(Settled(l)) + Cardinality(OpeningAt(l)) <= Cardinality(Openers),
         Settled(l)' \subseteq Settled(l), OpeningAt(l)' \subseteq OpeningAt(l)
  PROVE  Cardinality(Settled(l)') + Cardinality(OpeningAt(l)') <= Cardinality(Openers)
<1>1. /\ Cardinality(Settled(l)') <= Cardinality(Settled(l))
      /\ Cardinality(OpeningAt(l)') <= Cardinality(OpeningAt(l))
      /\ Cardinality(Settled(l)') \in Nat /\ Cardinality(OpeningAt(l)') \in Nat
  BY FiniteOpen, FS_Subset, FS_CardinalityType
<1> QED BY <1>1, FiniteOpen

LEMMA FewPreserved ==
  FewOpenPerLocation /\ InsertersOpen /\ InsertersOpen' /\ MovesMobile /\ TypeOK /\ [Next]_vars
    => FewOpenPerLocation'
<1> SUFFICES ASSUME FewOpenPerLocation, InsertersOpen, InsertersOpen', MovesMobile, TypeOK,
                    [Next]_vars, NEW l \in Locations
             PROVE  Cardinality(Settled(l)') + Cardinality(OpeningAt(l)') <= Cardinality(Openers)
  BY DEF FewOpenPerLocation
<1>0. Cardinality(Settled(l)) + Cardinality(OpeningAt(l)) <= Cardinality(Openers)
  BY DEF FewOpenPerLocation
<1>1. CASE UNCHANGED vars
  BY <1>0, <1>1, FewerOpen DEF vars, OpenAt, Settled, OpeningAt
<1>2. ASSUME NEW c \in Callers, BeginCall(c) \/ Step(c) \/ Abort(c)
      PROVE  Cardinality(Settled(l)') + Cardinality(OpeningAt(l)') <= Cardinality(Openers)
  <2>0. shift \in [ShiftIds -> Rows \cup {NoRow, GoneRow}] /\ call \in [Callers -> Calls]
    BY DEF TypeOK
  <2>1. ASSUME NEW m \in Locations, NEW opening \in Openings, OpenRead(c, m, opening)
        PROVE  Cardinality(Settled(l)') + Cardinality(OpeningAt(l)') <= Cardinality(Openers)
    <3>1. Settled(l)' = Settled(l)
      BY <2>1 DEF OpenRead, OpenAt, Settled
    <3>2. CASE m = l
      <4>1. Settled(l)' = {} /\ Cardinality(Settled(l)') = 0
        BY <2>1, <3>1, <3>2, FS_EmptySet DEF OpenRead, Settled
      <4>2. /\ Cardinality(OpeningAt(l)') <= Cardinality(Openers)
            /\ Cardinality(OpeningAt(l)') \in Nat
        BY FS_Subset, FS_CardinalityType, FiniteOpen DEF OpeningAt, InsertersOpen
      <4> QED BY <4>1, <4>2
    <3>3. CASE m # l
      BY <1>0, <2>0, <2>1, <3>1, <3>3, FewerOpen DEF OpenRead, Start, OpeningAt
    <3> QED BY <3>2, <3>3
  <2>2. ASSUME OpenInsert(c)
        PROVE  Cardinality(Settled(l)') + Cardinality(OpeningAt(l)') <= Cardinality(Openers)
    <3> PICK s \in ShiftIds :
          /\ shift[s] = NoRow
          /\ shift' = [shift EXCEPT ![s] = NewShift(call[c].loc, call[c].opening)]
      BY <2>2 DEF OpenInsert
    <3>1. OpeningAt(l)' = OpeningAt(l) \ {c}
      BY <2>0, <2>2 DEF OpenInsert, End, Idle, OpeningAt
    <3>2. CASE call[c].loc = l /\ s \notin Mobile
      <4>1. Settled(l)' = Settled(l) \cup {s} /\ s \notin Settled(l)
        BY <2>0, <3>2 DEF OpenAt, Settled, NewShift, NoRow
      <4>2. c \in OpeningAt(l)
        BY <2>2, <3>2 DEF OpenInsert, OpeningAt
      <4>3. /\ Cardinality(Settled(l)') = Cardinality(Settled(l)) + 1
            /\ Cardinality(OpeningAt(l)') = Cardinality(OpeningAt(l)) - 1
        <5>1. IsFiniteSet(Settled(l)) /\ IsFiniteSet(OpeningAt(l))
          BY FiniteOpen
        <5>2. Cardinality(Settled(l)') = Cardinality(Settled(l)) + 1
          BY <4>1, <5>1, FS_AddElement
        <5>3. Cardinality(OpeningAt(l)') = Cardinality(OpeningAt(l)) - 1
          BY <3>1, <4>2, <5>1, FS_RemoveElement
        <5> QED BY <5>2, <5>3
      <4>4. /\ Cardinality(Settled(l)) \in Nat /\ Cardinality(OpeningAt(l)) \in Nat
            /\ Cardinality(Openers) \in Nat
        BY FiniteOpen
      <4> QED BY <1>0, <4>3, <4>4
    <3>3. CASE call[c].loc # l \/ s \in Mobile
      <4>1. Settled(l)' = Settled(l)
        BY <2>0, <3>3 DEF OpenAt, Settled, NewShift, NoRow
      <4> QED BY <1>0, <3>1, <4>1, FewerOpen
    <3> QED BY <3>2, <3>3
  <2>3. ASSUME PatchWrite(c)
        PROVE  Cardinality(Settled(l)') + Cardinality(OpeningAt(l)') <= Cardinality(Openers)
    <3>1. call[c].shift \in ShiftIds /\ call[c].patch \in Patches
      BY <2>0, <2>3 DEF PatchWrite, Calls, Idle
    <3>2. call[c].patch.loc = Absent \/ call[c].shift \in Mobile
      BY <2>3 DEF PatchWrite, MovesMobile
    <3>3. Settled(l)' = Settled(l)
      <4>1. CASE Live(call[c].shift)
        <5> DEFINE row == shift[call[c].shift]
        <5>1. row \in Rows
          BY <3>1, <4>1, LiveRow
        <5>2. Patched(row, call[c].patch).status = row.status
              /\ (call[c].patch.loc = Absent => Patched(row, call[c].patch).loc = row.loc)
          BY <5>1 DEF Patched, Rows
        <5> QED BY <2>0, <2>3, <3>1, <3>2, <4>1, <5>2 DEF PatchWrite, OpenAt, Settled
      <4>2. CASE ~Live(call[c].shift)
        BY <2>3, <4>2 DEF PatchWrite, OpenAt, Settled
      <4> QED BY <4>1, <4>2
    <3>4. OpeningAt(l)' \subseteq OpeningAt(l)
      BY <2>0, <2>3 DEF PatchWrite, End, Idle, OpeningAt
    <3> QED BY <1>0, <3>3, <3>4, FewerOpen
  <2>4. ASSUME CloseWrite(c)
        PROVE  Cardinality(Settled(l)') + Cardinality(OpeningAt(l)') <= Cardinality(Openers)
    <3>1. Settled(l)' \subseteq Settled(l)
      <4>1. CASE Live(call[c].shift)
        <5>1. call[c].shift \in ShiftIds
          BY <2>0, <2>4 DEF CloseWrite, Calls, Idle
        <5>2. Closed(shift[call[c].shift], call[c].figures).status # "OPEN"
          BY <4>1, <5>1, LiveRow DEF Closed, Rows
        <5> QED BY <2>0, <2>4, <4>1, <5>1, <5>2 DEF CloseWrite, OpenAt, Settled
      <4>2. CASE ~Live(call[c].shift)
        BY <2>4, <4>2 DEF CloseWrite, OpenAt, Settled
      <4> QED BY <4>1, <4>2
    <3>2. OpeningAt(l)' \subseteq OpeningAt(l)
      BY <2>0, <2>4 DEF CloseWrite, End, Idle, OpeningAt
    <3> QED BY <1>0, <3>1, <3>2, FewerOpen
  <2>5. ASSUME RemoveWrite(c)
        PROVE  Cardinality(Settled(l)') + Cardinality(OpeningAt(l)') <= Cardinality(Openers)
    <3>1. Settled(l)' \subseteq Settled(l) /\ OpeningAt(l)' \subseteq OpeningAt(l)
      BY <2>0, <2>5 DEF RemoveWrite, OpenAt, Settled, GoneRow, End, Idle, OpeningAt
    <3> QED BY <1>0, <3>1, FewerOpen
  <2>6. ASSUME NEW s \in ShiftIds,
               \/ \E patch \in Patches : PatchRead(c, s, patch)
               \/ \E total \in Closings : CloseRead(c, s, total)
               \/ RemoveRead(c, s)

        PROVE  Cardinality(Settled(l)') + Cardinality(OpeningAt(l)') <= Cardinality(Openers)
    <3>1. Settled(l)' \subseteq Settled(l) /\ OpeningAt(l)' \subseteq OpeningAt(l)
      BY <2>0, <2>6 DEF PatchRead, CloseRead, RemoveRead, Abort, Fail, OpenAt, Settled, Start, End, Idle,
                        OpeningAt
    <3> QED BY <1>0, <3>1, FewerOpen
  <2>7. ASSUME Abort(c)
        PROVE  Cardinality(Settled(l)') + Cardinality(OpeningAt(l)') <= Cardinality(Openers)
    <3>1. Settled(l)' \subseteq Settled(l) /\ OpeningAt(l)' \subseteq OpeningAt(l)
      BY <2>0, <2>7 DEF Abort, Fail, OpenAt, Settled, End, Idle, OpeningAt
    <3> QED BY <1>0, <3>1, FewerOpen
  <2> QED BY <1>2, <2>1, <2>2, <2>3, <2>4, <2>5, <2>6, <2>7 DEF BeginCall, Step
<1> QED BY <1>1, <1>2 DEF Next

LEMMA FewInit == Init => FewOpenPerLocation /\ InsertersOpen /\ MovesMobile
<1> SUFFICES ASSUME Init PROVE FewOpenPerLocation /\ InsertersOpen /\ MovesMobile
  OBVIOUS
<1>1. InsertersOpen /\ MovesMobile
  BY DEF Init, HandlersInit, Idle, InsertersOpen, MovesMobile
<1>2. \A l : Settled(l) = {} /\ OpeningAt(l) = {}
  BY DEF Init, HandlersInit, Idle, NoRow, OpenAt, Settled, OpeningAt
<1> QED BY <1>1, <1>2, FS_EmptySet, FiniteOpen DEF FewOpenPerLocation

(***************************************************************************)
(* Beside the shifts that clients move, a location has at most as many     *)
(* open shifts as there are callers that open shifts, counting those about *)
(* to be inserted: one opener keeps one active shift (create, 21-44), and  *)
(* a moved shift adds no more than itself (update, 88-95).                 *)
(***************************************************************************)
THEOREM FewOpenShifts == Spec => []FewOpenPerLocation
<1>1. Init => FewOpenPerLocation /\ InsertersOpen /\ MovesMobile /\ TypeOK
  BY FewInit, TypeInit
<1>2. FewOpenPerLocation /\ InsertersOpen /\ MovesMobile /\ TypeOK /\ [Next]_vars
        => (FewOpenPerLocation /\ InsertersOpen /\ MovesMobile /\ TypeOK)'
  BY FewPreserved, InsertersPreserved, MovesPreserved, TypePreserved
<1> QED BY <1>1, <1>2, PTL DEF Spec

-----------------------------------------------------------------------------
(* An open shift is kept *)

DeleteChecked == \A c \in Callers : call[c].step = "delete" =>
  shift[call[c].shift].status \in {"CLOSED", "GONE"}

LEMMA DeletePreserved == DeleteChecked /\ TypeOK /\ [Next]_vars => DeleteChecked'
<1> SUFFICES ASSUME DeleteChecked, TypeOK, [Next]_vars, NEW d \in Callers,
                    call'[d].step = "delete"
             PROVE  shift'[call'[d].shift].status \in {"CLOSED", "GONE"}
  BY DEF DeleteChecked
<1>1. CASE UNCHANGED vars
  BY <1>1 DEF vars, DeleteChecked
<1>2. ASSUME NEW c \in Callers, BeginCall(c) \/ Step(c) \/ Abort(c)
      PROVE  shift'[call'[d].shift].status \in {"CLOSED", "GONE"}
  <2>0. shift \in [ShiftIds -> Rows \cup {NoRow, GoneRow}] /\ call \in [Callers -> Calls]
    BY DEF TypeOK
  <2>1. ASSUME NEW s \in ShiftIds, RemoveRead(c, s)
        PROVE  shift'[call'[d].shift].status \in {"CLOSED", "GONE"}
    BY <2>0, <2>1 DEF RemoveRead, About, Live, Statuses, Start, DeleteChecked
  <2>2. ASSUME UNCHANGED shift, call'[d] = call[d]
        PROVE  shift'[call'[d].shift].status \in {"CLOSED", "GONE"}
    BY <2>2 DEF DeleteChecked
  <2>3. ASSUME NEW s \in ShiftIds, End(c), NEW row,
               shift' = [shift EXCEPT ![s] = row],
               shift[s].status \in {"CLOSED", "GONE"} => row.status \in {"CLOSED", "GONE"}
        PROVE  shift'[call'[d].shift].status \in {"CLOSED", "GONE"}
    <3>1. d # c /\ call'[d] = call[d]
      BY <2>0, <2>3 DEF End, Idle
    <3>2. call[d].shift \in ShiftIds
      BY <2>0, <3>1 DEF Calls, Idle
    <3> QED BY <2>0, <2>3, <3>1, <3>2 DEF DeleteChecked
  <2>4. ASSUME End(c), UNCHANGED shift
        PROVE  shift'[call'[d].shift].status \in {"CLOSED", "GONE"}
    BY <2>0, <2>2, <2>4 DEF End, Idle
  <2>5. ASSUME OpenInsert(c)
        PROVE  shift'[call'[d].shift].status \in {"CLOSED", "GONE"}
    <3> PICK s \in ShiftIds :
          /\ shift[s] = NoRow
          /\ shift' = [shift EXCEPT ![s] = NewShift(call[c].loc, call[c].opening)]
      BY <2>5 DEF OpenInsert
    <3>1. shift[s].status \notin {"CLOSED", "GONE"} /\ End(c)
      BY <2>5 DEF NoRow, OpenInsert
    <3> QED BY <2>3, <3>1
  <2>6. ASSUME PatchWrite(c)
        PROVE  shift'[call'[d].shift].status \in {"CLOSED", "GONE"}
    <3>1. call[c].shift \in ShiftIds /\ call[c].patch \in Patches
      BY <2>0, <2>6 DEF PatchWrite, Calls, Idle
    <3>2. CASE Live(call[c].shift)
      <4>1. Patched(shift[call[c].shift], call[c].patch).status = shift[call[c].shift].status
        BY <3>1, <3>2, LiveRow DEF Patched, Rows
      <4> QED BY <2>3, <2>6, <3>1, <3>2, <4>1 DEF PatchWrite
    <3> QED BY <2>4, <2>6, <3>2 DEF PatchWrite
  <2>7. ASSUME CloseWrite(c)
        PROVE  shift'[call'[d].shift].status \in {"CLOSED", "GONE"}
    <3>1. call[c].shift \in ShiftIds
      BY <2>0, <2>7 DEF CloseWrite, Calls, Idle
    <3>2. CASE Live(call[c].shift)
      <4>1. Closed(shift[call[c].shift], call[c].figures).status = "CLOSED"
        BY <3>1, <3>2, LiveRow DEF Closed, Rows
      <4> QED BY <2>3, <2>7, <3>1, <3>2, <4>1 DEF CloseWrite
    <3> QED BY <2>4, <2>7, <3>2 DEF CloseWrite
  <2>8. ASSUME RemoveWrite(c)
        PROVE  shift'[call'[d].shift].status \in {"CLOSED", "GONE"}
    <3>1. call[c].shift \in ShiftIds /\ GoneRow.status = "GONE"
      BY <2>0, <2>8 DEF RemoveWrite, Calls, Idle, GoneRow
    <3> QED BY <2>3, <2>4, <2>8, <3>1 DEF RemoveWrite
  <2>9. ASSUME Abort(c) PROVE shift'[call'[d].shift].status \in {"CLOSED", "GONE"}
    BY <2>4, <2>9 DEF Abort, Fail
  <2>10. ASSUME \/ \E l \in Locations, opening \in Openings : OpenRead(c, l, opening)
                \/ \E s \in ShiftIds : \/ \E patch \in Patches : PatchRead(c, s, patch)
                                       \/ \E total \in Closings : CloseRead(c, s, total)
         PROVE  shift'[call'[d].shift].status \in {"CLOSED", "GONE"}
    <3>1. d # c
      BY <2>0, <2>10 DEF OpenRead, PatchRead, CloseRead, Start
    <3> QED BY <2>0, <2>2, <2>10, <3>1 DEF OpenRead, PatchRead, CloseRead, Start
  <2> QED BY <1>2, <2>1, <2>5, <2>6, <2>7, <2>8, <2>9, <2>10 DEF BeginCall, Step
<1> QED BY <1>1, <1>2 DEF Next

(***************************************************************************)
(* Whatever requests overtake each other, an open shift is never deleted   *)
(* (remove, 130-142): remove found it closed, and it stayed closed.        *)
(***************************************************************************)
THEOREM OpenShiftStays == Spec => OpenShiftIsKept
<1>1. Init => DeleteChecked
  BY DEF Init, HandlersInit, Idle, DeleteChecked
<1>2. TypeOK /\ DeleteChecked /\ [Next]_vars
        => [\A s \in ShiftIds : shift[s].status = "OPEN" => shift'[s] # GoneRow]_vars
  <2> SUFFICES ASSUME TypeOK, DeleteChecked, NEW c \in Callers,
                      BeginCall(c) \/ Step(c) \/ Abort(c),
                      NEW s \in ShiftIds, shift[s].status = "OPEN"
               PROVE  shift'[s] # GoneRow
    BY DEF Next
  <2>0. shift \in [ShiftIds -> Rows \cup {NoRow, GoneRow}] /\ call \in [Callers -> Calls]
    BY DEF TypeOK
  <2>1. shift[s] \in Rows /\ Live(s) /\ shift[s] # GoneRow
    BY <2>0 DEF NoRow, GoneRow, Live, Statuses
  <2>2. \A row \in Rows : row # GoneRow
    BY VacantRows DEF Rows
  <2>3. ASSUME OpenInsert(c) PROVE shift'[s] # GoneRow
    BY <2>0, <2>1, <2>3 DEF OpenInsert, NoRow
  <2>4. ASSUME PatchWrite(c) PROVE shift'[s] # GoneRow
    <3>1. call[c].patch \in Patches
      BY <2>0, <2>4 DEF PatchWrite, Calls, Idle
    <3> QED BY <2>0, <2>1, <2>2, <2>4, <3>1, RowsStayRows DEF PatchWrite
  <2>5. ASSUME CloseWrite(c) PROVE shift'[s] # GoneRow
    <3>1. call[c].figures \in Figures
      BY <2>0, <2>5 DEF CloseWrite, Calls, Idle
    <3> QED BY <2>0, <2>1, <2>2, <2>5, <3>1, RowsStayRows DEF CloseWrite
  <2>6. ASSUME RemoveWrite(c) PROVE shift'[s] # GoneRow
    <3>1. call[c].shift # s
      BY <2>6 DEF RemoveWrite, DeleteChecked
    <3> QED BY <2>0, <2>1, <2>6, <3>1 DEF RemoveWrite
  <2>7. ASSUME UNCHANGED shift PROVE shift'[s] # GoneRow
    BY <2>1, <2>7
  <2> QED BY <2>3, <2>4, <2>5, <2>6, <2>7
          DEF BeginCall, Step, Abort, OpenRead, PatchRead, CloseRead, RemoveRead
<1> QED BY <1>1, <1>2, TypeInit, TypePreserved, DeletePreserved, PTL DEF Spec, OpenShiftIsKept

-----------------------------------------------------------------------------
(* A guarded shift is closed once *)

IsAbout(k, s) == k.step \in {"patch", "close", "delete"} /\ k.shift = s

\* No two requests in flight are about one guarded shift.
Alone == \A c, d \in Callers, s \in Guarded :
  c # d /\ IsAbout(call[c], s) => ~IsAbout(call[d], s)

\* The figures a handler is about to write are those of an open row as it is now.
CloseChecked == \A c \in Callers, s \in Guarded :
  call[c].step = "close" /\ IsAbout(call[c], s) =>
    shift[s].status = "OPEN" /\ call[c].figures.expected = shift[s].opening

GuardInv == TypeOK /\ Alone /\ CloseChecked

LEMMA AloneStays ==
  ASSUME TypeOK, Alone, [Next]_vars
  PROVE  Alone'
<1>1. CASE UNCHANGED vars
  BY <1>1 DEF vars, Alone
<1>2. ASSUME NEW c \in Callers, BeginCall(c) \/ Step(c) \/ Abort(c) PROVE Alone'
  <2>0. call \in [Callers -> Calls]
    BY DEF TypeOK
  <2>1. ASSUME End(c) PROVE Alone'
    BY <2>0, <2>1 DEF End, Idle, Alone, IsAbout
  <2>2. ASSUME NEW k, Start(c, k),
               \A s \in Guarded : IsAbout(k, s) => \A d \in Callers : ~IsAbout(call[d], s)
        PROVE  Alone'
    BY <2>0, <2>2 DEF Start, Alone
  <2>3. ASSUME NEW l \in Locations, NEW opening \in Openings, OpenRead(c, l, opening)
        PROVE  Alone'
    BY <2>2, <2>3 DEF OpenRead, IsAbout
  <2>4. ASSUME NEW s \in ShiftIds, NEW patch \in Patches, PatchRead(c, s, patch) PROVE Alone'
    BY <2>2, <2>4 DEF PatchRead, About, IsAbout
  <2>5. ASSUME NEW s \in ShiftIds, NEW total \in Closings, CloseRead(c, s, total) PROVE Alone'
    BY <2>2, <2>5 DEF CloseRead, About, IsAbout
  <2>6. ASSUME NEW s \in ShiftIds, RemoveRead(c, s) PROVE Alone'
    BY <2>2, <2>6 DEF RemoveRead, About, IsAbout
  <2> QED BY <1>2, <2>1, <2>3, <2>4, <2>5, <2>6
          DEF BeginCall, Step, OpenInsert, PatchWrite, CloseWrite, RemoveWrite, Abort, Fail
<1> QED BY <1>1, <1>2 DEF Next

(***************************************************************************)
(* What a step can do to a guarded shift: nothing, open it, or what the    *)
(* one request about it is going to do.                                    *)
(***************************************************************************)
LEMMA GuardedSteps ==
  ASSUME TypeOK, NEW c \in Callers, BeginCall(c) \/ Step(c) \/ Abort(c), NEW s \in Guarded
  PROVE  \/ shift'[s] = shift[s]
         \/ shift[s] = NoRow /\ shift'[s].status = "OPEN" /\ End(c)
         \/ /\ IsAbout(call[c], s) /\ Live(s) /\ End(c)
            /\ \/ /\ call[c].step = "patch"
                  /\ shift'[s].status = shift[s].status
                  /\ shift'[s].figures = shift[s].figures
               \/ /\ call[c].step = "close"
                  /\ shift'[s] = Closed(shift[s], call[c].figures)
               \/ /\ call[c].step = "delete"
                  /\ shift'[s] = GoneRow
<1>0. /\ s \in ShiftIds
      /\ shift \in [ShiftIds -> Rows \cup {NoRow, GoneRow}] /\ call \in [Callers -> Calls]
  BY ShiftsAssumption DEF ShiftsAssumption, TypeOK
<1>1. ASSUME OpenInsert(c), shift'[s] # shift[s]
      PROVE  shift[s] = NoRow /\ shift'[s].status = "OPEN" /\ End(c)
  BY <1>0, <1>1 DEF OpenInsert, NewShift
<1>2. ASSUME PatchWrite(c), shift'[s] # shift[s]
      PROVE  /\ IsAbout(call[c], s) /\ Live(s) /\ End(c) /\ call[c].step = "patch"
             /\ shift'[s].status = shift[s].status
             /\ shift'[s].figures = shift[s].figures
  <2>1. Live(s) /\ call[c].shift = s /\ shift'[s] = Patched(shift[s], call[c].patch)
    BY <1>0, <1>2 DEF PatchWrite
  <2>2. shift[s] \in Rows
    BY <1>0, <2>1, LiveRow
  <2> QED BY <1>2, <2>1, <2>2 DEF PatchWrite, Patched, Rows, IsAbout
<1>3. ASSUME CloseWrite(c), shift'[s] # shift[s]
      PROVE  /\ IsAbout(call[c], s) /\ Live(s) /\ End(c) /\ call[c].step = "close"
             /\ shift'[s] = Closed(shift[s], call[c].figures)
  BY <1>0, <1>3 DEF CloseWrite, IsAbout
<1>4. ASSUME RemoveWrite(c), shift'[s] # shift[s]
      PROVE  /\ IsAbout(call[c], s) /\ Live(s) /\ End(c) /\ call[c].step = "delete"
             /\ shift'[s] = GoneRow
  BY <1>0, <1>4 DEF RemoveWrite, IsAbout
<1>5. ASSUME UNCHANGED shift PROVE shift'[s] = shift[s]
  BY <1>5
<1> QED BY <1>1, <1>2, <1>3, <1>4, <1>5
        DEF BeginCall, Step, Abort, OpenRead, PatchRead, CloseRead, RemoveRead

LEMMA CloseCheckedStays ==
  ASSUME GuardInv, [Next]_vars
  PROVE  CloseChecked'
<1> SUFFICES ASSUME NEW d \in Callers, NEW s \in Guarded,
                    call'[d].step = "close", IsAbout(call'[d], s)
             PROVE  shift'[s].status = "OPEN" /\ call'[d].figures.expected = shift'[s].opening
  BY DEF CloseChecked
<1>1. CASE UNCHANGED vars
  BY <1>1 DEF vars, GuardInv, CloseChecked
<1>2. ASSUME NEW c \in Callers, BeginCall(c) \/ Step(c) \/ Abort(c)
      PROVE  shift'[s].status = "OPEN" /\ call'[d].figures.expected = shift'[s].opening
  <2>0. call \in [Callers -> Calls] /\ shift \in [ShiftIds -> Rows \cup {NoRow, GoneRow}]
        /\ s \in ShiftIds
    BY ShiftsAssumption DEF GuardInv, TypeOK, ShiftsAssumption
  <2>1. CASE call'[d] = call[d]
    <3>1. shift[s].status = "OPEN" /\ call[d].figures.expected = shift[s].opening
      BY <2>1 DEF GuardInv, CloseChecked
    <3>2. End(c) => c # d
      BY <2>0, <2>1 DEF End, Idle
    <3>3. c # d => ~IsAbout(call[c], s)
      BY <2>1 DEF GuardInv, Alone
    <3> QED BY <1>2, <2>1, <3>1, <3>2, <3>3, GuardedSteps DEF GuardInv, NoRow
  <2>2. CASE call'[d] # call[d]
    <3>1. ~End(c)
      BY <2>0, <2>2 DEF End, Idle
    <3>2. PICK r \in ShiftIds, total \in Closings : CloseRead(c, r, total)
      BY <1>2, <2>0, <2>2, <3>1
         DEF BeginCall, Step, Abort, Fail, OpenInsert, PatchWrite, CloseWrite, RemoveWrite,
             OpenRead, PatchRead, RemoveRead, Start
    <3>3. d = c /\ call'[c] = [step |-> "close", shift |-> r, figures |-> FiguresOf(shift[r], total)]
      BY <2>0, <2>2, <3>2 DEF CloseRead, Start
    <3>4. r = s /\ Live(s) /\ shift[s].status # "CLOSED" /\ shift' = shift
      BY <3>2, <3>3 DEF CloseRead, About, IsAbout
    <3> QED BY <3>3, <3>4 DEF FiguresOf, Live, Statuses
  <2> QED BY <2>1, <2>2
<1> QED BY <1>1, <1>2 DEF Next

(***************************************************************************)
(* A guarded shift is closed on the opening cash it has at that moment,    *)
(* and its closing figures never change again (close, 97-128).             *)
(***************************************************************************)
THEOREM GuardedShiftIsClosedOnce == Spec => ClosedOnce
<1>1. Init => GuardInv
  BY TypeInit DEF Init, HandlersInit, Idle, GuardInv, Alone, CloseChecked, IsAbout
<1>2. GuardInv /\ [Next]_vars => GuardInv'
  BY TypePreserved, AloneStays, CloseCheckedStays DEF GuardInv
<1>3. GuardInv /\ [Next]_vars => [\A s \in Guarded : Live(s)' =>
        /\ shift[s].status = "OPEN" /\ shift'[s].status = "CLOSED" =>
             shift'[s].figures.expected = shift[s].opening
        /\ shift[s].status = "CLOSED" =>
             /\ shift'[s].status = "CLOSED"
             /\ shift'[s].figures = shift[s].figures]_vars
  <2> SUFFICES ASSUME GuardInv, NEW c \in Callers, BeginCall(c) \/ Step(c) \/ Abort(c),
                      NEW s \in Guarded, Live(s)'
               PROVE  /\ shift[s].status = "OPEN" /\ shift'[s].status = "CLOSED" =>
                           shift'[s].figures.expected = shift[s].opening
                      /\ shift[s].status = "CLOSED" =>
                           /\ shift'[s].status = "CLOSED"
                           /\ shift'[s].figures = shift[s].figures
    BY DEF Next
  <2>1. ASSUME call[c].step = "close", IsAbout(call[c], s), Live(s),
               shift'[s] = Closed(shift[s], call[c].figures)
        PROVE  /\ shift[s].status = "OPEN"
               /\ shift'[s].figures.expected = shift[s].opening
    <3>1. shift[s] \in Rows
      BY <2>1, LiveRow, ShiftsAssumption DEF GuardInv, ShiftsAssumption
    <3> QED BY <2>1, <3>1 DEF GuardInv, CloseChecked, Closed, Rows
  <2>2. shift'[s] # GoneRow
    BY VacantRows DEF Live
  <2> QED BY <2>1, <2>2, GuardedSteps DEF GuardInv, NoRow
<1> QED BY <1>1, <1>2, <1>3, PTL DEF Spec, ClosedOnce
=============================================================================
