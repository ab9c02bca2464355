\* Two tills taking six orders over a local day and a half, west of Greenwich, while
\* one of them deletes orders.  Sales and faults add no state that is not reached without.
CONSTANTS
  Ords = {o1, o2, o3, o4, o5, o6}
  Txs = {}
  Callers = {c1, c2}
  Tills = {c1, c2}
  Staff = {}
  Managers = {c2}
  PatchStatuses = {}
  Guarded = {}
  Faults = FALSE
  ZoneShift = 1
  MaxDeleted = 2
  MaxClock = 2
  Absent = Absent
SPECIFICATION Spec
SYMMETRY OrderIds
CHECK_DEADLOCK FALSE
INVARIANTS
  FewShareANumber
