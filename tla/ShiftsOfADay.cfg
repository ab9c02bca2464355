\* Two callers open, edit, close and delete three shifts of two locations, careful
\* about one of the shifts, and move another to either location.
CONSTANTS
  ShiftIds = {s1, s2, s3}
  Locations = {l1, l2}
  Openings = {0, 1}
  Closings = {0, 2}
  Callers = {c1, c2}
  Openers = {c1, c2}
  Guarded = {s1}
  Mobile = {s2}
  Faults = TRUE
  Absent = Absent
SPECIFICATION Spec
SYMMETRY CallersAndPlaces
CHECK_DEADLOCK FALSE
INVARIANTS
  TypeOK
  FewOpenPerLocation
PROPERTIES
  OpenShiftIsKept
  ClosedOnce
