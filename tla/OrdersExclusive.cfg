\* Two orders, clients careful about one of them, two requests in flight; a patch takes an
\* order back to the start or closes it.
CONSTANTS
  Ords = {o1, o2}
  Txs = {t1}
  Callers = {c1, c2}
  Tills = {c1, c2}
  Staff = {c1, c2}
  Managers = {c1, c2}
  PatchStatuses = {"PENDING", "SERVED", "CANCELLED"}
  Guarded = {o1}
  Faults = TRUE
  ZoneShift = 0
  MaxDeleted = 5
  MaxClock = 0
  Absent = Absent
SPECIFICATION Spec
SYMMETRY AnyCaller
CHECK_DEADLOCK FALSE
INVARIANTS
  TypeOK
PROPERTIES
  ClosedIsFinal
  ImplementsLifecycle
