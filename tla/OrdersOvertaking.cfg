\* Clients as they please, none setting a status by hand: two orders, three requests.
CONSTANTS
  Ords = {o1, o2}
  Txs = {t1}
  Callers = {c1, c2, c3}
  Tills = {c1}
  Staff = {c1, c2, c3}
  Managers = {c1, c2, c3}
  PatchStatuses = {}
  Guarded = {}
  Faults = TRUE
  ZoneShift = 0
  MaxDeleted = 5
  MaxClock = 0
  Absent = Absent
SPECIFICATION Spec
SYMMETRY OrderIds
CHECK_DEADLOCK FALSE
INVARIANTS
  StoryInOrder
