\* Two callers count, spend from, edit and delete one register of three kinds: a
\* guarded one, which they also delete, one about which they do as they please, and one
\* about which they do as they please and which they also delete.
CONSTANTS
  RegIds = {guarded, free, removable}
  Expected = {1}
  Denominations = {1, 2}
  MaxCount = 1
  Amounts = {0, 1}
  Counts = {}
  Totals = {}
  Removable = {guarded, removable}
  Guarded = {guarded}
  MaxRegisters = 1
  MaxRecorded = 3
  Callers = {c1, c2}
  Faults = TRUE
  Absent = Absent
SPECIFICATION Spec
CHECK_DEADLOCK FALSE
INVARIANTS
  TypeOK
  CountIsBacked
  TotalIsBacked
PROPERTIES
  TotalCatchesUp
