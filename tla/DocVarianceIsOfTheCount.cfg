\* PR-CASH-REGISTER.md:62 and 67 under one request at a time.
CONSTANTS
  RegIds = {r1}
  Expected = {1}
  Denominations = {1, 2}
  MaxCount = 1
  Amounts = {1}
  Counts = {}
  Totals = {}
  Removable = {}
  Guarded = {}
  MaxRegisters = 1
  MaxRecorded = 3
  Callers = {c1}
  Faults = FALSE
  Absent = Absent
SPECIFICATION Spec
CHECK_DEADLOCK FALSE
INVARIANTS
  VarianceIsOfTheCount
