\* Two sales, one of them guarded, a payment that moves between them, no faults: on the
\* guarded sale the handlers are compared with the atomic API.
CONSTANTS
  Txs = {t1, t2}
  Pays = {p1}
  Callers = {c1, c2}
  Subtotals = {2}
  Adjustments = {}
  Amounts = {1, 2}
  TxPatchStatuses = {"COMPLETED"}
  PayPatchStatuses = {"COMPLETED"}
  Guarded = {t1}
  Faults = FALSE
  Absent = Absent
SPECIFICATION Spec
SYMMETRY CallersAndPayments
CHECK_DEADLOCK FALSE
PROPERTIES
  ImplementsAtomicSales
