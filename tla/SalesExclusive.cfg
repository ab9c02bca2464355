\* Two sales, one of them guarded, two payments, two requests in flight,
\* statements that may fail and clients that set COMPLETED by hand.
CONSTANTS
  Txs = {t1, t2}
  Pays = {p1, p2}
  Callers = {c1, c2}
  Subtotals = {1}
  Adjustments = {}
  Amounts = {1}
  TxPatchStatuses = {"COMPLETED"}
  PayPatchStatuses = {"COMPLETED"}
  Guarded = {t1}
  Faults = TRUE
  Absent = Absent
SPECIFICATION Spec
SYMMETRY CallersAndPayments
CHECK_DEADLOCK FALSE
INVARIANTS
  TypeOK
  AtMostOneList
  ChecksHold
PROPERTIES
  CompletedIsFinal
  SettledPaymentIsFinal
  RefundOnce
  StampedIsCovered
