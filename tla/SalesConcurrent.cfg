\* Clients as they please: two requests in flight over one sale and two payments, a tax
\* that changes, statements that may fail.
CONSTANTS
  Txs = {t1}
  Pays = {p1, p2}
  Callers = {c1, c2}
  Subtotals = {1}
  Adjustments = {0, 1}
  Amounts = {1}
  TxPatchStatuses = {}
  PayPatchStatuses = {"COMPLETED"}
  Guarded = {}
  Faults = TRUE
  Absent = Absent
SPECIFICATION HistorySpec
SYMMETRY CallersAndPayments
CHECK_DEADLOCK FALSE
INVARIANTS
  ListsBounded
  StampedBillWasPaid
  RefundedWasSettled
