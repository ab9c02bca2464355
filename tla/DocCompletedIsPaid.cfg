\* PR-TRANSACTIONS.md:12, clients sending no status with PUT /transactions/:id.
CONSTANTS
  Txs = {t1}
  Pays = {p1}
  Subtotals = {1}
  Adjustments = {}
  Amounts = {1}
  TxPatchStatuses = {}
  PayPatchStatuses = {"FAILED"}
  Absent = Absent
  Others = FALSE
SPECIFICATION AtomicSpec
CHECK_DEADLOCK FALSE
INVARIANTS
  CompletedIsPaid
