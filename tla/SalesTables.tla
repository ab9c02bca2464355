----------------------------- MODULE SalesTables -----------------------------
(***************************************************************************)
(* The two tables behind the point of sale: Transaction, with its line     *)
(* items, and Payment; what a request may carry, and what each writing     *)
(* statement does to a row.  An id not handed out yet has NoRow, a deleted *)
(* one GoneRow: ids are cuids and never reused.                            *)
(***************************************************************************)
EXTENDS Integers, FiniteSets, Functions

CONSTANTS
  Txs,                \* ids the Transaction table may ever hand out
  Pays,               \* ids the Payment table may ever hand out
  Subtotals,          \* what a non-empty list of line items adds up to
  Adjustments,        \* taxAmount - discountAmount that clients send, in the smallest unit of money
  Amounts,            \* amounts of a payment
  TxPatchStatuses,    \* statuses clients send with PUT /transactions/:id
  PayPatchStatuses,   \* statuses clients send with PUT /payments/:id
  Absent              \* an optional field left out of a request

TransactionStatus == {"PENDING", "COMPLETED", "CANCELLED", "REFUNDED"}
PaymentStatus == {"PENDING", "COMPLETED", "FAILED", "REFUNDED"}

ASSUME TablesAssumption ==
  /\ IsFiniteSet(Pays)
  /\ Subtotals \subseteq Nat
  /\ Adjustments \subseteq Int
  /\ Amounts \subseteq Nat \ {0}
  /\ TxPatchStatuses \subseteq TransactionStatus
  /\ PayPatchStatuses \subseteq PaymentStatus
  /\ Absent \notin Txs

VARIABLES
  tx,     \* the Transaction table; tx[t].lists counts the item lists stored for t
  pay     \* the Payment table

NoRow == [status |-> "NONE"]
GoneRow == [status |-> "GONE"]

TxRows == [status: TransactionStatus, lists: Nat, subtotal: Nat,
           adjust: Int, completedAt: BOOLEAN]
PayRows == [status: PaymentStatus, tx: Txs, amount: Nat, refundedAt: BOOLEAN]

LiveTx(t) == tx[t].status \in TransactionStatus
LivePay(p) == pay[p].status \in PaymentStatus

TablesTypeOK ==
  /\ tx \in [Txs -> TxRows \cup {NoRow, GoneRow}]
  /\ pay \in [Pays -> PayRows \cup {NoRow, GoneRow}]

(***************************************************************************)
(* Money owed on a sale.  Every payment row counts, whatever its status.   *)
(***************************************************************************)
PaysOf(t) == {p \in Pays : LivePay(p) /\ pay[p].tx = t}
Paid(t) == SumFunction([p \in PaysOf(t) |-> pay[p].amount])
Balance(t) == (tx[t].subtotal + tx[t].adjust) - Paid(t)

(***************************************************************************)
(* Requests.  The lineItems of a request are either empty or one list      *)
(* worth a subtotal; optional fields may be Absent.                        *)
(***************************************************************************)
NoItems == [lists |-> 0, subtotal |-> 0]
ItemInputs == {NoItems} \cup [lists: {1}, subtotal: Subtotals]

\* A sale created with neither tax nor discount has none.
NewAdjustments == Adjustments \cup {0}

TxPatches == [items: ItemInputs,
              adjust: Adjustments \cup {Absent},
              status: TxPatchStatuses \cup {Absent}]
\* Mutant: a status the enum does not have.
CancelPatchMisspelt == [items |-> NoItems, adjust |-> Absent, status |-> "CANCELED"]
CancelPatch == [items |-> NoItems, adjust |-> Absent, status |-> "CANCELLED"]

PayPatches == [tx: Txs \cup {Absent},
               amount: Amounts \cup {Absent},
               status: PayPatchStatuses \cup {Absent}]

(***************************************************************************)
(* Rows as the writing statements leave them.                              *)
(***************************************************************************)
\* A column is overwritten only when the request carries a value for it.
Patched(old, new) == IF new = Absent THEN old ELSE new

\* transaction.create with its line items: the sale is born PENDING.
NewTx(items, adjust) ==
  [status |-> "PENDING", lists |-> items.lists, subtotal |-> items.subtotal,
   adjust |-> adjust, completedAt |-> FALSE]

\* transactionLineItem.deleteMany
ClearedTx(row) == [row EXCEPT !.lists = 0, !.subtotal = 0]

\* transaction.update: columns overwritten, the request's line items added.
PatchedTx(row, patch) ==
  [row EXCEPT !.status = Patched(@, patch.status),
              !.adjust = Patched(@, patch.adjust),
              !.lists = @ + patch.items.lists,
              !.subtotal = @ + patch.items.subtotal]

CompletedTx(row) == [row EXCEPT !.status = "COMPLETED", !.completedAt = TRUE]

NewPay(t, amount) ==
  [status |-> "PENDING", tx |-> t, amount |-> amount, refundedAt |-> FALSE]

PatchedPay(row, patch) ==
  [row EXCEPT !.status = Patched(@, patch.status),
              !.tx = Patched(@, patch.tx),
              !.amount = Patched(@, patch.amount)]

RefundedPay(row) == [row EXCEPT !.status = "REFUNDED", !.refundedAt = TRUE]

\* Mutant: settled payments are spared.
WithoutOpenPaysOf(t) ==
  [p \in Pays |-> IF p \in PaysOf(t) /\ pay[p].status # "COMPLETED" THEN GoneRow ELSE pay[p]]

\* payment.deleteMany of a sale: whatever the status of the payment.
WithoutPaysOf(t) == [p \in Pays |-> IF p \in PaysOf(t) THEN GoneRow ELSE pay[p]]

TablesInit ==
  /\ tx = [t \in Txs |-> NoRow]
  /\ pay = [p \in Pays |-> NoRow]
=============================================================================
