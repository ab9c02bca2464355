----------------------------- MODULE CashRegisters -----------------------------
(***************************************************************************)
(* CashRegistersService: the cash counted in a register, one row per       *)
(* denomination, and the expenses paid out of it.  Nothing but their sums  *)
(* is ever read of the rows, so a register carries the two sums; an        *)
(* expense may be of 0, so whether there are any is kept beside theirs.    *)
(* Money is counted in half pesos.                                         *)
(*                                                                         *)
(* Clients are careful about the registers of Guarded: they have at most   *)
(* one unanswered request about such a register.  About the others they do *)
(* as they please.                                                         *)
(***************************************************************************)
EXTENDS Integers, Functions, Handlers

CONSTANTS
  RegIds,          \* ids the CashRegister table may ever hand out
  Expected,        \* amounts of cash a client expects in a register
  Denominations,   \* face values of bills and coins
  MaxCount,        \* bound on the count of one denomination
  Amounts,         \* amounts of an expense
  Counts,          \* values of countedCash sent with POST or PATCH
  Totals,          \* values of totalExpenses sent with POST or PATCH
  Removable,       \* registers that clients delete
  Guarded,         \* registers with at most one unanswered request
  MaxRegisters,    \* bound on the registers ever created
  MaxRecorded,     \* bound on the rows recorded, as a sum
  Absent           \* an optional field left out of a request

ASSUME RegistersAssumption ==
  /\ Expected \subseteq Nat /\ Counts \subseteq Nat /\ Totals \subseteq Nat
  /\ Denominations \subseteq Nat \ {0} /\ IsFiniteSet(Denominations)
  /\ MaxCount \in Nat /\ MaxRecorded \in Nat /\ MaxRegisters \in Nat
  /\ Amounts \subseteq Nat
  /\ Guarded \subseteq RegIds /\ Removable \subseteq RegIds
  /\ Absent \notin Int

VARIABLE
  reg     \* the CashRegister table and the sums of its two child tables

vars == <<reg, call>>

NoRow == [status |-> "NONE"]
GoneRow == [status |-> "GONE"]

Rows == [expected: Nat,
         counted: Nat \cup {Absent},   \* countedCash
         totalExpenses: Nat,
         recorded: Nat,                \* the denomination rows, added up
         spent: Nat,                   \* the expense rows, added up
         expenses: BOOLEAN]            \* whether there are expense rows
Patches == [expected: Expected \cup {Absent},
            counted: Counts \cup {Absent},
            totalExpenses: Totals \cup {Absent}]
Sheets == [Denominations -> 0..MaxCount]
Calls ==
  {Idle}
  \cup [step: {"patch"}, reg: RegIds, patch: Patches]
  \cup [step: {"denominations"}, reg: RegIds, sheet: Sheets,
        left: SUBSET Denominations, sum: Nat, failed: BOOLEAN]
  \cup [step: {"counted", "total"}, reg: RegIds, sum: Nat]
  \cup [step: {"expense"}, reg: RegIds, amount: Amounts]
  \cup [step: {"sum", "rmDenominations", "rmExpenses", "rmRow"}, reg: RegIds]

TypeOK ==
  /\ reg \in [RegIds -> Rows \cup {NoRow, GoneRow}]
  /\ call \in [Callers -> Calls]

Live(r) == reg[r] \notin {NoRow, GoneRow}

\* The register whose client still waits for the answer to k.
WaitsFor(k, r) ==
  /\ k # Idle
  /\ k.reg = r
  /\ k.step = "denominations" => ~k.failed

\* A request about an existing register: its first statement finds the row.
Begin(c, k) ==
  /\ Live(k.reg)
  /\ k.reg \in Guarded => \A d \in Callers : ~WaitsFor(call[d], k.reg)
  /\ Start(c, k)
  /\ UNCHANGED reg

-----------------------------------------------------------------------------
(* create and update *)

\* Mutant: totalExpenses has no default.
NewRegisterWithoutTotal(expected, counted, totalExpenses) ==
  [expected |-> expected, counted |-> counted, totalExpenses |-> Absent,
   recorded |-> 0, spent |-> 0, expenses |-> FALSE]

NewRegister(expected, counted, totalExpenses) ==
  [expected |-> expected, counted |-> counted, totalExpenses |-> totalExpenses,
   recorded |-> 0, spent |-> 0, expenses |-> FALSE]

Create(r, expected, counted, totalExpenses) ==
  /\ reg[r] = NoRow
  /\ Cardinality({q \in RegIds : reg[q] # NoRow}) < MaxRegisters
  /\ reg' = [reg EXCEPT ![r] = NewRegister(expected, counted, totalExpenses)]
  /\ UNCHANGED call

PatchRead(c, r, patch) == Begin(c, [step |-> "patch", reg |-> r, patch |-> patch])

\* Columns whose value the request leaves out stay as they are.
Given(old, new) == IF new = Absent THEN old ELSE new
Patched(row, patch) ==
  [row EXCEPT !.expected = Given(@, patch.expected),
              !.counted = Given(@, patch.counted),
              !.totalExpenses = Given(@, patch.totalExpenses)]

PatchWrite(c) ==
  LET k == call[c] IN
  /\ k.step = "patch"
  /\ reg' = IF Live(k.reg) THEN [reg EXCEPT ![k.reg] = Patched(@, k.patch)] ELSE reg
  /\ End(c)

-----------------------------------------------------------------------------
(* recordDenominations *)

SumOf(sheet) == SumFunction([d \in Denominations |-> d * sheet[d]])

\* The inserts are all sent at once; when none is needed the count is written next.
DenominationsRead(c, r, sheet) ==
  LET counted == {d \in Denominations : sheet[d] # 0} IN
  /\ Live(r) => reg[r].recorded + SumOf(sheet) <= MaxRecorded
  /\ Begin(c, IF counted = {}
                THEN [step |-> "counted", reg |-> r, sum |-> 0]
                ELSE [step |-> "denominations", reg |-> r, sheet |-> sheet,
                      left |-> counted, sum |-> 0, failed |-> FALSE])

\* Promise.all: when the last insert of left is done the handler goes on with the sum
\* of the rows, unless it has already answered with the error of one of them.
Settled(k, d, sum, failed) ==
  LET left == k.left \ {d} IN
  IF left # {} THEN [k EXCEPT !.left = left, !.sum = sum, !.failed = failed]
  ELSE IF failed THEN Idle
  ELSE [step |-> "counted", reg |-> k.reg, sum |-> sum]

\* One insert is done; the foreign key throws when the register is gone by now.
InsertDenomination(c, d) ==
  LET k == call[c]
      total == d * k.sheet[d]
  IN
  /\ k.step = "denominations"
  /\ d \in k.left
  /\ IF Live(k.reg)
       THEN /\ reg' = [reg EXCEPT ![k.reg].recorded = @ + total]
            /\ call' = [call EXCEPT ![c] = Settled(k, d, k.sum + total, k.failed)]
       ELSE /\ reg' = reg
            /\ call' = [call EXCEPT ![c] = Settled(k, d, k.sum, TRUE)]

\* Mutant: Promise.allSettled, the total is that of the request.
LoseDenominationSilently(c, d) ==
  LET k == call[c] IN
  /\ Faults
  /\ k.step = "denominations"
  /\ d \in k.left
  /\ call' = [call EXCEPT ![c] = Settled(k, d, k.sum + d * k.sheet[d], k.failed)]
  /\ UNCHANGED reg

\* One insert fails; the others have been sent and go on.
LoseDenomination(c, d) ==
  LET k == call[c] IN
  /\ Faults
  /\ k.step = "denominations"
  /\ d \in k.left
  /\ call' = [call EXCEPT ![c] = Settled(k, d, k.sum, TRUE)]
  /\ UNCHANGED reg

WriteCounted(c) ==
  LET k == call[c] IN
  /\ k.step = "counted"
  /\ reg' = IF Live(k.reg) THEN [reg EXCEPT ![k.reg].counted = k.sum] ELSE reg
  /\ End(c)

-----------------------------------------------------------------------------
(* recordExpense *)

ExpenseRead(c, r, amount) ==
  /\ Live(r) => reg[r].spent + amount <= MaxRecorded
  /\ Begin(c, [step |-> "expense", reg |-> r, amount |-> amount])

WithExpense(row, amount) == [row EXCEPT !.spent = @ + amount, !.expenses = TRUE]
WithoutExpenses(row) == [row EXCEPT !.spent = 0, !.expenses = FALSE]

\* Mutant: the expenses are added up before this one is inserted.
InsertExpenseLate(c) ==
  LET k == call[c] IN
  /\ k.step = "expense"
  /\ IF Live(k.reg)
       THEN /\ reg' = [reg EXCEPT ![k.reg] = WithExpense(@, k.amount)]
            /\ call' = [call EXCEPT ![c] =
                 [step |-> "total", reg |-> k.reg, sum |-> reg[k.reg].spent]]
       ELSE /\ reg' = reg
            /\ End(c)

InsertExpense(c) ==
  LET k == call[c] IN
  /\ k.step = "expense"
  /\ IF Live(k.reg)
       THEN /\ reg' = [reg EXCEPT ![k.reg] = WithExpense(@, k.amount)]
            /\ call' = [call EXCEPT ![c] = [step |-> "sum", reg |-> k.reg]]
       ELSE /\ reg' = reg
            /\ End(c)

\* Mutant: the new expense is added to the total on record.
SumOnRecord(c) ==
  LET r == call[c].reg IN
  /\ call[c].step = "sum"
  /\ call' = [call EXCEPT ![c] =
       [step |-> "total", reg |-> r,
        sum |-> IF Live(r) THEN reg[r].totalExpenses + reg[r].spent ELSE 0]]
  /\ UNCHANGED reg

\* The expenses are read back and added up; a register deleted since has none.
SumExpenses(c) ==
  LET r == call[c].reg IN
  /\ call[c].step = "sum"
  /\ call' = [call EXCEPT ![c] =
       [step |-> "total", reg |-> r, sum |-> IF Live(r) THEN reg[r].spent ELSE 0]]
  /\ UNCHANGED reg

WriteTotal(c) ==
  LET k == call[c] IN
  /\ k.step = "total"
  /\ reg' = IF Live(k.reg) THEN [reg EXCEPT ![k.reg].totalExpenses = k.sum] ELSE reg
  /\ End(c)

-----------------------------------------------------------------------------
(* remove, in three statements *)

RemoveRead(c, r) == r \in Removable /\ Begin(c, [step |-> "rmDenominations", reg |-> r])

RemoveDenominations(c) ==
  LET r == call[c].reg IN
  /\ call[c].step = "rmDenominations"
  /\ reg' = IF Live(r) THEN [reg EXCEPT ![r].recorded = 0] ELSE reg
  /\ Goto(c, "rmExpenses")

RemoveExpenses(c) ==
  LET r == call[c].reg IN
  /\ call[c].step = "rmExpenses"
  /\ reg' = IF Live(r) THEN [reg EXCEPT ![r] = WithoutExpenses(@)] ELSE reg
  /\ Goto(c, "rmRow")

\* The foreign keys of the child tables refuse the delete while a row refers to it.
RemoveRow(c) ==
  LET r == call[c].reg IN
  /\ call[c].step = "rmRow"
  /\ reg' = IF Live(r) /\ reg[r].recorded = 0 /\ ~reg[r].expenses
              THEN [reg EXCEPT ![r] = GoneRow]
              ELSE reg
  /\ End(c)

-----------------------------------------------------------------------------
Abort(c) == Fail(c) /\ UNCHANGED reg

CreateRegister ==
  \E r \in RegIds, expected \in Expected, counted \in Counts \cup {Absent}, total \in Totals \cup {0} :
    Create(r, expected, counted, total)

BeginCall(c) ==
  \E r \in RegIds :
    \/ \E patch \in Patches : PatchRead(c, r, patch)
    \/ \E sheet \in Sheets : DenominationsRead(c, r, sheet)
    \/ \E amount \in Amounts : ExpenseRead(c, r, amount)
    \/ RemoveRead(c, r)

Step(c) ==
  \/ PatchWrite(c)
  \/ \E d \in Denominations : InsertDenomination(c, d)
  \/ WriteCounted(c)
  \/ InsertExpense(c)
  \/ SumExpenses(c)
  \/ WriteTotal(c)
  \/ RemoveDenominations(c)
  \/ RemoveExpenses(c)
  \/ RemoveRow(c)

Init == reg = [r \in RegIds |-> NoRow] /\ HandlersInit

Next ==
  \/ CreateRegister
  \/ \E c \in Callers :
       \/ BeginCall(c)
       \/ Step(c)
       \/ \E d \in Denominations : LoseDenomination(c, d)
       \/ Abort(c)

Spec == Init /\ [][Next]_vars

-----------------------------------------------------------------------------
(***************************************************************************)
(* Whatever requests overtake each other, and whichever insert fails, the  *)
(* count written is never more than the rows recorded: countedCash is      *)
(* written only when every insert of its sheet succeeded                   *)
(* (recordDenominations, 85-119).  Removals and counts set by hand apart.  *)
(***************************************************************************)
CountIsBacked == Counts = {} => \A r \in RegIds \ Removable :
  Live(r) /\ reg[r].counted # Absent => reg[r].counted <= reg[r].recorded

(***************************************************************************)
(* Whatever requests overtake each other, the total of the expenses may    *)
(* lag behind the rows but never exceeds them (recordExpense, 121-146).    *)
(***************************************************************************)
TotalIsBacked == Totals = {} => \A r \in RegIds \ Removable :
  Live(r) => reg[r].totalExpenses <= reg[r].spent

(***************************************************************************)
(* In a guarded register a new total is the sum of the expenses recorded   *)
(* at that moment, although it was added up a statement earlier, even when *)
(* an earlier expense died before it wrote its total, or a removal after   *)
(* it had deleted the rows.                                                *)
(***************************************************************************)
TotalCatchesUp == [][Totals = {} => \A r \in Guarded :
  Live(r) /\ Live(r)' /\ reg'[r].totalExpenses # reg[r].totalExpenses
    => reg'[r].totalExpenses = reg'[r].spent]_vars

-----------------------------------------------------------------------------
(* getSummary *)

Or(x, otherwise) == IF x \in {Absent, 0} THEN otherwise ELSE x

Summary(r) ==
  LET counted == Or(reg[r].counted, reg[r].recorded) IN
  [counted |-> counted,
   variance |-> counted - reg[r].expected,
   netCash |-> counted - reg[r].spent]

(***************************************************************************)
(* "Variance = Counted - Expected" and "Update denominations -> Recalculate *)
(* counted cash" (PR-CASH-REGISTER.md:62, 67): once a register was counted *)
(* and no request is in flight, its summary compares that count with what  *)
(* was expected.  A count of zero is taken for none.                       *)
(***************************************************************************)
VarianceIsOfTheCount == \A r \in RegIds :
  (\A c \in Callers : call[c] = Idle) /\ Live(r) /\ reg[r].counted # Absent
    => Summary(r).variance = reg[r].counted - reg[r].expected
=============================================================================
