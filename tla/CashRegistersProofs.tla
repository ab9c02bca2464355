-------------------------- MODULE CashRegistersProofs --------------------------
(***************************************************************************)
(* Theorems about CashRegisters, for any number of registers,              *)
(* denominations, amounts and requests in flight.                          *)
(***************************************************************************)
EXTENDS CashRegisters, TLAPS

-----------------------------------------------------------------------------
(* Rows and requests *)

RegRows == Rows \cup {NoRow, GoneRow}

LEMMA VacantRows == \A row \in Rows : row # NoRow /\ row # GoneRow
<1>1. \A row \in Rows : "status" \notin DOMAIN row
  BY DEF Rows
<1>2. "status" \in DOMAIN NoRow /\ "status" \in DOMAIN GoneRow
  BY DEF NoRow, GoneRow
<1> QED BY <1>1, <1>2

LEMMA LiveRow ==
  ASSUME TypeOK, NEW r \in RegIds
  PROVE  Live(r) <=> reg[r] \in Rows
BY VacantRows DEF TypeOK, Live

LEMMA NewRegisterType ==
  ASSUME NEW expected \in Expected, NEW counted \in Counts \cup {Absent}, NEW total \in Totals \cup {0}
  PROVE  NewRegister(expected, counted, total) \in Rows
BY RegistersAssumption DEF RegistersAssumption, NewRegister, Rows

LEMMA PatchedRow ==
  ASSUME NEW row \in Rows, NEW patch \in Patches
  PROVE  /\ Patched(row, patch) \in Rows
         /\ Patched(row, patch).recorded = row.recorded
         /\ Patched(row, patch).spent = row.spent
         /\ Counts = {} => Patched(row, patch).counted = row.counted
         /\ Totals = {} => Patched(row, patch).totalExpenses = row.totalExpenses
<1> DEFINE expected == Given(row.expected, patch.expected)
           counted == Given(row.counted, patch.counted)
           total == Given(row.totalExpenses, patch.totalExpenses)
<1>1. expected \in Nat /\ counted \in Nat \cup {Absent} /\ total \in Nat
  BY RegistersAssumption DEF RegistersAssumption, Given, Rows, Patches
<1>2. (Counts = {} => counted = row.counted) /\ (Totals = {} => total = row.totalExpenses)
  BY DEF Given, Patches
<1>3. Patched(row, patch)
        = [row EXCEPT !.expected = expected, !.counted = counted, !.totalExpenses = total]
  BY DEF Patched
<1> HIDE DEF expected, counted, total
<1>4. /\ Patched(row, patch) \in Rows
      /\ Patched(row, patch).recorded = row.recorded
      /\ Patched(row, patch).spent = row.spent
      /\ Patched(row, patch).counted = counted
      /\ Patched(row, patch).totalExpenses = total
  BY <1>1, <1>3 DEF Rows
<1> QED BY <1>2, <1>4

\* An expense, and the deletion of all of them, touch nothing else of a register.
LEMMA ExpenseRow ==
  ASSUME NEW row \in Rows, NEW amount \in Nat
  PROVE  /\ WithExpense(row, amount) \in Rows
         /\ WithExpense(row, amount).spent = row.spent + amount
         /\ WithExpense(row, amount).recorded = row.recorded
         /\ WithExpense(row, amount).counted = row.counted
         /\ WithExpense(row, amount).totalExpenses = row.totalExpenses
         /\ WithoutExpenses(row) \in Rows
         /\ WithoutExpenses(row).totalExpenses = row.totalExpenses
<1> DEFINE spent == row.spent + amount
           with == [row EXCEPT !.spent = spent, !.expenses = TRUE]
           without == [row EXCEPT !.spent = 0, !.expenses = FALSE]
<1>1. spent \in Nat
  BY DEF Rows
<1>2. WithExpense(row, amount) = with /\ WithoutExpenses(row) = without
  BY DEF WithExpense, WithoutExpenses
<1>3. without \in Rows /\ without.totalExpenses = row.totalExpenses
  BY DEF Rows
<1>4. with \in Rows /\ with.spent = spent /\ with.recorded = row.recorded
      /\ with.counted = row.counted /\ with.totalExpenses = row.totalExpenses
  <2> HIDE DEF spent
  <2> QED BY <1>1 DEF Rows
<1> QED BY <1>2, <1>3, <1>4

LEMMA ExpenseCall ==
  ASSUME TypeOK, NEW c \in Callers, call[c].step = "expense"
  PROVE  call[c].reg \in RegIds /\ call[c].amount \in Nat
<1>1. call[c] \in Calls
  BY DEF TypeOK
<1>2. call[c].reg \in RegIds /\ call[c].amount \in Amounts
  BY <1>1 DEF Calls, Idle
<1> QED BY <1>2, RegistersAssumption DEF RegistersAssumption

Recording == [step: {"denominations"}, reg: RegIds, sheet: Sheets,
              left: SUBSET Denominations, sum: Nat, failed: BOOLEAN]

\* What becomes of a handler when one of its inserts is done.
LEMMA SettledCall ==
  ASSUME NEW k \in Recording, NEW d \in Denominations, NEW sum \in Nat, NEW failed \in BOOLEAN
  PROVE  /\ Settled(k, d, sum, failed) \in Calls
         /\ \/ Settled(k, d, sum, failed) = Idle
            \/ /\ Settled(k, d, sum, failed).step \in {"denominations", "counted"}
               /\ Settled(k, d, sum, failed).reg = k.reg
               /\ Settled(k, d, sum, failed).sum = sum
               /\ Settled(k, d, sum, failed).step = "denominations" =>
                    Settled(k, d, sum, failed).failed = failed
         /\ k.failed /\ failed /\ Settled(k, d, sum, failed) # Idle =>
              Settled(k, d, sum, failed).step = "denominations"
<1> DEFINE left == k.left \ {d}
           next == [k EXCEPT !.left = left, !.sum = sum, !.failed = failed]
           done == [step |-> "counted", reg |-> k.reg, sum |-> sum]
<1>1. Settled(k, d, sum, failed) = IF left # {} THEN next ELSE IF failed THEN Idle ELSE done
  BY DEF Settled
<1>2. left \in SUBSET Denominations
  BY DEF Recording
<1>3. next \in Recording /\ next.reg = k.reg /\ next.sum = sum /\ next.failed = failed
      /\ next.step = "denominations"
  <2> HIDE DEF left
  <2> QED BY <1>2 DEF Recording
<1>4. done \in Calls /\ done.step = "counted" /\ done.reg = k.reg /\ done.sum = sum
  BY DEF Recording, Calls
<1>5. Idle \in Calls /\ Recording \subseteq Calls
  BY DEF Calls, Recording
<1> HIDE DEF left, next, done
<1> QED BY <1>1, <1>3, <1>4, <1>5

-----------------------------------------------------------------------------
(* Type correctness *)

LEMMA TypePreserved == TypeOK /\ [Next]_vars => TypeOK'
<1> SUFFICES ASSUME TypeOK, Next PROVE TypeOK'
  BY DEF vars, TypeOK
<1>0. reg \in [RegIds -> RegRows] /\ call \in [Callers -> Calls] /\ Idle \in Calls
  BY DEF TypeOK, RegRows, Calls
<1>1. ASSUME CreateRegister PROVE TypeOK'
  BY <1>0, <1>1, NewRegisterType DEF CreateRegister, Create, TypeOK, RegRows
<1>2. ASSUME NEW c \in Callers, NEW k \in Calls, Begin(c, k) PROVE TypeOK'
  BY <1>0, <1>2 DEF Begin, Start, TypeOK, RegRows
<1>3. ASSUME NEW c \in Callers, BeginCall(c) PROVE TypeOK'
  <2> PICK r \in RegIds :
        \/ \E patch \in Patches : PatchRead(c, r, patch)
        \/ \E sheet \in Sheets : DenominationsRead(c, r, sheet)
        \/ \E amount \in Amounts : ExpenseRead(c, r, amount)
        \/ RemoveRead(c, r)
    BY <1>3 DEF BeginCall
  <2>1. ASSUME NEW patch \in Patches, PatchRead(c, r, patch) PROVE TypeOK'
    <3>1. [step |-> "patch", reg |-> r, patch |-> patch] \in Calls
      BY DEF Calls
    <3> QED BY <1>2, <2>1, <3>1 DEF PatchRead
  <2>2. ASSUME NEW sheet \in Sheets, DenominationsRead(c, r, sheet) PROVE TypeOK'
    <3> DEFINE counted == {d \in Denominations : sheet[d] # 0}
    <3>1. /\ [step |-> "counted", reg |-> r, sum |-> 0] \in Calls
          /\ [step |-> "denominations", reg |-> r, sheet |-> sheet,
              left |-> counted, sum |-> 0, failed |-> FALSE] \in Calls
      BY DEF Calls
    <3> QED BY <1>2, <2>2, <3>1 DEF DenominationsRead
  <2>3. ASSUME NEW amount \in Amounts, ExpenseRead(c, r, amount) PROVE TypeOK'
    <3>1. [step |-> "expense", reg |-> r, amount |-> amount] \in Calls
      BY DEF Calls
    <3> QED BY <1>2, <2>3, <3>1 DEF ExpenseRead
  <2>4. ASSUME RemoveRead(c, r) PROVE TypeOK'
    <3>1. [step |-> "rmDenominations", reg |-> r] \in Calls
      BY DEF Calls
    <3> QED BY <1>2, <2>4, <3>1 DEF RemoveRead
  <2> QED BY <2>1, <2>2, <2>3, <2>4
<1>4. ASSUME NEW c \in Callers, NEW k \in Calls, reg' \in [RegIds -> RegRows],
             call' = [call EXCEPT ![c] = k]
      PROVE  TypeOK'
  BY <1>0, <1>4 DEF TypeOK, RegRows
<1>5. ASSUME NEW c \in Callers, NEW r \in RegIds, NEW row,
             Live(r) => row \in RegRows, reg' = IF Live(r) THEN [reg EXCEPT ![r] = row] ELSE reg
      PROVE  reg' \in [RegIds -> RegRows]
  BY <1>0, <1>5
<1>6. ASSUME NEW c \in Callers, PatchWrite(c) PROVE TypeOK'
  <2>1. call[c].reg \in RegIds /\ call[c].patch \in Patches
    BY <1>0, <1>6 DEF PatchWrite, Calls, Idle
  <2>2. Live(call[c].reg) => Patched(reg[call[c].reg], call[c].patch) \in RegRows
    BY <2>1, LiveRow, PatchedRow DEF RegRows
  <2> QED BY <1>0, <1>4, <1>5, <1>6, <2>1, <2>2 DEF PatchWrite, End
<1>7. ASSUME NEW c \in Callers, NEW d \in Denominations,
             InsertDenomination(c, d) \/ LoseDenomination(c, d)
      PROVE  TypeOK'
  <2> DEFINE k == call[c]
             total == d * k.sheet[d]
  <2>1. k \in Recording
    <3>1. k.step = "denominations"
      BY <1>7 DEF InsertDenomination, LoseDenomination
    <3>2. k \in Calls
      BY <1>0
    <3> HIDE DEF k
    <3> QED BY <3>1, <3>2 DEF Calls, Recording, Idle
  <2>2. k.reg \in RegIds /\ k.sum \in Nat /\ k.failed \in BOOLEAN /\ total \in Nat
    BY <2>1, RegistersAssumption DEF RegistersAssumption, Recording, Sheets
  <2>3. Live(k.reg) => [reg[k.reg] EXCEPT !.recorded = @ + total] \in RegRows
    BY <2>2, LiveRow DEF Rows, RegRows
  <2>4. /\ Settled(k, d, k.sum + total, k.failed) \in Calls
        /\ Settled(k, d, k.sum, TRUE) \in Calls
    <3>1. k.sum + total \in Nat /\ TRUE \in BOOLEAN
      BY <2>2
    <3> HIDE DEF k, total
    <3> QED BY <2>1, <2>2, <3>1, SettledCall
  <2>5. reg' \in [RegIds -> RegRows]
    BY <1>0, <1>7, <2>2, <2>3 DEF InsertDenomination, LoseDenomination
  <2> QED BY <1>4, <1>7, <2>4, <2>5 DEF InsertDenomination, LoseDenomination
<1>8. ASSUME NEW c \in Callers, WriteCounted(c) \/ WriteTotal(c) PROVE TypeOK'
  <2>1. call[c].reg \in RegIds /\ call[c].sum \in Nat
    BY <1>0, <1>8 DEF WriteCounted, WriteTotal, Calls, Idle
  <2>2. Live(call[c].reg) =>
          /\ [reg[call[c].reg] EXCEPT !.counted = call[c].sum] \in RegRows
          /\ [reg[call[c].reg] EXCEPT !.totalExpenses = call[c].sum] \in RegRows
    BY <2>1, LiveRow DEF Rows, RegRows
  <2>3. reg' \in [RegIds -> RegRows]
    BY <1>0, <1>8, <2>1, <2>2 DEF WriteCounted, WriteTotal
  <2> QED BY <1>0, <1>4, <1>8, <2>3 DEF WriteCounted, WriteTotal, End
<1>9. ASSUME NEW c \in Callers, InsertExpense(c) PROVE TypeOK'
  <2>1. call[c].reg \in RegIds /\ call[c].amount \in Nat
    BY <1>9, ExpenseCall DEF InsertExpense
  <2>2. Live(call[c].reg) => WithExpense(reg[call[c].reg], call[c].amount) \in RegRows
    BY <2>1, LiveRow, ExpenseRow DEF RegRows
  <2>3. [step |-> "sum", reg |-> call[c].reg] \in Calls
    BY <2>1 DEF Calls
  <2>4. reg' \in [RegIds -> RegRows]
    BY <1>0, <1>9, <2>1, <2>2 DEF InsertExpense
  <2> QED BY <1>0, <1>4, <1>9, <2>3, <2>4 DEF InsertExpense, End
<1>10. ASSUME NEW c \in Callers, SumExpenses(c) PROVE TypeOK'
  <2> DEFINE r == call[c].reg
             sum == IF Live(r) THEN reg[r].spent ELSE 0
  <2>1. r \in RegIds
    BY <1>0, <1>10 DEF SumExpenses, Calls, Idle
  <2>2. sum \in Nat
    BY <2>1, LiveRow DEF Rows
  <2>3. [step |-> "total", reg |-> r, sum |-> sum] \in Calls
    BY <2>1, <2>2 DEF Calls
  <2> QED BY <1>0, <1>4, <1>10, <2>3 DEF SumExpenses
<1>11. ASSUME NEW c \in Callers, RemoveDenominations(c) \/ RemoveExpenses(c) \/ RemoveRow(c)
       PROVE  TypeOK'
  <2>1. call[c].reg \in RegIds
    BY <1>0, <1>11 DEF RemoveDenominations, RemoveExpenses, RemoveRow, Calls, Idle
  <2>2. Live(call[c].reg) => /\ [reg[call[c].reg] EXCEPT !.recorded = 0] \in RegRows
                             /\ WithoutExpenses(reg[call[c].reg]) \in RegRows
    BY <2>1, LiveRow, ExpenseRow DEF Rows, RegRows
  <2>3. reg' \in [RegIds -> RegRows]
    BY <1>0, <1>11, <2>1, <2>2 DEF RemoveDenominations, RemoveExpenses, RemoveRow, RegRows
  <2>4. [step |-> "rmExpenses", reg |-> call[c].reg] \in Calls
        /\ [step |-> "rmRow", reg |-> call[c].reg] \in Calls
    BY <2>1 DEF Calls
  <2>5. call' = [call EXCEPT ![c] = Idle] \/ call' \in [Callers -> Calls]
    <3>1. call[c] = [step |-> call[c].step, reg |-> call[c].reg]
      BY <1>0, <1>11 DEF RemoveDenominations, RemoveExpenses, RemoveRow, Calls, Idle
    <3>2. [call[c] EXCEPT !.step = "rmExpenses"] = [step |-> "rmExpenses", reg |-> call[c].reg]
          /\ [call[c] EXCEPT !.step = "rmRow"] = [step |-> "rmRow", reg |-> call[c].reg]
      BY <3>1
    <3> QED BY <1>0, <1>11, <2>4, <3>2
            DEF RemoveDenominations, RemoveExpenses, RemoveRow, Goto, End
  <2> QED BY <1>0, <2>3, <2>5 DEF TypeOK, RegRows
<1>12. ASSUME NEW c \in Callers, Abort(c) PROVE TypeOK'
  BY <1>0, <1>4, <1>12 DEF Abort, Fail, End
<1> QED BY <1>1, <1>3, <1>6, <1>7, <1>8, <1>9, <1>10, <1>11, <1>12 DEF Next, Step

LEMMA TypeInit == Init => TypeOK
BY DEF Init, HandlersInit, TypeOK, Calls

(***************************************************************************)
(* In every environment the registers and the handlers in flight have      *)
(* their types (CashRegistersService).                                     *)
(***************************************************************************)
THEOREM TypeCorrect == Spec => []TypeOK
<1> QED BY TypeInit, TypePreserved, PTL DEF Spec

-----------------------------------------------------------------------------
(* Counts and totals are backed by rows *)

Removing == {"rmDenominations", "rmExpenses", "rmRow"}

\* A request in flight is about a register handed out, removals about removable ones.
RegRead == \A c \in Callers : call[c] # Idle =>
  /\ reg[call[c].reg] # NoRow
  /\ call[c].step \in Removing => call[c].reg \in Removable

(***************************************************************************)
(* What one step can do to a register that nobody deletes: its rows only   *)
(* become more, and a count or a total is one that a handler carried.      *)
(***************************************************************************)
Grown(r, c) ==
  /\ reg'[r].recorded >= reg[r].recorded
  /\ reg'[r].spent >= reg[r].spent
  /\ \/ Counts = {} => reg'[r].counted = reg[r].counted
     \/ call[c].step = "counted" /\ call[c].reg = r /\ reg'[r].counted = call[c].sum
  /\ \/ Totals = {} => reg'[r].totalExpenses = reg[r].totalExpenses
     \/ call[c].step = "total" /\ call[c].reg = r /\ reg'[r].totalExpenses = call[c].sum

LEMMA CallReg ==
  ASSUME TypeOK, NEW c \in Callers, call[c] # Idle
  PROVE  call[c].reg \in RegIds
BY DEF TypeOK, Calls

LEMMA RecordingCall ==
  ASSUME TypeOK, NEW c \in Callers, call[c].step = "denominations"
  PROVE  call[c] \in Recording
<1>1. call[c] \in Calls
  BY DEF TypeOK
<1> DEFINE k == call[c]
<1>2. k \in Calls /\ k.step = "denominations"
  BY <1>1
<1> HIDE DEF k
<1>3. k \in Recording
  BY <1>2 DEF Calls, Recording, Idle
<1> QED BY <1>3 DEF k

LEMMA RegisterGrows ==
  ASSUME TypeOK, RegRead, NEW r \in RegIds \ Removable, Live(r), NEW c \in Callers,
         BeginCall(c) \/ Step(c) \/ (\E d \in Denominations : LoseDenomination(c, d)) \/ Abort(c)
  PROVE  Live(r)' /\ Grown(r, c)
<1>0. reg[r] \in Rows /\ reg \in [RegIds -> RegRows] /\ r \in RegIds
  BY LiveRow DEF TypeOK, RegRows
<1>1. /\ reg[r].recorded \in Nat /\ reg[r].spent \in Nat
      /\ \A row \in Rows : row \notin {NoRow, GoneRow}
  BY <1>0, VacantRows DEF Rows
<1>2. ASSUME reg'[r] = reg[r] PROVE Live(r)' /\ Grown(r, c)
  BY <1>1, <1>2 DEF Live, Grown
<1>3. ASSUME PatchWrite(c), reg'[r] # reg[r] PROVE Live(r)' /\ Grown(r, c)
  <2>1. call[c].patch \in Patches /\ call[c].reg \in RegIds
    BY <1>3 DEF PatchWrite, TypeOK, Calls, Idle
  <2>2. reg'[r] = Patched(reg[r], call[c].patch)
    BY <1>0, <1>3, <2>1 DEF PatchWrite
  <2> QED BY <1>0, <1>1, <2>1, <2>2, PatchedRow DEF Live, Grown
<1>4. ASSUME NEW d \in Denominations, InsertDenomination(c, d), reg'[r] # reg[r]
      PROVE  Live(r)' /\ Grown(r, c)
  <2>1. call[c] \in Recording
    BY <1>4, RecordingCall DEF InsertDenomination
  <2> DEFINE total == d * call[c].sheet[d]
  <2>2. total \in Nat
    BY <2>1, RegistersAssumption DEF RegistersAssumption, Recording, Sheets
  <2>3. reg'[r] = [reg[r] EXCEPT !.recorded = @ + total]
    BY <1>0, <1>4 DEF InsertDenomination
  <2> HIDE DEF total
  <2>4. reg'[r] \in Rows /\ reg'[r].recorded = reg[r].recorded + total
        /\ reg'[r].spent = reg[r].spent /\ reg'[r].counted = reg[r].counted
        /\ reg'[r].totalExpenses = reg[r].totalExpenses
    BY <1>0, <2>2, <2>3 DEF Rows
  <2> QED BY <1>1, <2>2, <2>4 DEF Live, Grown
<1>5. ASSUME WriteCounted(c), reg'[r] # reg[r] PROVE Live(r)' /\ Grown(r, c)
  <2>1. call[c].sum \in Nat
    BY <1>5 DEF WriteCounted, TypeOK, Calls, Idle
  <2>2. reg'[r] = [reg[r] EXCEPT !.counted = call[c].sum] /\ call[c].reg = r
    BY <1>0, <1>5 DEF WriteCounted
  <2>3. reg'[r] \in Rows /\ reg'[r].recorded = reg[r].recorded
        /\ reg'[r].spent = reg[r].spent /\ reg'[r].counted = call[c].sum
        /\ reg'[r].totalExpenses = reg[r].totalExpenses
    BY <1>0, <2>1, <2>2 DEF Rows
  <2> QED BY <1>1, <1>5, <2>2, <2>3 DEF Live, Grown, WriteCounted
<1>6. ASSUME WriteTotal(c), reg'[r] # reg[r] PROVE Live(r)' /\ Grown(r, c)
  <2>1. call[c].sum \in Nat
    BY <1>6 DEF WriteTotal, TypeOK, Calls, Idle
  <2>2. reg'[r] = [reg[r] EXCEPT !.totalExpenses = call[c].sum] /\ call[c].reg = r
    BY <1>0, <1>6 DEF WriteTotal
  <2>3. reg'[r] \in Rows /\ reg'[r].recorded = reg[r].recorded
        /\ reg'[r].spent = reg[r].spent /\ reg'[r].counted = reg[r].counted
        /\ reg'[r].totalExpenses = call[c].sum
    BY <1>0, <2>1, <2>2 DEF Rows
  <2> QED BY <1>1, <1>6, <2>2, <2>3 DEF Live, Grown, WriteTotal
<1>7. ASSUME InsertExpense(c), reg'[r] # reg[r] PROVE Live(r)' /\ Grown(r, c)
  <2>1. call[c].amount \in Nat
    BY <1>7, ExpenseCall DEF InsertExpense
  <2>2. PICK amount \in Nat : reg'[r] = WithExpense(reg[r], amount)
    BY <1>0, <1>7, <2>1 DEF InsertExpense
  <2>3. reg'[r] \in Rows /\ reg'[r].recorded = reg[r].recorded
        /\ reg'[r].spent = reg[r].spent + amount /\ reg'[r].counted = reg[r].counted
        /\ reg'[r].totalExpenses = reg[r].totalExpenses
    BY <1>0, <2>2, ExpenseRow
  <2> QED BY <1>1, <2>1, <2>3 DEF Live, Grown
<1>8. ASSUME RemoveDenominations(c) \/ RemoveExpenses(c) \/ RemoveRow(c) PROVE reg'[r] = reg[r]
  <2>1. call[c].reg \in Removable
    BY <1>8 DEF RemoveDenominations, RemoveExpenses, RemoveRow, RegRead, Removing, Idle
  <2> QED BY <1>0, <1>8, <2>1 DEF RemoveDenominations, RemoveExpenses, RemoveRow
<1>9. ASSUME UNCHANGED reg PROVE reg'[r] = reg[r]
  BY <1>9
<1> QED BY <1>2, <1>3, <1>4, <1>5, <1>6, <1>7, <1>8, <1>9
        DEF BeginCall, Step, Begin, PatchRead, DenominationsRead, ExpenseRead, RemoveRead,
            SumExpenses, LoseDenomination, Abort

(***************************************************************************)
(* Where a request in flight after a step comes from: it was in flight     *)
(* before, or it begins, and a sum it carries is of rows on record.        *)
(***************************************************************************)
LEMMA CallSteps ==
  ASSUME TypeOK, NEW c \in Callers,
         BeginCall(c) \/ Step(c) \/ (\E d \in Denominations : LoseDenomination(c, d)) \/ Abort(c)
  PROVE  /\ \A d \in Callers \ {c} : call'[d] = call[d]
         /\ \/ call'[c] = Idle
            \/ /\ call[c] = Idle
               /\ UNCHANGED reg
               /\ Live(call'[c].reg)
               /\ call'[c].reg \in Guarded => \A d \in Callers : ~WaitsFor(call[d], call'[c].reg)
               /\ call'[c].step \in Removing => call'[c].reg \in Removable
               /\ call'[c].step \in {"denominations", "counted"} => call'[c].sum = 0
               /\ call'[c].step # "total"
            \/ /\ call[c] # Idle
               /\ call'[c].reg = call[c].reg
               /\ \A r : WaitsFor(call'[c], r) => WaitsFor(call[c], r)
               /\ call'[c].step \in Removing => call[c].step \in Removing
               /\ call'[c].step \in {"denominations", "counted"} =>
                    /\ call[c].step = "denominations"
                    /\ \/ UNCHANGED reg /\ call'[c].sum = call[c].sum
                       \/ \E d \in Denominations :
                            /\ call'[c].sum = call[c].sum + d * call[c].sheet[d]
                            /\ Live(call[c].reg)
                            /\ reg' = [reg EXCEPT ![call[c].reg].recorded
                                                    = @ + d * call[c].sheet[d]]
               /\ call'[c].step = "total" =>
                    /\ UNCHANGED reg
                    /\ Live(call[c].reg) => call'[c].sum = reg[call[c].reg].spent
<1> DEFINE Came ==
            \/ call'[c] = Idle
            \/ /\ call[c] = Idle
               /\ UNCHANGED reg
               /\ Live(call'[c].reg)
               /\ call'[c].reg \in Guarded => \A d \in Callers : ~WaitsFor(call[d], call'[c].reg)
               /\ call'[c].step \in Removing => call'[c].reg \in Removable
               /\ call'[c].step \in {"denominations", "counted"} => call'[c].sum = 0
               /\ call'[c].step # "total"
            \/ /\ call[c] # Idle
               /\ call'[c].reg = call[c].reg
               /\ \A r : WaitsFor(call'[c], r) => WaitsFor(call[c], r)
               /\ call'[c].step \in Removing => call[c].step \in Removing
               /\ call'[c].step \in {"denominations", "counted"} =>
                    /\ call[c].step = "denominations"
                    /\ \/ UNCHANGED reg /\ call'[c].sum = call[c].sum
                       \/ \E d \in Denominations :
                            /\ call'[c].sum = call[c].sum + d * call[c].sheet[d]
                            /\ Live(call[c].reg)
                            /\ reg' = [reg EXCEPT ![call[c].reg].recorded
                                                    = @ + d * call[c].sheet[d]]
               /\ call'[c].step = "total" =>
                    /\ UNCHANGED reg
                    /\ Live(call[c].reg) => call'[c].sum = reg[call[c].reg].spent
<1>0. call \in [Callers -> Calls]
  BY DEF TypeOK
<1>1. \A d \in Callers \ {c} : call'[d] = call[d]
  BY <1>0 DEF BeginCall, Step, Abort, Fail, End, Goto, Begin, Start,
              PatchRead, DenominationsRead, ExpenseRead, RemoveRead, PatchWrite,
              InsertDenomination, LoseDenomination, WriteCounted, InsertExpense, SumExpenses,
              WriteTotal, RemoveDenominations, RemoveExpenses, RemoveRow
<1>2. ASSUME End(c) PROVE Came
  BY <1>0, <1>2 DEF End
<1>3. ASSUME NEW r \in RegIds, NEW k, k.reg = r, Begin(c, k),
             k.step \in Removing => r \in Removable,
             k.step \in {"denominations", "counted"} => k.sum = 0,
             k.step # "total"
      PROVE  Came
  <2>1. call[c] = Idle /\ call'[c] = k /\ UNCHANGED reg /\ Live(r)
    BY <1>0, <1>3 DEF Begin, Start
  <2>2. r \in Guarded => \A d \in Callers : ~WaitsFor(call[d], r)
    BY <1>3 DEF Begin
  <2> QED BY <1>3, <2>1, <2>2
<1>4. ASSUME BeginCall(c) PROVE Came
  <2> PICK r \in RegIds :
        \/ \E patch \in Patches : PatchRead(c, r, patch)
        \/ \E sheet \in Sheets : DenominationsRead(c, r, sheet)
        \/ \E amount \in Amounts : ExpenseRead(c, r, amount)
        \/ RemoveRead(c, r)
    BY <1>4 DEF BeginCall
  <2> HIDE DEF Came
  <2>1. ASSUME NEW patch \in Patches, PatchRead(c, r, patch) PROVE Came
    BY <1>3, <2>1 DEF PatchRead, Removing
  <2>2. ASSUME NEW sheet \in Sheets, DenominationsRead(c, r, sheet) PROVE Came
    BY <1>3, <2>2 DEF DenominationsRead, Removing
  <2>3. ASSUME NEW amount \in Amounts, ExpenseRead(c, r, amount) PROVE Came
    BY <1>3, <2>3 DEF ExpenseRead, Removing
  <2>4. ASSUME RemoveRead(c, r) PROVE Came
    BY <1>3, <2>4 DEF RemoveRead, Removing
  <2> QED BY <2>1, <2>2, <2>3, <2>4
<1>5. ASSUME NEW d \in Denominations, InsertDenomination(c, d) \/ LoseDenomination(c, d)
      PROVE  Came
  <2> DEFINE k == call[c]
             total == d * k.sheet[d]
  <2>1. k.step = "denominations"
    BY <1>5 DEF InsertDenomination, LoseDenomination
  <2>2. k \in Recording
    BY <2>1, RecordingCall
  <2>3. k.sum \in Nat /\ k.failed \in BOOLEAN /\ total \in Nat /\ k # Idle
    BY <2>1, <2>2, RegistersAssumption DEF RegistersAssumption, Recording, Sheets, Idle
  <2>4. PICK sum \in Nat, failed \in BOOLEAN :
          /\ call'[c] = Settled(k, d, sum, failed)
          /\ k.failed => failed
          /\ \/ sum = k.sum /\ UNCHANGED reg
             \/ /\ sum = k.sum + total
                /\ Live(k.reg)
                /\ reg' = [reg EXCEPT ![k.reg].recorded = @ + total]
    <3>1. k.sum + total \in Nat
      BY <2>3
    <3>2. CASE LoseDenomination(c, d)
      BY <1>0, <2>3, <3>2 DEF LoseDenomination
    <3>3. CASE InsertDenomination(c, d) /\ Live(k.reg)
      <4>1. /\ call'[c] = Settled(k, d, k.sum + total, k.failed)
            /\ reg' = [reg EXCEPT ![k.reg].recorded = @ + total]
        BY <1>0, <3>3 DEF InsertDenomination
      <4> HIDE DEF k, total
      <4> QED BY <2>3, <3>1, <3>3, <4>1
    <3>4. CASE InsertDenomination(c, d) /\ ~Live(k.reg)
      <4>1. call'[c] = Settled(k, d, k.sum, TRUE) /\ UNCHANGED reg
        BY <1>0, <3>4 DEF InsertDenomination
      <4> HIDE DEF k, total
      <4> QED BY <2>3, <4>1
    <3> QED BY <1>5, <3>2, <3>3, <3>4
  <2> DEFINE n == Settled(k, d, sum, failed)
  <2>5. \/ n = Idle
        \/ /\ n.step \in {"denominations", "counted"} /\ n.reg = k.reg /\ n.sum = sum
           /\ n.step = "denominations" => n.failed = failed
           /\ k.failed => n.step = "denominations" /\ failed
    <3> HIDE DEF k
    <3> QED BY <2>2, <2>4, SettledCall
  <2>6. n = Idle \/ \A r : WaitsFor(n, r) => WaitsFor(k, r)
    <3> HIDE DEF k, n
    <3> QED BY <2>1, <2>2, <2>3, <2>4, <2>5 DEF WaitsFor, Recording
  <2>7. call'[c] = n
    BY <2>4
  <2> HIDE DEF n
  <2> QED BY <2>1, <2>3, <2>4, <2>5, <2>6, <2>7 DEF Removing
<1>6. ASSUME InsertExpense(c) PROVE Came
  <2>1. call[c].step = "expense" /\ call[c] # Idle
    BY <1>6 DEF InsertExpense, Idle
  <2>2. CASE Live(call[c].reg)
    <3>1. call'[c] = [step |-> "sum", reg |-> call[c].reg]
      BY <1>0, <1>6, <2>2 DEF InsertExpense
    <3>2. \A r : WaitsFor(call'[c], r) => WaitsFor(call[c], r)
      BY <2>1, <3>1 DEF WaitsFor
    <3> QED BY <2>1, <3>1, <3>2 DEF Removing
  <2>3. CASE ~Live(call[c].reg)
    BY <1>2, <1>6, <2>3 DEF InsertExpense
  <2> QED BY <2>2, <2>3
<1>7. ASSUME SumExpenses(c) PROVE Came
  <2>1. call[c].step = "sum" /\ call[c] # Idle /\ UNCHANGED reg
    BY <1>7 DEF SumExpenses, Idle
  <2>2. call'[c] = [step |-> "total", reg |-> call[c].reg,
                    sum |-> IF Live(call[c].reg) THEN reg[call[c].reg].spent ELSE 0]
    BY <1>0, <1>7 DEF SumExpenses
  <2>3. \A r : WaitsFor(call'[c], r) => WaitsFor(call[c], r)
    BY <2>1, <2>2 DEF WaitsFor
  <2> QED BY <2>1, <2>2, <2>3 DEF Removing
<1>8. ASSUME RemoveDenominations(c) \/ RemoveExpenses(c) PROVE Came
  <2>1. call[c].step \in Removing /\ call[c] # Idle
    BY <1>8 DEF RemoveDenominations, RemoveExpenses, Removing, Idle
  <2>2. call[c] = [step |-> call[c].step, reg |-> call[c].reg]
    BY <1>0, <2>1 DEF Calls, Removing, Idle
  <2>3. /\ call'[c].step \in {"rmExpenses", "rmRow"} /\ call'[c].reg = call[c].reg
    BY <1>0, <1>8, <2>2 DEF RemoveDenominations, RemoveExpenses, Goto
  <2>4. \A r : WaitsFor(call'[c], r) => WaitsFor(call[c], r)
    BY <2>1, <2>3 DEF WaitsFor, Removing
  <2> QED BY <2>1, <2>3, <2>4 DEF Removing
<1>9. ASSUME PatchWrite(c) \/ WriteCounted(c) \/ WriteTotal(c) \/ RemoveRow(c) \/ Abort(c)
      PROVE  End(c)
  BY <1>9 DEF PatchWrite, WriteCounted, WriteTotal, RemoveRow, Abort, Fail
<1>10. Came
  <2> HIDE DEF Came
  <2> QED BY <1>2, <1>4, <1>5, <1>6, <1>7, <1>8, <1>9 DEF Step
<1> QED BY <1>1, <1>10

StepOf(c) == BeginCall(c) \/ Step(c) \/ (\E d \in Denominations : LoseDenomination(c, d)) \/ Abort(c)

\* A handler brings no row into the table, and an id is handed out once.
LEMMA RowsStay ==
  ASSUME TypeOK, NEW r \in RegIds, NEW c \in Callers, StepOf(c)
  PROVE  /\ ~Live(r) => reg'[r] = reg[r]
         /\ reg[r] # NoRow => reg'[r] # NoRow
<1>0. reg \in [RegIds -> RegRows] /\ TypeOK'
  BY TypePreserved DEF TypeOK, RegRows, StepOf, Next
<1>1. ~Live(r) => reg'[r] = reg[r]
  BY <1>0 DEF StepOf, BeginCall, Step, Begin, PatchRead, DenominationsRead, ExpenseRead,
              RemoveRead, PatchWrite, InsertDenomination, LoseDenomination, WriteCounted,
              InsertExpense, SumExpenses, WriteTotal, RemoveDenominations, RemoveExpenses,
              RemoveRow, Abort
<1>2. ASSUME Live(r), DOMAIN reg'[r] = DOMAIN reg[r] PROVE reg'[r] # NoRow
  <2>1. reg[r] \in Rows
    BY <1>2, LiveRow
  <2> QED BY <1>2, <2>1 DEF Rows, NoRow
<1>3. ASSUME Live(r), StepOf(c) PROVE reg'[r] # NoRow
  <2>1. CASE BeginCall(c) \/ Abort(c) \/ (\E d \in Denominations : LoseDenomination(c, d)) \/ SumExpenses(c)
    BY <1>2, <1>3, <2>1 DEF BeginCall, Begin, PatchRead, DenominationsRead, ExpenseRead,
                            RemoveRead, LoseDenomination, SumExpenses, Abort
  <2>2. CASE PatchWrite(c)
    BY <1>0, <1>3, <2>2, LiveRow, PatchedRow, VacantRows DEF PatchWrite, TypeOK, Calls, Idle
  <2>3. ASSUME NEW d \in Denominations, InsertDenomination(c, d) PROVE reg'[r] # NoRow
    BY <1>0, <1>2, <1>3, <2>3 DEF InsertDenomination
  <2>4. CASE WriteCounted(c) \/ WriteTotal(c)
    BY <1>0, <1>2, <1>3, <2>4 DEF WriteCounted, WriteTotal
  <2>5. CASE InsertExpense(c) \/ RemoveDenominations(c) \/ RemoveExpenses(c)
    BY <1>0, <1>2, <1>3, <2>5
       DEF InsertExpense, RemoveDenominations, RemoveExpenses, WithExpense, WithoutExpenses
  <2>6. CASE RemoveRow(c)
    BY <1>0, <1>3, <2>6 DEF RemoveRow, Live, GoneRow, NoRow
  <2> QED BY <1>3, <2>1, <2>2, <2>3, <2>4, <2>5, <2>6 DEF StepOf, Step
<1> QED BY <1>1, <1>3

LEMMA RegReadCall ==
  ASSUME TypeOK, RegRead, NEW c \in Callers, StepOf(c)
  PROVE  RegRead'
<1>1. ASSUME NEW d \in Callers, call'[d] # Idle
      PROVE  reg'[call'[d].reg] # NoRow /\ (call'[d].step \in Removing => call'[d].reg \in Removable)
  <2>1. CASE d # c
    BY <1>1, <2>1, CallSteps, CallReg, RowsStay DEF RegRead, StepOf
  <2>2. CASE d = c /\ call[c] = Idle
    BY <1>1, <2>2, CallSteps DEF StepOf, Live
  <2>3. CASE d = c /\ call[c] # Idle
    BY <1>1, <2>3, CallSteps, CallReg, RowsStay DEF RegRead, StepOf
  <2> QED BY <2>1, <2>2, <2>3
<1> QED BY <1>1 DEF RegRead

\* A sum in flight is of rows that stay.
Carried == \A c \in Callers : call[c] # Idle /\ call[c].reg \notin Removable /\ Live(call[c].reg) =>
  /\ call[c].step \in {"denominations", "counted"} => call[c].sum <= reg[call[c].reg].recorded
  /\ call[c].step = "total" => call[c].sum <= reg[call[c].reg].spent

BackedInv == TypeOK /\ RegRead /\ Carried /\ CountIsBacked /\ TotalIsBacked

LEMMA BackedInit == Init => BackedInv
<1> SUFFICES ASSUME Init PROVE BackedInv
  OBVIOUS
<1>1. \A c \in Callers : call[c] = Idle
  BY DEF Init, HandlersInit
<1>2. \A r \in RegIds : ~Live(r)
  BY DEF Init, Live
<1> QED BY <1>1, <1>2, TypeInit DEF BackedInv, RegRead, Carried, CountIsBacked, TotalIsBacked

LEMMA BackedCreate == BackedInv /\ CreateRegister => BackedInv'
<1> SUFFICES ASSUME BackedInv, CreateRegister PROVE BackedInv'
  OBVIOUS
<1>1. PICK q \in RegIds, expected \in Expected, counted \in Counts \cup {Absent},
           total \in Totals \cup {0} : Create(q, expected, counted, total)
  BY DEF CreateRegister
<1> DEFINE row == NewRegister(expected, counted, total)
<1>2. row \in Rows /\ row.counted = counted /\ row.totalExpenses = total /\ row.spent = 0
  BY NewRegisterType DEF NewRegister
<1>3. /\ TypeOK /\ TypeOK' /\ reg[q] = NoRow /\ reg'[q] = row /\ UNCHANGED call
      /\ \A r \in RegIds \ {q} : reg'[r] = reg[r]
  BY <1>1, TypePreserved DEF BackedInv, TypeOK, Create, Next
<1> HIDE DEF row
<1>4. \A c \in Callers : call[c] # Idle =>
        /\ call[c].reg \in RegIds \ {q}
        /\ reg'[call[c].reg] = reg[call[c].reg]
  BY <1>3, CallReg DEF BackedInv, RegRead
<1>5. RegRead' /\ Carried'
  BY <1>3, <1>4 DEF BackedInv, RegRead, Carried, Live
<1>6. CountIsBacked'
  BY <1>2, <1>3 DEF BackedInv, CountIsBacked, Live
<1>7. TotalIsBacked'
  BY <1>2, <1>3 DEF BackedInv, TotalIsBacked, Live
<1> QED BY <1>3, <1>5, <1>6, <1>7 DEF BackedInv

LEMMA BackedCall ==
  ASSUME BackedInv, NEW c \in Callers, StepOf(c)
  PROVE  BackedInv'
<1>0. TypeOK /\ TypeOK' /\ RegRead /\ Carried
  BY TypePreserved DEF BackedInv, StepOf, Next
<1>1. \A r \in RegIds : (reg[r] # NoRow => reg'[r] # NoRow) /\ (Live(r)' => Live(r))
  BY <1>0, RowsStay DEF Live
<1>2. \A r \in RegIds \ Removable : Live(r) => Grown(r, c)
  BY <1>0, RegisterGrows DEF StepOf
<1>3. \A r \in RegIds : Live(r) => reg[r].recorded \in Nat /\ reg[r].spent \in Nat
  BY <1>0, LiveRow DEF Rows
<1>4. \A r \in RegIds : Live(r)' => reg'[r].recorded \in Nat /\ reg'[r].spent \in Nat
  BY <1>0, VacantRows DEF Rows, TypeOK, Live
<1>5. RegRead'
  BY <1>0, RegReadCall
<1>6. Carried'
  <2> SUFFICES ASSUME NEW d \in Callers, call'[d] # Idle, call'[d].reg \notin Removable,
                      Live(call[d].reg)'
               PROVE  /\ call'[d].step \in {"denominations", "counted"} =>
                            call'[d].sum <= reg'[call'[d].reg].recorded
                      /\ call'[d].step = "total" => call'[d].sum <= reg'[call'[d].reg].spent
    BY DEF Carried, Live
  <2> DEFINE r == call'[d].reg
  <2>1. r \in RegIds \ Removable
    BY <1>0 DEF TypeOK, Calls
  <2>2. Live(r) /\ Grown(r, c)
    BY <1>1, <1>2, <2>1 DEF Live
  <2>3. /\ reg[r].recorded \in Nat /\ reg[r].spent \in Nat
        /\ reg'[r].recorded \in Nat /\ reg'[r].spent \in Nat
    BY <1>3, <1>4, <2>1, <2>2
  <2>4. call[d] # Idle /\ call[d].step \in {"denominations", "counted", "total"} =>
          call[d].sum \in Nat
    BY <1>0 DEF TypeOK, Calls
  <2>5. CASE d # c
    <3>1. call'[d] = call[d]
      BY <1>0, <2>5, CallSteps DEF StepOf
    <3> QED BY <1>0, <2>2, <2>3, <2>4, <3>1 DEF Carried, Grown
  <2>6. CASE d = c /\ call[c] = Idle
    BY <1>0, <2>3, <2>6, CallSteps DEF StepOf
  <2>7. CASE d = c /\ call[c] # Idle
    <3>1. call[c].reg = r
      BY <1>0, <2>7, CallSteps DEF StepOf
    <3>2. call'[c].step = "total" => call'[c].sum <= reg'[r].spent
      BY <1>0, <2>2, <2>3, <2>7, <3>1, CallSteps DEF StepOf
    <3>3. ASSUME call'[c].step \in {"denominations", "counted"}
          PROVE  call'[c].sum <= reg'[r].recorded
      <4>1. call[c].step = "denominations" /\ call[c].sum <= reg[r].recorded /\ call[c].sum \in Nat
        BY <1>0, <2>2, <2>4, <2>7, <3>1, <3>3, CallSteps DEF StepOf, Carried
      <4>2. CASE UNCHANGED reg /\ call'[c].sum = call[c].sum
        BY <4>1, <4>2
      <4>3. ASSUME NEW e \in Denominations,
                   call'[c].sum = call[c].sum + e * call[c].sheet[e],
                   reg' = [reg EXCEPT ![call[c].reg].recorded = @ + e * call[c].sheet[e]]
            PROVE  call'[c].sum <= reg'[r].recorded
        <5> DEFINE total == e * call[c].sheet[e]
        <5>1. total \in Nat
          BY <1>0, <4>1, RecordingCall, RegistersAssumption DEF RegistersAssumption, Recording, Sheets
        <5>2. reg'[r].recorded = reg[r].recorded + total
          BY <1>0, <2>1, <2>2, <3>1, <4>3, LiveRow DEF TypeOK, Rows
        <5> HIDE DEF total
        <5>3. call'[c].sum = call[c].sum + total
          BY <4>3 DEF total
        <5> HIDE DEF r
        <5> QED BY <2>3, <4>1, <5>1, <5>2, <5>3
      <4> QED BY <1>0, <2>7, <3>3, <4>2, <4>3, CallSteps DEF StepOf
    <3> QED BY <2>7, <3>2, <3>3
  <2> QED BY <2>5, <2>6, <2>7
<1>7. CountIsBacked'
  <2> SUFFICES ASSUME Counts = {}, NEW r \in RegIds \ Removable, Live(r)', reg'[r].counted # Absent
               PROVE  reg'[r].counted <= reg'[r].recorded
    BY DEF CountIsBacked, Live
  <2>1. Live(r) /\ Grown(r, c)
    BY <1>1, <1>2
  <2>2. reg[r].recorded \in Nat /\ reg'[r].recorded \in Nat /\ reg[r].counted \in Nat \cup {Absent}
    BY <1>0, <1>3, <1>4, <2>1, LiveRow DEF Rows
  <2>3. CASE reg'[r].counted = reg[r].counted
    BY <2>1, <2>2, <2>3 DEF Grown, BackedInv, CountIsBacked
  <2>4. CASE call[c].step = "counted" /\ call[c].reg = r /\ reg'[r].counted = call[c].sum
    <3>1. call[c] # Idle /\ call[c].sum \in Nat /\ call[c].sum <= reg[r].recorded
      BY <1>0, <2>1, <2>4 DEF TypeOK, Calls, Idle, Carried
    <3> QED BY <2>1, <2>2, <2>4, <3>1 DEF Grown
  <2> QED BY <2>1, <2>3, <2>4 DEF Grown
<1>8. TotalIsBacked'
  <2> SUFFICES ASSUME Totals = {}, NEW r \in RegIds \ Removable, Live(r)'
               PROVE  reg'[r].totalExpenses <= reg'[r].spent
    BY DEF TotalIsBacked, Live
  <2>1. Live(r) /\ Grown(r, c)
    BY <1>1, <1>2
  <2>2. reg[r].spent \in Nat /\ reg'[r].spent \in Nat /\ reg[r].totalExpenses \in Nat
    BY <1>0, <1>3, <1>4, <2>1, LiveRow DEF Rows
  <2>3. CASE reg'[r].totalExpenses = reg[r].totalExpenses
    BY <2>1, <2>2, <2>3 DEF Grown, BackedInv, TotalIsBacked
  <2>4. CASE call[c].step = "total" /\ call[c].reg = r /\ reg'[r].totalExpenses = call[c].sum
    <3>1. call[c] # Idle /\ call[c].sum \in Nat /\ call[c].sum <= reg[r].spent
      BY <1>0, <2>1, <2>4 DEF TypeOK, Calls, Idle, Carried
    <3> QED BY <2>1, <2>2, <2>4, <3>1 DEF Grown
  <2> QED BY <2>1, <2>3, <2>4 DEF Grown
<1> QED BY <1>0, <1>5, <1>6, <1>7, <1>8 DEF BackedInv

LEMMA BackedPreserved == BackedInv /\ [Next]_vars => BackedInv'
<1>1. ASSUME BackedInv, UNCHANGED vars PROVE BackedInv'
  BY <1>1 DEF vars, BackedInv, TypeOK, RegRead, Carried, CountIsBacked, TotalIsBacked, Live
<1> QED BY <1>1, BackedCreate, BackedCall DEF Next, StepOf

(***************************************************************************)
(* However many counts, however their inserts and writes overtake each     *)
(* other and whichever fail, a register nobody deletes or counts by hand   *)
(* never shows more cash than its denomination rows add up to.             *)
(***************************************************************************)
THEOREM CountsAreBacked == Spec => []CountIsBacked
<1>1. BackedInv => CountIsBacked
  BY DEF BackedInv
<1> QED BY <1>1, BackedInit, BackedPreserved, PTL DEF Spec

(***************************************************************************)
(* However many expenses overtake each other, the total of a register      *)
(* nobody deletes or totals by hand never exceeds the expenses on record.  *)
(***************************************************************************)
THEOREM TotalsAreBacked == Spec => []TotalIsBacked
<1>1. BackedInv => TotalIsBacked
  BY DEF BackedInv
<1> QED BY <1>1, BackedInit, BackedPreserved, PTL DEF Spec

-----------------------------------------------------------------------------
(* In a guarded register every new total is up to date *)

\* No two requests wait for an answer about a guarded register.
Alone == \A c, d \in Callers, r \in Guarded : WaitsFor(call[c], r) /\ WaitsFor(call[d], r) => c = d

\* Nothing is spent between the sum of the expenses and the write of the total.
Fresh == \A c \in Callers :
  call[c].step = "total" /\ call[c].reg \in Guarded /\ Live(call[c].reg)
    => call[c].sum = reg[call[c].reg].spent

FreshInv == TypeOK /\ RegRead /\ Alone /\ Fresh

\* Which request can touch the expenses of a register, and what its total becomes.
LEMMA SpendingCall ==
  ASSUME TypeOK, NEW r \in RegIds, NEW c \in Callers, StepOf(c), Live(r), Live(r)'
  PROVE  /\ reg'[r].spent = reg[r].spent \/ WaitsFor(call[c], r)
         /\ \/ Totals = {} => reg'[r].totalExpenses = reg[r].totalExpenses
            \/ /\ call[c].step = "total" /\ call[c].reg = r
               /\ reg'[r].totalExpenses = call[c].sum
               /\ reg'[r].spent = reg[r].spent
<1> DEFINE Spent == reg'[r].spent = reg[r].spent
           Total == reg'[r].totalExpenses = reg[r].totalExpenses
<1>0. reg[r] \in Rows /\ reg \in [RegIds -> RegRows]
  BY LiveRow DEF TypeOK, RegRows
<1>1. ASSUME PatchWrite(c) PROVE Spent /\ (Totals = {} => Total)
  <2>1. call[c].patch \in Patches
    BY <1>1 DEF PatchWrite, TypeOK, Calls, Idle
  <2> QED BY <1>0, <1>1, <2>1, PatchedRow DEF PatchWrite
<1>2. ASSUME NEW d \in Denominations, InsertDenomination(c, d) PROVE Spent /\ Total
  <2> DEFINE total == reg[r].recorded + d * call[c].sheet[d]
  <2>1. reg'[r] = reg[r] \/ reg'[r] = [reg[r] EXCEPT !.recorded = total]
    BY <1>0, <1>2 DEF InsertDenomination
  <2> HIDE DEF total
  <2> QED BY <1>0, <2>1 DEF Rows
<1>3. ASSUME WriteCounted(c) PROVE Spent /\ Total
  BY <1>0, <1>3 DEF WriteCounted, Rows
<1>4. ASSUME InsertExpense(c) PROVE Total /\ (Spent \/ WaitsFor(call[c], r))
  <2>1. call[c] # Idle
    BY <1>4 DEF InsertExpense, Idle
  <2>2. call[c].reg # r => Spent /\ Total
    BY <1>0, <1>4 DEF InsertExpense
  <2>3. call[c].reg = r => WaitsFor(call[c], r)
    BY <1>4, <2>1 DEF InsertExpense, WaitsFor
  <2>4. call[c].amount \in Nat
    BY <1>4, ExpenseCall DEF InsertExpense
  <2>5. call[c].reg = r => Total
    BY <1>0, <1>4, <2>4, ExpenseRow DEF InsertExpense
  <2> QED BY <2>2, <2>3, <2>5
<1>5. ASSUME WriteTotal(c)
      PROVE  Spent /\ (Total \/ (/\ call[c].step = "total"
                                  /\ call[c].reg = r
                                  /\ reg'[r].totalExpenses = call[c].sum))
  BY <1>0, <1>5 DEF WriteTotal, Rows
<1>6. ASSUME RemoveDenominations(c) PROVE Spent /\ Total
  BY <1>0, <1>6 DEF RemoveDenominations, Rows
<1>7. ASSUME RemoveExpenses(c) PROVE Total /\ (Spent \/ WaitsFor(call[c], r))
  <2>1. call[c] # Idle
    BY <1>7 DEF RemoveExpenses, Idle
  <2>2. call[c].reg # r => Spent
    BY <1>0, <1>7 DEF RemoveExpenses
  <2>3. call[c].reg = r => WaitsFor(call[c], r)
    BY <1>7, <2>1 DEF RemoveExpenses, WaitsFor
  <2>4. Total
    BY <1>0, <1>7, ExpenseRow DEF RemoveExpenses
  <2> QED BY <2>2, <2>3, <2>4
<1>8. ASSUME RemoveRow(c) PROVE Spent /\ Total
  BY <1>0, <1>8 DEF RemoveRow, Live
<1>9. ASSUME UNCHANGED reg PROVE Spent /\ Total
  BY <1>9
<1>10. UNCHANGED reg \/ Step(c)
  BY DEF StepOf, BeginCall, Begin, PatchRead, DenominationsRead, ExpenseRead, RemoveRead,
         LoseDenomination, Abort
<1>11. SumExpenses(c) => UNCHANGED reg
  BY DEF SumExpenses
<1> QED BY <1>1, <1>2, <1>3, <1>4, <1>5, <1>6, <1>7, <1>8, <1>9, <1>10, <1>11 DEF Step

LEMMA FreshInit == Init => FreshInv
<1> SUFFICES ASSUME Init PROVE FreshInv
  OBVIOUS
<1>1. \A c \in Callers : call[c] = Idle
  BY DEF Init, HandlersInit
<1>2. Idle.step # "total" /\ \A r : ~WaitsFor(Idle, r)
  BY DEF Idle, WaitsFor
<1>3. Fresh
  BY <1>1, <1>2 DEF Fresh
<1> QED BY <1>1, <1>2, <1>3, TypeInit DEF FreshInv, RegRead, Alone

LEMMA FreshCreate == FreshInv /\ CreateRegister => FreshInv'
<1> SUFFICES ASSUME FreshInv, CreateRegister PROVE FreshInv'
  OBVIOUS
<1>0. TypeOK /\ TypeOK' /\ RegRead /\ UNCHANGED call
  BY TypePreserved DEF FreshInv, Next, CreateRegister, Create
<1>1. \A c \in Callers : call[c] # Idle => reg'[call[c].reg] = reg[call[c].reg] /\ call[c].reg \in RegIds
  BY <1>0, CallReg DEF CreateRegister, Create, RegRead, TypeOK
<1>2. Idle.step # "total"
  BY DEF Idle
<1>3. RegRead'
  BY <1>0, <1>1 DEF RegRead
<1>4. Alone'
  BY <1>0 DEF FreshInv, Alone
<1>5. Fresh'
  BY <1>0, <1>1, <1>2 DEF FreshInv, Fresh, Live
<1> QED BY <1>0, <1>3, <1>4, <1>5 DEF FreshInv

LEMMA FreshCall ==
  ASSUME FreshInv, NEW c \in Callers, StepOf(c)
  PROVE  FreshInv'
<1>0. TypeOK /\ TypeOK' /\ RegRead /\ RegRead' /\ Guarded \subseteq RegIds
  BY TypePreserved, RegReadCall, RegistersAssumption DEF FreshInv, StepOf, Next, RegistersAssumption
<1>1. \A d \in Callers \ {c} : call'[d] = call[d]
  BY <1>0, CallSteps DEF StepOf
<1>2. \A r \in Guarded : WaitsFor(call'[c], r) =>
        WaitsFor(call[c], r) \/ \A d \in Callers : ~WaitsFor(call[d], r)
  <2> TAKE r \in Guarded
  <2> HAVE WaitsFor(call'[c], r)
  <2>1. call'[c] # Idle /\ call'[c].reg = r
    BY DEF WaitsFor
  <2> QED BY <1>0, <2>1, CallSteps DEF StepOf
<1>3. Alone'
  <2> SUFFICES ASSUME NEW d \in Callers, NEW e \in Callers, NEW r \in Guarded,
                      WaitsFor(call'[d], r), WaitsFor(call'[e], r)
               PROVE  d = e
    BY DEF Alone, WaitsFor
  <2> QED BY <1>1, <1>2 DEF FreshInv, Alone
<1>4. Fresh'
  <2> SUFFICES ASSUME NEW d \in Callers, call'[d].step = "total", call'[d].reg \in Guarded,
                      reg'[call'[d].reg] \notin {NoRow, GoneRow}
               PROVE  call'[d].sum = reg'[call'[d].reg].spent
    BY DEF Fresh, Live
  <2> DEFINE r == call'[d].reg
  <2>0. r \in Guarded /\ r \in RegIds /\ reg'[r] \notin {NoRow, GoneRow}
    BY <1>0
  <2>1. Live(r)
    BY <1>0, <2>0, RowsStay DEF Live
  <2>2. CASE d = c
    <3>1. call'[c] # Idle
      BY <2>2 DEF Idle
    <3>2. UNCHANGED reg /\ call'[c].sum = reg[r].spent
      BY <1>0, <2>1, <2>2, <3>1, CallSteps DEF StepOf
    <3> QED BY <2>2, <3>2
  <2>3. CASE d # c
    <3>1. call'[d] = call[d]
      BY <1>1, <2>3
    <3>2. WaitsFor(call[d], r)
      BY <3>1 DEF WaitsFor, Idle
    <3>3. ~WaitsFor(call[c], r)
      BY <2>0, <2>3, <3>2 DEF FreshInv, Alone
    <3>4. reg'[r].spent = reg[r].spent
      BY <1>0, <2>0, <2>1, <3>3, SpendingCall DEF Live
    <3>5. call[d].sum = reg[r].spent
      BY <2>0, <2>1, <3>1 DEF FreshInv, Fresh
    <3> QED BY <3>1, <3>4, <3>5
  <2> QED BY <2>2, <2>3
<1> QED BY <1>0, <1>3, <1>4 DEF FreshInv

(***************************************************************************)
(* A total that is written in a guarded register is the sum of the         *)
(* expenses recorded at that moment, and not only at the moment they were  *)
(* added up, for any number of requests about other registers, and of      *)
(* inserts of earlier counts of this one, under way.                       *)
(***************************************************************************)
THEOREM GuardedTotalsCatchUp == Spec => TotalCatchesUp
<1>1. FreshInv /\ [Next]_vars => FreshInv'
  <2>1. ASSUME FreshInv, UNCHANGED vars PROVE FreshInv'
    BY <2>1 DEF vars, FreshInv, TypeOK, RegRead, Alone, Fresh, Live
  <2> QED BY <2>1, FreshCreate, FreshCall DEF Next, StepOf
<1>2. FreshInv /\ [Next]_vars =>
        [Totals = {} => \A r \in Guarded :
          Live(r) /\ Live(r)' /\ reg'[r].totalExpenses # reg[r].totalExpenses
            => reg'[r].totalExpenses = reg'[r].spent]_vars
  <2> SUFFICES ASSUME FreshInv, Next, Totals = {}, NEW r \in Guarded, Live(r), Live(r)',
                      reg'[r].totalExpenses # reg[r].totalExpenses
               PROVE  reg'[r].totalExpenses = reg'[r].spent
    OBVIOUS
  <2>0. TypeOK /\ r \in RegIds
    BY RegistersAssumption DEF FreshInv, RegistersAssumption
  <2>1. CASE CreateRegister
    BY <2>0, <2>1 DEF CreateRegister, Create, Live, TypeOK
  <2>2. ASSUME NEW c \in Callers, StepOf(c) PROVE reg'[r].totalExpenses = reg'[r].spent
    <3>1. /\ call[c].step = "total" /\ call[c].reg = r
          /\ reg'[r].totalExpenses = call[c].sum
          /\ reg'[r].spent = reg[r].spent
      BY <2>0, <2>2, SpendingCall
    <3> QED BY <3>1 DEF FreshInv, Fresh
  <2> QED BY <2>1, <2>2 DEF Next, StepOf
<1> QED BY <1>1, <1>2, FreshInit, PTL DEF Spec, TotalCatchesUp
=============================================================================
