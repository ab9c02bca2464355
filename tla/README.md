# CoffeeOS API: specifications and proofs

TLA+ models of the CoffeeOS API (`src/apps/api`), the TLC configurations that
check them on small instances, and TLAPS proofs of what matters most for every
instance.

    cd tla
    tlasany Sales.tla                                # parse
    tlc -workers 2 -config SalesExclusive.cfg MCSales  # check a run
    tlapm SalesProofs.tla                            # check proofs

`PROJECT.json` lists the components, the runs with their properties, the lines
of the source each definition models, the hazards of the code and the theorems.

## The system

CoffeeOS is a NestJS application over PostgreSQL, reached through Prisma. It has
one process, no queue, no timer and no cache: everything that happens is an
HTTP request whose handler runs a few database statements. What makes it hard:

- **No transactions.** No service opens one. A handler is an async function that
  reads, checks, and writes in separate statements; the statements of different
  requests interleave, and a handler may die between two of them.
- **Check, then write by id.** The writes carry no condition on what was read.
  `cancel` reads `PENDING`, and by the time it writes, the sale may be completed.
- **Several statements per effect.** `update` deletes the line items and then
  stores new ones; `remove` deletes children, then the row.
- **Counts and sums read, then written.** Order numbers, expense totals and
  sort orders are computed from a query that may be out of date.
- **Limits of 0 taken for absent**, local midnight against a UTC date, floating
  point money.

A Prisma call that writes is atomic, and PostgreSQL serialises the statements on a
row. One that reads is a SELECT of the rows and then one of each relation it includes,
in turn. The models take one such statement as one step, and so do the proofs.

### Inventory

| Component | State | Operations that change it | What makes it correct |
|---|---|---|---|
| Transactions | Transaction and line item tables | create, update (replaces items in two statements), cancel, complete, remove (three statements) | a completed sale is final, and covered when stamped; items never double; of a sale with one request in flight, no removal is refused half-way |
| Payments | Payment table | create, update (may move a payment to another sale), refund, remove | a settled payment only changes by a refund, made once, or goes with its sale |
| Orders | Order table | create (counts, then inserts), start, ready, serve, cancel, update, remove | the state machine; dates in order; few orders share a number |
| Shifts | Shift table | open, update, close, remove | one open shift per location; the closing figures agree with the row |
| CashRegisters | register, denomination and expense tables | create, update, record denominations, record expense, remove (three statements) | totals agree with the recorded rows |
| Discounts | Discount table | create, update, activate, deactivate, remove, increment usage | terms stay valid; a limit is hardly exceeded; what is listed is in force; never more than the subtotal, and more of more |
| Taxes | Tax table | create, update, remove | several taxes cost what they cost one by one |
| InventoryItems | item table | create, update, remove (soft or hard) | nothing in use is deleted |
| InventoryMovements | movement table | create (checks the stock), update, remove | what goes out was in stock |
| Suppliers | supplier table | create, update, remove (soft or hard) | no item loses its supplier |
| Recipes | recipe and ingredient tables | create, update (replaces ingredients in two statements), remove | a recipe is one list that a client sent |
| Products, Categories, Modifiers | their tables | create, update, remove (soft or hard) | names, places and pairs of name and type are shared by few; nothing in use is deleted |
| Database access | the connection | connect, disconnect | none of its own |
| Health, bootstrap, empty modules, web client, database package, scripts | none the API changes | none | not modelled |

Components meet in the database only. Payments and orders refer to sales,
registers to shifts, movements and recipes to items, items to suppliers,
products to categories. A handler reads the row it refers to and inserts later;
in between the row may go, and a foreign key then makes the insert throw.

Transaction, Payment, Order, Discount, Tax, Shift and CashRegister are not in
`packages/database/prisma/schema.prisma`. Their columns are taken from the DTOs
and from the services' own statements, and their relations (line items and
payments belong to a sale, an order may) from the `include`s; the models assume
the foreign keys such relations have by default.

## Modules

```
Handlers                  what an HTTP handler in flight is
SalesTables               the tables of a sale, and what each statement does to a row
  SalesStore              SalesTables with the sales handlers in flight (+ Handlers)
    Transactions          TransactionsService, one action per statement
    Payments              PaymentsService, one action per statement
      Sales               both services together; the properties
        SalesRefinement   Sales implements AtomicSales
        SalesHistory      Sales with history variables
  AtomicSales             the sales API with atomic requests, and payments of other sales
    SalesDocRules         rules of the documents, against AtomicSales
OrderMoves                the state machine of an order
  OrderLifecycle          the board of orders with atomic requests
  Orders                  OrdersService, one action per statement; Orders implements OrderLifecycle
Shifts                    ShiftsService, one action per statement
CashRegisters             CashRegistersService, one action per statement; its summary
MenuStore                 categories, products and modifiers with the handlers in flight (+ Handlers)
  Categories              CategoriesService, one action per statement
  Products                ProductsService, one action per statement
  Modifiers               ModifiersService, one action per statement
    Menu                  the three services together; the properties
Rows                      rows of a table, columns without a value, fields left out of a request
  PricingStore            discounts, taxes, the clock, and tills about to use a discount (+ Handlers)
    Discounts             DiscountsService, and the till that asks and then counts
    Taxes                 TaxesService
      Pricing             both over one clock; the properties
  StockStore              suppliers, items, movements and recipes (+ Handlers)
    Suppliers             SuppliersService
    InventoryItems        InventoryItemsService
    InventoryMovements    InventoryMovementsService
    Recipes               RecipesService
      Stock               the four services together; the properties
        BackOffice        Pricing and Stock over one database and one set of callers
MC*                       instances for TLC
*Proofs                   theorems
```

### How code becomes actions

A caller `c` has at most one request in flight. `call[c]` is `Idle` or a record:
`step` names the statement the handler sends next, the other fields are the
locals it still needs. Each write is an action, together with the code up to the
next write; the reads before the first write and their checks form the action
that begins the call. A check that fails throws before anything is written, so
it is no step. Where a handler reads, awaits and reads again before its first
write and uses only the later read, that read is the step. Where it uses several, each
is one: `complete` reads the sale twice (305-309), and of the second reading the row, its
line items and its payments, by three SELECTs (`CompleteRead`, `CompleteReadLines`,
`CompleteReadPays`). `call[c].owed` is the balance as far as it has been read.

A handler waits for nothing but the answer to its statement and has no loop, so that it
ends follows from its shape; no property states it.

`Abort` ends a call between two statements: a statement failed or the process
died. What was written stays.

Tables are functions from ids to rows. `NoRow` is an id not handed out yet,
`GoneRow` a deleted row; ids are cuids and are never used twice.

### Sales

`tx[t]` has a status, the number of line item lists stored (`lists`: 0 or 1 when
all is well), what they add up to, tax minus discount, and whether a completion
date is set. `pay[p]` has a status, its sale, its amount and whether a refund
date is set. Money is counted in its smallest unit. Names, notes, methods,
references and users are left out: no check looks at them. `Balance` is what
`calculateTotal` computes when nothing happens between its SELECTs: every payment row
counts, whatever its status.

When something does happen, the total it computes may be one the sale never had: a tax
of 0 is read, then a `PUT` raises it to 1 and a payment of the old total arrives, then the
payments are read, and the sale is completed although at least 1 was owing all along. What
still holds then is in `SalesHistory`, which remembers the taxes a sale has had
(`adjusts`), its *bills*, each such a tax with line items the sale had then or later
(`bills`), and whether its payments ever covered one (`covered`): a completion date is
written only after they did.

The status a client sends with `PUT` is validated against the enum only; which
ones clients send is the constants `TxPatchStatuses` and `PayPatchStatuses`.

### Orders

`ord[o]` has a status, the dates it carries, its number and the local day it was
created on. A number is a date and a sequence. `generateOrderNumber` takes the
date from `toISOString`, so in UTC, and counts from the server's own midnight;
the clock therefore counts half-days, and `ZoneShift` is how many UTC is ahead
(0, or 1 west of Greenwich, as in the Mexico City the seed data is set in).
A create reads the clock, counts, and inserts: three steps.

`Tills` send creates, `Staff` move and update orders, `Managers` delete them; a
caller may be all three. `sales` is what the foreign key needs to know of TransactionsService; sales come and go freely in it.

### Shifts

`shift[s]` has a status, the location (the pair of organisation and location that
`create` looks up), the opening cash, and what `close` wrote: the total expected
and the variance. The closing amounts per payment method only ever occur added
up, so they are one number. A shift that is `OPEN` is found by the next `create`
of its location; `create` looks, and inserts a statement later. An edit may
move an open shift to a location that has one; clients move the shifts of `Mobile`
only, so that these can be told from the others.

### Cash registers

Of the denomination and expense rows of a register nothing but their sums is ever
read, so `reg[r]` carries the sums (`recorded`, `spent`) beside the columns, and `expenses`,
whether there are expense rows: one of 0 is allowed, and refuses the delete like any other.
Denomination rows are never of 0.
`recordDenominations` sends all its inserts at once with `Promise.all`. When one
fails, the handler answers with that error while the others go on: the call stays
in `call[c]` until its last insert is done (`failed`), but its client no longer
waits (`WaitsFor`) and may send the next request. Those late inserts may make a
later `remove` fail on the foreign key, or land in a register counted anew.
`Summary` is `getSummary`, with its `||`, which takes 0 for absent.

### Menu

A category has a name, a place (`sortOrder`) and whether it is active; a product
its category, its SKU, whether it is active and whether a ticket line refers to
it (`sold`); a modifier a name, a type, `active` and `sold`. The look-ups of
names ignore case, so a *word* is a name up to case: two spellings of one word
are equal to a look-up and different to the `!==` that decides whether to look up
at all, which is why `Checks` is a set. These tables are in `schema.prisma`: SKUs
are unique there, names are not, and a product's category is a foreign key.

`CategoriesService.create` looks up the name, then the last category, then
inserts: three steps. With `sortOrder` in the request the second look-up counts
for nothing. `ModifiersService.update` reads the row in one statement and checks
the pair it puts together from it in another (`mod.check`). In the other updates
nothing of the first read is used but whether the client sent something new, so
one step stands for the reads: at the later read, or, when no look-up follows, at
the first. A row that goes in between makes the write throw.

Ticket lines are written by nothing in the API; `SellProduct` and `SellModifier`
let them appear at any time. Links between products and modifiers are left out.

### Prices

`disc[d]` has every column of a discount that a check or an amount reads; `tax[t]`
its rate and whether it is active. Neither table is in `schema.prisma`: columns are
those the DTOs and the statements name, and codes are taken to be unique, as the
services' own look-ups want them.

A handler whose write refuses all that its look-ups refuse is one action, at its
write: `create` finds the code free, then inserts under a unique index; `update`
finds the row, then writes it by id. An overtaking request makes the write throw
where the look-up would have, and nothing is kept from the look-up but the
refusal. What is *not* refused by a write is whether a discount may still be used:
`calculateDiscount` answers an amount and `incrementUsage` counts a use in a
request of its own. No code of the repository calls the two; PR-DISCOUNTS.md:131-144
gives the order, and the till that follows it is `DiscountUse`: its `call[c]` keeps
the discount from the one request to the other, or gives up (`Abandon`).

`update` checks the request and never the row: a type sent without its value, or
one date without the other, is not compared with what is stored (`ChecksPatch`).
`Given` is a field left out of a request. `TaxesAddUp` compares the two calculations over
taxes on record: a deleted one is a 404 in the one and passed over in the other, and an id
named twice is charged once by the one and, asked for alone, twice by the other. Amounts are in hundredths of the unit
of money (`Nominal`, `Capped`, `Amount`), before `toFixed`. A minimum or maximum of 0
is taken for none, as in the code. Time is the instants that dates can name.

### Stock

`item[i]` has its supplier, its stock and `active`; `move[m]` its item, type and
quantity; `rec[r]` the set of items of its ingredients, which `(recipeId, itemId)`
makes unique; `sup[s]` its `active`. Foreign keys follow `schema.prisma`: the
supplier of an item is optional, so it is set to null when the supplier goes; an
item with movements or in recipes cannot be deleted; ingredients go with their
recipe and a recipe with its product (`ProductDropped`). Codes of suppliers and
items are left out: their unique index only ever refuses.

Three removals decide in one statement and act in another (`SupplierRemoveRead`,
`ItemRemoveRead`; `RecipeRemoveRead` deletes the ingredients first). An outgoing
movement is checked against the stock a statement before its insert
(`MovementRead`, `MovementInsert`). `RecipesService.update` looks everything up,
deletes the ingredients, and writes the row with the new ones: the two writes are
`RecipeClear` and `RecipeStore`, and the second is all or nothing because Prisma
nests it in one statement. Every other handler is one action, as above.

`stock` stands for `currentStock`, which `getCurrentStock` selects
(inventory-movements.service.ts:244-251) although `InventoryItem` has no such column in
`schema.prisma` (234-263): the models describe the service over a table that has it. Nothing
in the API writes it: `SetStock` is whoever does. `RecipeRefused`
is the product that goes before a recipe is moved to it.

### Two environments

Several properties hold only if clients keep at most one request in flight per
sale, order, shift, register or modifier. That is how a till behaves that waits for its
answer; nothing in the API enforces it. So every property is placed in one of two
groups: those that hold whatever clients send, and those that hold under this
discipline. `Guarded` names the sales, orders, shifts, registers or modifiers it is kept
for, while about the others clients do as they please, so that one run has both.
A request about a sale is also one about the payment it names and about the sale it
moves that payment to, and it waits for the others about any of them (`Meet`,
`Admitted`): otherwise an update that has seen a pending payment of another sale would
rewrite it after it was moved to the guarded sale and settled there. `Removable` names the
registers that clients delete, in the same way, and `Placed` the categories whose
place clients set: the others stay where `create` puts them; `Mobile` the shifts that
clients move to another location. In the same way `Metered`
and `Paired` name discounts whose clients leave the count alone, or send together
what belongs together; `Kept` the suppliers whose items are left alone during their
removal; `Settled` movements never changed; `Filling` items whose stock is only
raised. `Kept` and `Filling` name every supplier and item of the instance, the others
some of the rows. That the discipline is needed
shows when the properties of SalesExclusive are asked of its other sale: a cancel that
has seen a pending sale overtakes its completion, and `CompletedIsFinal` fails.

## Runs

| Run | Instance | Shows |
|---|---|---|
| SalesExclusive | 2 sales, one guarded, 2 payments, 2 callers, faults | `TypeOK`; of the guarded sale: checks are never stale (`ChecksHold`), final once completed, covered when stamped, payments refunded once, one item list at most |
| SalesConcurrent | 1 sale, 2 payments, 2 callers, taxes of 0 and 1, faults, anything goes | item lists bounded by the requests in flight; a bill was covered before the completion date, and a payment completed before its refund date |
| SalesAtomic | 2 sales, one guarded, 1 payment of 2 amounts, 2 callers, no faults | on the guarded sale the handlers implement `AtomicSales` |
| OrdersExclusive | 2 orders, one guarded, 2 callers, faults, statuses patched by hand | `TypeOK`; the guarded order final once closed; its handlers implement `OrderLifecycle` |
| OrdersOvertaking | 2 orders, 3 callers, faults, anything goes but statuses set by hand | dates in order |
| OrdersNumbers | 6 orders, 2 tills, one of which deletes orders, a day and a half, UTC ahead | few orders share a number, and how few depends on the orders deleted; the bound is reached |
| ShiftsOfADay | 3 shifts of 2 locations, one guarded, one moved, 2 callers, faults | no more open shifts per location than openers, beside the moved ones; open shifts are kept; guarded shifts closed once, on the cash they have |
| CashRegisterOfADay | 1 register of 3 kinds, 2 denominations, expenses of 0 and 1, 2 callers, faults | counts and totals backed by rows; totals of the guarded one catch up, also after an expense or a removal that stopped half-way |
| MenuOfAShop | 3 rows among 4 categories, 1 product and 3 modifiers, 2 words, 2 types, 2 callers, faults | a name of categories, a place at the end, a name and type of modifiers: shared by no more rows than requests can be in flight |
| BackOfficeOfAShop | 1 discount of 2 kinds and 3 instants; or 2 taxes; or 4 rows among 1 supplier, 3 items, 2 movements and 2 recipes; 2 callers, faults | `TypeOK`; limits hardly exceeded, terms valid, lists in force, amounts fair, taxes add up; recipes mix few lists; suppliers take nothing from items; what goes out was in stock |
| Doc* | 1 sale or 1 register | violations, below |

Two sales and two payments are the least that let a payment move between sales, into
the guarded one and out of it, while the other sale is handled; two callers under the
discipline already give every pair of requests, and without it every pair that overtakes
each other. Amounts and subtotals are 1 in SalesExclusive: 0, 1 or 2 payments then leave
a sale of 0 or 1 owing, covered or overpaid; an update that changes an amount is in
SalesAtomic, where one payment is enough to be made on a sale, to stay there, to leave
the guarded one or to arrive at it. Their clients send neither tax nor discount
(`Adjustments` is empty, and a sale is created with 0): on a guarded sale an update of
the tax is one statement like any other. Taxes change in SalesConcurrent, where one can
fall between two SELECTs of a total. Of two orders one is guarded: on the other everything overtakes. What
three do to one sale is left to the proofs, which hold for any number. Two tills west of
Greenwich make four orders of one number, and a number given out again after a
deletion needs a row more: six orders and two tills exceed four once one is deleted,
so the part of the bound that deletions have is needed. Three half-days cross both
midnights, local and UTC. No sales, moves and faults there: a number depends on
none of them but a fault, which only ever takes a claim away.
Three shifts leave room for two open at one location and one about to be inserted
or moved there. Registers share nothing, not even a unique column, so one register ever
created (`MaxRegisters`) shows all that two callers can do to one; the instance
picks which of the three kinds it is. Three rows of the menu are the least that
exceed a bound of two; `Mixed = FALSE` gives all three either to categories and
products or to modifiers, which share no check. There are three ids and one
more, `placed`, so that a category moved by hand can be among the three.

Discounts never meet, but for their codes, and taxes meet in a total only: one
discount with two tills shows every overrun of a limit of 1 or 2 (`MaxCount` 3 is
one more than the bound of a limit of 1 allows, and reaches that of 2), and two
taxes every total. Updates change one group of columns at a time (`GroupPatches`), because the
code compares columns only within a group. Values on both sides of 100, dates at 1
and 2 with a clock from 0 to 2 (before, at, between and after), maxima and minima of
null, 0 and more, and subtotals of nothing, little and much cover the branches of the
calculation. In the stock room four rows are a supplier, an item of it, a movement of
that and a recipe, or two recipes, or a recipe of three items, with one item per list (`SingleItems`):
a mixture of two lists then shows as a recipe of two items. `Mixed = FALSE` gives the
instance to discounts, to taxes or to stock, which share no table.

Bounds in the models: ids come from `Txs`, `Pays`, `Ords`, `ShiftIds` and
`RegIds`, and a create begins only while an id is left for it (`RoomForPayment`,
`RoomForOrder`, `RoomForShift`); `MaxDeleted` bounds the orders removed (`RoomForDeletion`): 2 in
OrdersNumbers, 5 where it never bites; `MaxClock` stops the clock; `MaxCount` and
`MaxRecorded` bound what is counted and spent, 3 being enough for two counts with
different sums, or an expense after a failed one. `MaxRows` bounds the rows of the
menu ever created (`RoomOnShelf`, `RoomForModifier`), and `Flags`, empty in the
runs, holds the values of `active` that clients send, which no check of theirs reads.
`MaxDiscounts` bounds the discounts ever created, `MaxStock` the stock of an item,
and `MaxRows` of the back office its suppliers, items, movements and recipes together. `CHECK_DEADLOCK FALSE`
everywhere: the system may rest when the ids are used up, and a call must not be
forced.

**Fairness** is assumed nowhere. Clients owe nothing, and a handler that waits for
nothing but the database ends by its shape: whatever would have to happen happens in
one request, and the properties say what it leaves behind when it does not get there.

### Where documents and code disagree

| Run | Document | Code |
|---|---|---|
| DocCompletedIsPaid | PR-TRANSACTIONS.md:12, COMPLETED is paid | pending and failed payments count |
| DocVarianceIsOfTheCount | PR-CASH-REGISTER.md:62, 67, variance is counted minus expected | a count of 0 is taken for none: the old rows are compared instead |

The first is checked against the atomic specification: no concurrency is needed.
The second needs none either.

The same kind of disagreement, without a run of its own: `PATCH` sets any
status on an open order (PR-ORDERS.md:51, "transitions strictly enforced"), `PUT` sets a sale
`COMPLETED` without looking at its payments (PR-TRANSACTIONS.md:32), completed
payments go with their sale (PR-PAYMENTS.md:40), a `PATCH` of the location or two
openers give a location two active shifts (PR-SHIFTS.md:38), `PUT /payments/:id`
sets `REFUNDED` on a payment never completed (PR-PAYMENTS.md:39), `DELETE
/transactions/:id` deletes the rows (PR-TRANSACTIONS.md:51, "soft delete"), and
two requests in flight on one order bring a cancelled order back to the kitchen
(PR-ORDERS.md:48; `ClosedIsFinal` of an order outside `Guarded`) or cancel a
completed sale (PR-TRANSACTIONS.md:30-31), a percentage goes beyond 100 and dates
the wrong way round by updates of one column (PR-DISCOUNTS.md:41, 43; `TermsHold`
with every discount in `Paired` shows what is left), a maximum discount of 0 is taken
for none (PR-DISCOUNTS.md:45), a discount is used more often than its limit by tills that
overtake each other (PR-DISCOUNTS.md:44; `FewOverLimit` is how much more often), a sale
is completed on a total it never had (PR-TRANSACTIONS.md:32, "Validación de pagos antes de
completar"; Sales, above), and no movement ever lowers the stock it is checked
against, while an update of one is not checked at all (PR-INVENTORY-MOVEMENTS.md:31-34, 191).

Also seen, with no rule to check them against: recounting a register adds the new
denomination rows to the old ones, so that the sum a summary falls back on grows
with every count; `complete` accepts a cancelled or
refunded sale and dates a completed one anew; an update with an empty list of
items keeps the old ones; a create names products by UUID while ids are cuids;
between the two writes of an
update a recipe has no ingredients, so it costs nothing and its items can be deleted
for good; a recipe names its product and items by UUID while ids are cuids;
a shared day lets one order number be held by as many orders as there are tills,
twice that west of Greenwich, and by as many again for every order deleted.

## Proofs

TLAPS proves the following for any number of rows of each table, of callers, amounts
and statuses patched. The proofs assume the named ASSUMEs of the modules: the sets
of callers, payments, orders, shifts, denominations, categories, modifiers,
suppliers, items, movements and recipes are finite, payments and moved quantities are
positive, subtotals, expenses and counted cash are not negative, statuses that clients patch are in the enums.

**Every environment.** `SalesProofs`: `TypeCorrect`, and `ListsNeverPileUp`. The
bound on item lists is inductive only with what the handlers in flight still
owe: stored lists plus updates about to store one never exceed the callers,
because an update joins the second group only by emptying the first.
`SalesHistoryProofs`: `StampsAreEarned` and `RefundsAreEarned`, with `CheckedOnce`
as strengthening: what `complete` carries from one SELECT to the next is first a tax the
sale has had, then a bill of it, and after the last the sale is among those covered; a
refund in flight is of a payment that was completed. The history only grows
(`HistoryGrows`), so neither what overtakes a handler nor how often it is overtaken
matters; a sale that is deleted meanwhile is none of them, and does not come back
(`LiveBefore`).
`OrdersProofs`: `TypeCorrect`, and `DatesTellTheStory`, strengthened by
`MovesPrepared`: a move in flight is about an order that already carries the date
the move relies on, and dates are never taken back. `FewOrdersShareANumber` is about
the local day a number was counted for, which no column keeps: `NumbersInv` says
that there is such a day for every row and that of one day each number is held and
claimed by no more than there are tills, and as many again for each deletion
(`FewOfADay`). That is not inductive: a count gives out the number after the orders it
finds, and those may have been given out before some were deleted. So it is kept
together with what is to spare (`Spare`, `Fits`): a number that lies above the count
by more than the deletions account for has no holder, and one that lies above by less
leaves a till's share unused for every deletion still to come. When a
number is given out again its holders are therefore within the spare, and all new
claims are tills in flight (`CountNumbers`); an insert turns a claim into a holder
(`InsertNumbers`); a delete lowers the count and pays for it with a share
(`DeleteNumbers`). A date spans one local day or two
(`DateSpansDays`), hence the factor in the bound.

**Guarded sales.** `SalesRegisterProofs`. The inductive invariant is `GuardedInv`:
types; a request about a guarded sale shares no sale and no payment with another
(`Apart`); the checks of such a handler still hold (`ChecksHold`); and a handler whose
payment is on a guarded sale by now is about that sale (`PaymentsKnown`). The
argument is locality: a step touches only rows of the guarded sales its handler is
about (`StepIsLocal`), and of the payments of other sales only those it has read or
whose sale it removes (`PaymentLeftAlone`), so it cannot disturb what another has
checked (`Unaffected`). `PaymentsKnown` is what makes that inductive: without it a
handler of an unguarded sale could reach a guarded one through a payment that was moved
there meanwhile. No assumption is made about the other sales. From it follow
`CompletedSaleIsFinal`, `StampedSaleIsCovered`, `SettledPaymentStays`, `RefundedOnce`
and `OneListAtMost`.

`SalesImplementAtomicSales`: without faults the handlers implement the atomic API of
the guarded sales, and no assumption is made about the other sales here either. Clients
see a payment of another sale as `ElsewhereRow`; one that an update moves to or from a
guarded sale is seen to arrive or to leave. A handler in flight is the only one whose
writes to its guarded sale are still to come (`Only`), so what clients see of that sale
is its row and what this handler is going to make of it (`SeenAlone`), and what they
see of all others stays (`SeenElsewhere`). Each of its statements is a step of
`AtomicSales`, taken where the comment of `SalesRefinement` says, or invisible;
`ClearsReplace` adds that an update that clears line items has new ones to store. The
statements of a handler about no guarded sale touch no payment of one (`OutsidePays`),
and so are invisible or `PaymentsElsewhere` (`OutsideIsAtomic`): `PaymentsKnown` is
what this rests on. With faults the refinement does not hold: an update that dies
after its clear leaves a sale without line items, which no atomic request does.

**Guarded orders.** `OrdersProofs`: `OrdersInv` is the same idea, with
`OrderReads` and `OrdEffects` saying where a request in flight comes from and
what one step can do to a row. It gives `ClosedOrderIsFinal` and
`OrdersImplementLifecycle`: initial states map to initial states and every step
to a step of the board of guarded orders or to none.

**Shifts.** `ShiftsProofs`: `FewOpenShifts` counts open shifts and those about to
be inserted together: an opener in flight has found no open shift, so all the
others there are in flight too, one per opener; an update that carries a location is
about a shift of `Mobile`, which is not counted (`MovesMobile`). `OpenShiftStays` needs that a
delete in flight is about a shift that is not open, and that none is opened
again. `GuardedShiftIsClosedOnce` is locality once more: one request about a
guarded shift, whose opening cash therefore does not change under a close.

**Cash registers.** `CashRegistersProofs`: `CountsAreBacked` and
`TotalsAreBacked` follow from `BackedInv`, which adds what the handlers carry
(`Carried`): a sum in flight never exceeds the rows, because rows of a register
nobody deletes only become more (`RegisterGrows`), and a sum grows only by a row
just inserted (`CallSteps`). `GuardedTotalsCatchUp` rests on `FreshInv`: no two
clients wait for an answer about a guarded register (`Alone`), and only a request
somebody waits for touches its expenses (`SpendingCall`), so the sum that is
about to be written is still the sum of the rows (`Fresh`). The inserts left over
from a failed count touch denominations only, which is why they do no harm.

**Menu.** `MenuProofs`: a bound on the rows that share a value is not inductive,
because a handler in flight is about to add one. The invariants count *claims*
instead: the rows that bear the value, those an update is about to give it to,
and the creates about to store it are, together, no more than the callers
(`Few`). A request joins the claims only after a look-up that found the value on
no other row, and then all the other claims are requests in flight too
(`Settles`, `Fewer`). `FewCategoriesShareAName` is that argument. For
`FewCategoriesShareAPlace` a create chooses a place only when every category
comes before it, and no update in flight moves a category outside `Placed`
(`MovesAreByHand`). For `FewModifiersShareAPair` the pair that is checked has to
be the pair that is stored: `GuardedInv` says that a guarded modifier has one
request in flight, so the row the pair was put together from is still the row.

**Prices.** `BackOfficeProofs`. `LimitHardlyExceeded` counts the uses that are about
to be (`MeterInv`): those counted and the tills that have been granted one are
together at most one less than the limit plus the callers, because a till is
granted one only below the limit, and other tills at work are callers too
(`DiscountRows` says how a row comes to be what it is). `TermsAlwaysHold` is
inductive as it stands: checks of the request become checks of the row when
what belongs together comes together (`PairedTerms`). `ListedAlwaysInForce` and
`BiggerAlwaysPaysNoLess` follow from the types alone, the second by a lemma on products
(`NominalGrows`): a percentage takes of a bigger basket more, but no more than the
basket grew, or else takes all of both. `TaxesAlwaysAddUp` needs that sums over the
taxes asked for do not depend on the order they are added in. The fold that the model
is written with cannot be unfolded by a prover, so sums are taken as any function
that adds one element at a time (`Adds`): one exists for every finite set
(`SumsExist`), all of them agree (`SumsAgree`), and taxes that charge nothing may be
dropped (`ZerosDropped`). Each of these goes by a smallest set that would be a
counterexample (`SmallestSubset`). That only finitely many taxes are on record is an
invariant of its own (`TaxRows`): every step adds one at most.

**Stock.** `StepKinds` sorts the steps: those elsewhere, requests of one action, and steps
of one service, which leave the calls of the others alone. `SupplierAlwaysTakesNothing`
rests on `KeptInv`: from the count of a removal to its delete no item refers to the
supplier. `FewListsAlwaysMix` is the argument of `ListsNeverPileUp` for sets: the lists a
recipe is made of and those about to be added are no more than the requests that can
overlap (`ListsInv`, `MadeOf`), with `Sole` for guarded recipes and `Known`, that no
request is about a recipe not yet created. `OutsAlwaysFit` needs that movements refer to items
that are there (`Refer`) and that what a request in flight is about to take was in
stock (`Held`), which only a filling item keeps (`ItemsFill`).

**Only model-checked.** The two disagreements with documents. Every property of a
passing run is a theorem; none of them is about liveness.

## Plan

| Step | Modules | Abstract specification | Theorems |
|---|---|---|---|
| A done | Sales and its parts | AtomicSales | types, list bound, register invariant, history, refinement |
| B done | Orders, OrderMoves | OrderLifecycle | types, dates, finality, numbers, refinement |
| C done | Shifts, CashRegisters | none: they share no statement | types, open shifts, closing, counts and totals |
| F done | MenuStore, Categories, Products, Modifiers, Menu | none: the foreign keys keep references | types, names, places and pairs shared by few |
| D done | Rows, PricingStore, Discounts, Taxes, Pricing | none: amounts are operators | types, limits, terms, lists in force, amounts |
| E done | StockStore, Suppliers, InventoryItems, InventoryMovements, Recipes, Stock, BackOffice | none: the foreign keys keep references | types, suppliers, recipes, movements |

Instances stay at two or three callers and two or three rows per table.

## Not modelled

List queries and `findOne` change nothing. Authentication, organisations, CRM,
finance, HR and the integrations are empty modules. The web client is a static
page with a generated service worker, `scripts/` sets up machines and the tables of a
Baserow service, and `seed.ts` fills an empty database; none runs beside the API. The
cost of a recipe and the statistics of movements and suppliers are sums of columns
that are left out. Floating point is left out because TLC has none: a balance that misses 0
by a rounding error is outside these models.
