------------------------------- MODULE Discounts -------------------------------
(***************************************************************************)
(* DiscountsService: create, update, activate, deactivate and remove, and  *)
(* a till that asks calculateDiscount and then sends incrementUsage.       *)
(*                                                                         *)
(* A write that refuses all that the look-ups before it refuse - a code    *)
(* that is taken, a row that is gone - is one action with them.  Only a    *)
(* till keeps something between two statements: that it may use a          *)
(* discount.                                                               *)
(***************************************************************************)
EXTENDS PricingStore

\* The index that keeps codes unique.
Taken(code) == {d \in LiveDiscs : disc[d].code = code}

FitsType(type, value) ==
  /\ type = "PERCENTAGE" => value <= 100
  /\ type = "FIXED_AMOUNT" => value > 0
InOrder(from, until) == from # Null /\ until # Null => from <= until

DiscountCreate(offer) ==
  /\ RoomForDiscount
  /\ Taken(offer.code) = {}
  /\ FitsType(offer.type, offer.value)
  /\ InOrder(offer.from, offer.until)
  /\ \E d \in DiscIds :
       /\ disc[d] = NoRow
       /\ d \in Metered => offer.count = 0
       /\ disc' = [disc EXCEPT ![d] = offer]
  /\ UNCHANGED <<tax, now, call>>

PatchedDiscount(row, patch) ==
  [code |-> Given(row.code, patch.code),
   type |-> Given(row.type, patch.type), value |-> Given(row.value, patch.value),
   max |-> Given(row.max, patch.max), min |-> Given(row.min, patch.min),
   from |-> Given(row.from, patch.from), until |-> Given(row.until, patch.until),
   limit |-> Given(row.limit, patch.limit), count |-> Given(row.count, patch.count),
   active |-> Given(row.active, patch.active)]

\* Mutant: the dates of a change are not compared.
ChecksTypeOnly(patch) ==
  patch.type # Absent /\ patch.value # Absent => FitsType(patch.type, patch.value)

\* What is checked of a change: the request alone, not the row it will make.
ChecksPatch(patch) ==
  /\ patch.type # Absent /\ patch.value # Absent => FitsType(patch.type, patch.value)
  /\ patch.from # Absent /\ patch.until # Absent => InOrder(patch.from, patch.until)

\* What the clients of metered and of paired discounts send.
KeepsMeter(row, patch) ==
  /\ patch.count = Absent
  /\ patch.limit # Absent => Null \notin {patch.limit, row.limit} /\ patch.limit >= row.limit
KeepsPairs(patch) ==
  /\ patch.type = Absent <=> patch.value = Absent
  /\ patch.from = Absent <=> patch.until = Absent

DiscountUpdate(d, patch) ==
  /\ d \in LiveDiscs
  /\ patch.code # Absent => Taken(patch.code) \subseteq {d}
  /\ ChecksPatch(patch)
  /\ d \in Metered => KeepsMeter(disc[d], patch)
  /\ d \in Paired => KeepsPairs(patch)
  /\ disc' = [disc EXCEPT ![d] = PatchedDiscount(@, patch)]
  /\ UNCHANGED <<tax, now, call>>

\* activate and deactivate.
DiscountSwitch(d, active) ==
  /\ d \in LiveDiscs
  /\ disc' = [disc EXCEPT ![d].active = active]
  /\ UNCHANGED <<tax, now, call>>

DiscountRemove(d) ==
  /\ d \in LiveDiscs
  /\ disc' = [disc EXCEPT ![d] = GoneRow]
  /\ UNCHANGED <<tax, now, call>>

-----------------------------------------------------------------------------
\* calculateDiscount: what it refuses, and the amount in hundredths.

\* Mutant: a date is no longer valid at its own instant.
ExpiresAtOnce(row) ==
  row.active /\ ~(row.from # Null /\ row.from > now) /\ ~(row.until # Null /\ row.until <= now)

InForce(row) ==
  row.active /\ ~(row.from # Null /\ row.from > now) /\ ~(row.until # Null /\ row.until < now)

\* A minimum of 0 is taken for none.
Reaches(row, subtotal) == row.min \notin {Null, 0} => subtotal >= row.min

\* Mutant: the use that exceeds the limit is still granted.
UsesLeftOrOver(row) == row.limit # Null => row.count <= row.limit

UsesLeft(row) == row.limit # Null => row.count < row.limit

Nominal(row, subtotal) ==
  IF row.type = "PERCENTAGE" THEN subtotal * row.value
  ELSE IF row.type = "FIXED_AMOUNT" THEN 100 * row.value
  ELSE 0

\* A maximum of 0 is taken for none.
Capped(row, amount) ==
  IF row.max \notin {Null, 0} /\ amount > 100 * row.max THEN 100 * row.max ELSE amount

\* Mutant: the subtotal does not bound the discount.
AmountUnbounded(row, subtotal) == Capped(row, Nominal(row, subtotal))

Amount(row, subtotal) ==
  LET amount == Capped(row, Nominal(row, subtotal)) IN
  IF amount > 100 * subtotal THEN 100 * subtotal ELSE amount

Users(d) == {c \in Callers : call[c].step = "use" /\ call[c].id = d}

CalculateDiscount(c, d, subtotal) ==
  /\ d \in LiveDiscs
  /\ InForce(disc[d]) /\ Reaches(disc[d], subtotal) /\ UsesLeft(disc[d])
  /\ disc[d].count + Cardinality(Users(d)) < MaxCount
  /\ Start(c, [step |-> "use", id |-> d])
  /\ UNCHANGED <<disc, tax, now>>

\* Throws when the discount has been removed.
IncrementUsage(c) ==
  LET d == call[c].id IN
  /\ call[c].step = "use"
  /\ disc' = IF d \in LiveDiscs THEN [disc EXCEPT ![d].count = @ + 1] ELSE disc
  /\ End(c)
  /\ UNCHANGED <<tax, now>>

\* The till shows a price and sells nothing, or dies.
Abandon(c) ==
  /\ call[c].step = "use"
  /\ End(c)
  /\ UNCHANGED <<disc, tax, now>>

-----------------------------------------------------------------------------
\* findActive.
ListedDiscounts == {d \in LiveDiscs :
  LET row == disc[d] IN
  /\ row.active
  /\ \/ row.from # Null /\ row.from <= now /\ row.until # Null /\ row.until >= now
     \/ row.from = Null /\ row.until = Null
     \/ row.from # Null /\ row.from <= now /\ row.until = Null
     \/ row.from = Null /\ row.until # Null /\ row.until >= now}

DiscountRequest ==
  \/ \E offer \in Offers : DiscountCreate(offer)
  \/ \E d \in DiscIds :
       \/ \E patch \in DiscPatches : DiscountUpdate(d, patch)
       \/ \E active \in BOOLEAN : DiscountSwitch(d, active)
       \/ DiscountRemove(d)

DiscountUse(c) ==
  \/ \E d \in DiscIds, subtotal \in Subtotals : CalculateDiscount(c, d, subtotal)
  \/ IncrementUsage(c)
  \/ Abandon(c)
=============================================================================
