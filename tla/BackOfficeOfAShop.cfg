\* Two callers and one discount, metered or paired; or else two taxes; or else four
\* rows among suppliers, items, movements and recipes, guarded ones and others.
CONSTANTS
  DiscIds = {metered, paired}
  TaxIds = {t1, t2}
  Codes = {x}
  Offers <- PlainOffers
  DiscPatches <- GroupPatches
  Rates = {0, 8, 16}
  Subtotals = {0, 1, 3, 150}
  Metered = {metered}
  Paired = {paired}
  MaxClock = 2
  MaxCount = 3
  MaxDiscounts = 1
  SupIds = {s1}
  ItemIds = {i1, i2, i3}
  MoveIds = {m1, settled}
  RecIds = {r1, guarded}
  Lists <- SingleItems
  Quantities = {1}
  MoveTypes = {"IN", "OUT"}
  Flags = {}
  Kept = {s1}
  Settled = {settled}
  Filling = {i1, i2, i3}
  Guarded = {guarded}
  MaxStock = 1
  MaxRows = 4
  Mixed = FALSE
  Callers = {c1, c2}
  Faults = TRUE
  Null = Null
  Absent = Absent
SPECIFICATION Spec
SYMMETRY Anyone
CHECK_DEADLOCK FALSE
INVARIANTS
  TypeOK
  FewOverLimit
  TermsHold
  ListedAreInForce
  BiggerBasketPaysNoLess
  TaxesAddUp
  FewListsMix
  OutsFitStock
PROPERTIES
  SupplierTakesNothing
