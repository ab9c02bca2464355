\* Two callers over three rows: categories, one of them placed by hand, and a product,
\* or else modifiers with one request in flight each.
CONSTANTS
  CatIds = {k1, k2, k3, placed}
  ProdIds = {p1}
  ModIds = {m1, m2, m3}
  Words = {w1, w2}
  Types = {t1, t2}
  Skus = {s1}
  Places = {2}
  Flags = {}
  Placed = {placed}
  Guarded = {m1, m2, m3}
  MaxRows = 3
  Mixed = FALSE
  Callers = {c1, c2}
  Faults = TRUE
  Absent = Absent
SPECIFICATION Spec
SYMMETRY Anyone
CHECK_DEADLOCK FALSE
INVARIANTS
  TypeOK
  FewShareAName
  FewShareAPlace
  FewShareAPair
