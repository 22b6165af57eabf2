SPECIFICATION Spec
CONSTANTS
  None = None
  NoFilter = NoFilter
  t1 = t1
  t2 = t2
  x = x
  Names = {t1, t2}
  Listings <- MCListings
  Layouts = {"map", "radial"}
  Canvases = {"c1"}
  Texts = {x}
  Lists = {"nodes"}
  Pages <- MCPages
  MaxLoads = 2
  MaxListLoads = 1
  MaxInputs = 2
CHECK_DEADLOCK FALSE
INVARIANT PageExists
