SPECIFICATION Spec
CONSTANTS
  None = None
  NoFilter = NoFilter
  t1 = t1
  t2 = t2
  x = x
  Names = {t1, t2}
  Listings <- MCListings
  Layouts = {"map", "radial"}
  Canvases = {"c1"}
  Texts = {x}
  Lists = {"links"}
  Pages <- MCPages
  MaxLoads = 3
  MaxListLoads = 2
  MaxInputs = 2
CHECK_DEADLOCK FALSE
INVARIANTS TypeOK ShownTogether NeverStuckLoading AskedIsSelected NewestIsShown
