\* Two live runs, plugin managed or legacy, compete for one job slot.
SPECIFICATION Spec
CONSTANTS
  Runs = {r1, r2}
  MaxJobs = 1
  Kinds = {"plugin", "legacy"}
  Vias = {"live"}
  None = None
SYMMETRY Symmetry
INVARIANTS TypeOK SlotAccounting
