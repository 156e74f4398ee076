\* One run of any kind, with fair scheduling.
SPECIFICATION FairSpec
CONSTANTS
  Runs = {r1}
  MaxJobs = 1
  Kinds <- AllKinds
  Vias <- BothVias
  None = None
INVARIANTS OneFinal ReportsTruth
PROPERTIES RunsEnd GivenUpJobEnds RunSpec
