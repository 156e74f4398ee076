\* One run that submits a job.
SPECIFICATION Spec
CONSTANTS
  Runs = {r1}
  MaxJobs = 1
  Kinds <- JobKinds
  Vias <- BothVias
  None = None
INVARIANT TimeoutCancels
