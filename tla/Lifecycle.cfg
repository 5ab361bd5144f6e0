\* A form whose save threw takes no submit: only a page load, of which there
\* are no more than MaxReloads here, goes on from there.
CHECK_DEADLOCK FALSE
SPECIFICATION FairSpec
CONSTANTS
  Key = {k1, k2, kBad}
  Usable = {k1, k2}
  NoKey = NoKey
  None = None
  MaxBuilds = 2
  MaxFailures = 2
  MaxReloads = 2
INVARIANTS
  OneWorker
PROPERTIES
  ResumesAsItWas
  UpdateIsTaken
