SPECIFICATION Spec
CONSTANTS
  r1 = r1
  r2 = r2
  r3 = r3
  Nobody = Nobody
  Requests <- ThreeRequests
  Uploads <- RaceUploads
  Archives <- SmallArchives
  Backends = {"file", "s3", "maven"}
  JsonPolicies = {TRUE}
  BaseUrls = {TRUE, FALSE}
  Chunks = 2
  MaxActive = 2
  FaultKinds = {}
  MaxFaults = 0
  MaxCrashes = 0
SYMMETRY Permutation
INVARIANTS
  AcceptedAloneIsServed
  RefusedPartsAreGone
