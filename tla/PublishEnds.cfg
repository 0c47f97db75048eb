SPECIFICATION Spec
CONSTANTS
  r1 = r1
  r2 = r2
  r3 = r3
  Nobody = Nobody
  Requests <- TwoRequests
  Uploads <- EndUploads
  Archives <- JsonArchives
  Backends = {"file", "maven"}
  JsonPolicies = {TRUE}
  BaseUrls = {TRUE}
  Chunks = 2
  MaxActive = 2
  FaultKinds = {"stat", "head", "open", "copy", "close", "unzip", "extract", "remove"}
  MaxFaults = 1
  MaxCrashes = 1
INVARIANTS
  RefusedPartsAreGone
PROPERTIES
  EveryPublishEnds
