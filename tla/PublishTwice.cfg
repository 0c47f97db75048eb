SPECIFICATION Spec
CONSTANTS
  r1 = r1
  r2 = r2
  r3 = r3
  Nobody = Nobody
  Requests <- TwoRequests
  Uploads <- AloneUploads
  Archives <- SomeArchives
  Backends = {"file", "s3", "maven"}
  JsonPolicies = {FALSE}
  BaseUrls = {TRUE}
  Chunks = 2
  MaxActive = 2
  FaultKinds = {}
  MaxFaults = 0
  MaxCrashes = 0
INVARIANTS
  OnePublishAccepted
