SPECIFICATION EndpointsSpec
CONSTANTS
  r1 = r1
  r2 = r2
  g1 = g1
  Nobody = Nobody
  Requests <- TwoRequests
  Readers <- OneReader
  Uploads <- SomeUploads
  Archives <- SomeArchives
  Backends = {"file", "s3"}
  JsonPolicies = {FALSE}
  BaseUrls = {TRUE}
  Chunks = 2
  MaxActive = 2
  FaultKinds = {"read"}
  MaxFaults = 1
  MaxCrashes = 1
SYMMETRY Permutation
INVARIANTS
  ReadersTypeOK
  AcceptedIsServed
  RefusedIsNotServed
