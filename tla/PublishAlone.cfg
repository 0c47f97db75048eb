SPECIFICATION Spec
CONSTANTS
  r1 = r1
  r2 = r2
  r3 = r3
  Nobody = Nobody
  Requests <- ThreeRequests
  Uploads <- AloneUploads
  Archives <- SomeArchives
  Backends = {"file", "s3", "maven"}
  JsonPolicies = {TRUE, FALSE}
  BaseUrls = {TRUE}
  Chunks = 2
  MaxActive = 1
  FaultKinds = {"stat", "open", "copy", "close", "unzip", "extract", "remove"}
  MaxFaults = 1
  MaxCrashes = 1
SYMMETRY Permutation
INVARIANTS
  TypeOK
  AcceptedAloneIsServed
  ManifestsMatchArchive
  RequiredJsonIsOwn
PROPERTIES
  RegistrySpec
  RollbackAddsNothing
