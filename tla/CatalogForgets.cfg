SPECIFICATION Spec
CONSTANTS
  u1 = u1
  u2 = u2
  u3 = u3
  a1 = a1
  a2 = a2
  b1 = b1
  a = a
  b = b
  NoOne = NoOne
  Uploads <- TwoUploads
  Releases <- SomeReleases
  Packages <- SomePackages
  PackageOf <- SomePackageOf
  Redeploys = {TRUE, FALSE}
  MaxFaults = 1
  MaxCrashes = 0
INVARIANTS
  IndexForgetsNothing
