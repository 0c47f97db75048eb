SPECIFICATION Spec
CONSTANTS
  Known <- FiveVersions
  Text <- SomeText
  Packages = {"p", "q", "o"}
  ScopeOf <- Scopes
  Releases <- SomeReleases
  Before <- SomeBefore
  Backends = {"file", "s3", "maven"}
  Asks <- SomeAsks
  MaxInt = 31
  KeysPerPage = 2
  MaxPublishes = 1
  MaxFaults = 1
INVARIANTS
  TypeOK
  WalkMissesNothing
  NewestFirst
  PagesHaveAnEnd
  NotFoundIsTrue
  CollectionIsComplete
  CollectionHasNoGhosts
PROPERTIES
  AnswersEnd
