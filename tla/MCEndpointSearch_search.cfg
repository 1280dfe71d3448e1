\* Every catalog of up to three endpoints (two of an identity service of version 2).
SPECIFICATION Spec
CONSTANTS
  VersionOf <- TheVersionOf
  Marked <- TheMarked
  ServiceTypeAliases <- TheAliases
  ImpliedVersion <- TheImplied
  Published <- ThePublished
  Catalogs <- TheCatalogs
  Queries <- TheQueries
  Documents <- TheDocuments
  Microversions <- TheMicroversions
  NoURL = NoURL
INVARIANTS
  IdentityVersionIsBest
  FoundFitsTheQuery
  FirstThatSupports
  MicroversionIsInside
  DeprecatedSearchAgrees
