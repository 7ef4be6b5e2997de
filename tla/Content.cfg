\* Trees and requests as MCContent has them; contents replaced in the course of four seconds.
CONSTANTS
  c1 = c1
  c2 = c2
  Nothing = Nothing
  Shared = {c1, c2}
  SharedPaths <- TakenPaths
  MaxAdds = 2
  Trees <- AllTrees
  Regexes <- FewRegexes
  RegexPaths <- FewPaths
  Requests <- FewRequests
  LookupTrees <- OneTree
  Omits <- AllOmits
  Public <- PublicTypes
  IndexFiles <- Indices
  Contents = {"text", "even", "image", "empty", "mixed"}
  Size <- Sizes
  MaxTime = 3

SPECIFICATION ContentSpec

\* A directory has been loaded.
CHECK_DEADLOCK FALSE

INVARIANT TreeLoaded
PROPERTY RegexFound
PROPERTY ServedAsStored
