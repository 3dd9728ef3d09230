CONSTANTS
  Products <- MCProducts
  Releases <- MCReleases
  Names <- MCNames
  NameOf <- MCNameOf
  Newest <- MCNewest
  Fallback <- MCFallback
  Imports <- MCImports
  MaxCrashes <- MCCrashes
SPECIFICATION FairSpec
INVARIANTS
  OneVersionKept
PROPERTIES
  UpdaterServes
  Converges
