CONSTANTS
  a = a
  b = b
  File = {a, b}
  Initial = {a}
  MaxEdits = 3
  MaxActive = 2
  Unparsable = {2}
  Clashing = {1}
  NoManifest = NoManifest
  Appender = {1, 2, 3}
  MaxLines = 2
  NoFile = NoFile
  Earlier = Earlier
SPECIFICATION Spec
INVARIANTS
  CacheFollowsDisk
  ManifestFollowsCache
  ChangesetKeepsRecent
PROPERTY
  ManifestCatchesUp
CHECK_DEADLOCK FALSE
