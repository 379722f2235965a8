CONSTANTS
  Method = {"GET", "POST"}
  Name = {"1", "a", "b", "w", "x", "y"}
  Pattern = {"digits"}
  None = None
  NameRank <- NameRanks
  PatternLength <- PatternLengths
  Accepts <- AcceptedSegments
  Route <- RoutesChecked
  Request <- RequestsChecked
  MaxRoutes = 3
  CacheSize = 2
  Nothing = Nothing
  Samples <- SamplesChecked
  NoHeader = "no header"
  CorsRequest <- CorsRequests
  Raw = {"a", "/a", "b", "c", "x", "bad"}
  Normal <- NormalOf
  NoKey = "no key"
  Word = {"w", "W", "v"}
  Folded <- FoldedOf
  Allowed = {"depends-on", "related"}
  Card = {"c1", "c2"}
  Module = "module"
  NoSignature = "none"
  Unresolved = Nothing
  TokenName <- NamesOf
  SuffixOf <- SuffixesOf
  KindOf <- KindsOf
  V4 = {"v4", "w4"}
  V6 = {"v6"}
  Placeholder = {"unknown"}
  NoName = "?"
  StackLimit = 9
  LengthOf <- PathLengths
  Dynamic = "a name made at run time"
SPECIFICATION FunctionsSpec
INVARIANTS
  AnswerIsBest
  CacheTransparent
  ReadsAreExact
  VerifiedIsIndexed
  IndexFollowsCode
  QueryIsRead
  ClientIsFirst
  AnswersAreUsable
  ArgumentIsChecked
  RoutesAreGuarded
  ModulesAreKept
  BuiltResolves
  SingletonsAreOne
CHECK_DEADLOCK FALSE
