INIT ContentInit
NEXT ContentNext
CONSTANTS
  Urls <- MCUrls
  Seed = "s"
  Sitemap = "sitemap.xml"
  LLMsTxt = "llms.txt"
  InScope <- MCInScope
  Links <- MCLinks
  Canonical <- MCCanonical
  Site <- MCSite
  Moving = FALSE
  MaxPages = 3
  LinkDepth = 2
  MaxRedirects = 1
  Slack = 4
  MaxCrawls = 2
  MaxChanges = 2
  MaxTokens = 5
  MinTokens = 3
  StubMaxTokens = 2
  ReferenceFamilyMin = 3
  ListingNames = {"Index"}
  LongNames = {"a"}
  AddressabilityMinChunks = 3
  GradeMinChunks = 3
  FlatMinChunks = 3
  FigureMaxTokens = 4
  BoilerplateMinChunks = 2
  Segments <- MCSegments
  None = "none"
  NoUrl = ""
  ChromeMinPages = 3
  IndexBoost = 2
  KeywordReferencePenalty = 6
  DefaultK = 2
  MaxK = 5
  ToolMaxK = 3
  PoolFactor = 2
  ContextTokenCap = 6
  MaxContextSide = 3
  MaxContextPages = 2
  MaxTopHeadings = 1
INVARIANT SectionsAreKeys
CHECK_DEADLOCK FALSE
