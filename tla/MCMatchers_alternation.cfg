CONSTANTS
  Ascending <- Alphabet
  WordBits = 3
  Patterns <- Overlapping
  Candidates <- GlobCandidates
  Dialects <- GlobDialects
  Earlier <- Before
  StalledSkips = 2
  MaxGeneration = 2
  Lines <- RuleLines
  Chains <- RuleChains
  Entries <- RuleEntries
  GroupPatterns <- Grouped
  GroupCandidates <- GroupedNames
  GroupDialects <- GroupedDialects
  Sources <- BraceSources
  Limits <- BraceBounds
  WalkCandidates <- Offered
SPECIFICATION GlobSpec
INVARIANT EnginesAgree
