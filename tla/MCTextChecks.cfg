SPECIFICATION Spec
CONSTANTS
  Fragments <- MCFragments
  Statements <- MCEndedStatements
  Members <- MCMembers
  Lines <- MCLines
  MaxPieces = 3
  Digits <- MCDigits
  WordBytes <- MCWordBytes
  SmallLetter <- MCSmallLetter
  Alphabet <- MCAlphabet
  MaxText = 5
  Needles <- MCNeedles
  Thresholds = {0, 1, 2}
  Phrases <- MCPhrases
  MaxPhrases = 4
  FactTrees <- MCFactTrees
  RuleLists <- MCRuleLists
  RuleItems <- MCRuleItems
  StoryItems <- MCStoryItems
  MaxItems = 3
  Globs <- MCGlobs
  PathNames <- MCPathNames
  Edits <- MCEdits
  Environments <- MCEnvironments
  Filters <- MCFilters
  MaxFilters = 2
  FilteredEdits <- MCFilteredEdits
  Groups <- MCGroups
  WiringFiles <- MCWiringFiles
  Bytes <- MCBytes
  Streams <- MCStreams
  MaxStream = 4
  MaxRequests = 7
  MaxLine = 2
  MaxRead = 4
INVARIANTS
  LiteralsAreBlanked
  DeclarationsAreFound
  ExtentsNest
  ComponentSymbolsAreFound
  FuzzyMatchesAreRight
  MatchesAreAnswered
  TrueNumbersAreVerified
  TruthIsReadAsWritten
  
  LinesAreJudgedAlone
  WiringIsReported
CHECK_DEADLOCK FALSE
