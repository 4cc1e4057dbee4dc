SPECIFICATION DocumentedSpec
CONSTANTS
  Digits <- MCDigits
  WordBytes <- MCWordBytes
  SmallLetter <- MCSmallLetter
  Alphabet <- MCAlphabet
  MaxText = 1
  Needles <- MCNeedles
  Thresholds = {1}
  Phrases <- MCPhrases
  MaxPhrases = 1
  FactTrees <- MCFactTrees
  RuleLists <- MCRuleLists
  RuleItems <- MCRuleItems
  StoryItems <- MCStoryItems
  MaxItems = 1
  Globs <- MCGlobs
  PathNames <- MCPathNames
  Filters <- MCFilters
  MaxFilters = 1
  FilteredEdits <- MCFilteredEdits
INVARIANTS
  RulesAreAsDocumented
CHECK_DEADLOCK FALSE
