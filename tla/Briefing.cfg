SPECIFICATION BSpec
CONSTANTS
  a1 = a1
  p1 = p1
  AlertIds = {a1}
  Patterns = {p1}
  Levels = {1, 2}
  MaxSuppressions = 2
  SuppressionRules <- MCSuppressionRules
  PatternRules <- MCPatternRules
  Hours = 3
  NoEntry = NoEntry
PROPERTY HiddenForAReason
PROPERTY NoiseIsFiltered
