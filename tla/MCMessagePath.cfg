\* Every type in every length up to the longest message and two more, and
\* the ones with a stock symbol with every pattern of blanks.
SPECIFICATION Spec
CHECK_DEADLOCK FALSE
CONSTANTS
  MaxLength = 48
  Patterns <- AllPatterns
INVARIANTS
  LoggedDecoded
  ShownAsCreated
  SymbolTrimmed
