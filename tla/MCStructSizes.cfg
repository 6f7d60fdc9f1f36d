\* Messages of the lengths the unit test expects.
SPECIFICATION Spec
CHECK_DEADLOCK FALSE
CONSTANTS
  MaxLength = 48
  Patterns <- NoPatterns
INVARIANT TestedSizes
