SPECIFICATION Spec
CONSTANTS
  NULL = NULL
  Word = 16
  Policies <- FarPolicies
INVARIANT RangesInnerFirst
