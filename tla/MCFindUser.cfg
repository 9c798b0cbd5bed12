SPECIFICATION Spec
CONSTANTS
  NULL = NULL
  Word = 16
  Policies <- UserPolicies
INVARIANT UserReported
