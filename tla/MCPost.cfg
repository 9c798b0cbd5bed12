SPECIFICATION Spec
CONSTANTS
  NULL = NULL
  Word = 16
  Policies <- PostPolicies
INVARIANT ValuesExact
INVARIANT AttributesExact
INVARIANT RolesExact
INVARIANT PermsExact
INVARIANT CatsExact
INVARIANT SpecificFirst
