SPECIFICATION Spec
CONSTANTS
  NULL = NULL
  PERMS_PER_CLASS = 4
  Policies <- BinaryPolicies
INVARIANT AccessExact
INVARIANT NeverallowsHold
INVARIANT TransitionsExact
INVARIANT ConstraintsExact
INVARIANT RolesAndUsersExact
INVARIANT LabelsExact
