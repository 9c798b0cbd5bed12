SPECIFICATION Spec
CONSTANTS
  NoDatum = NoDatum
  Datum <- MCDatum
  Flavor <- MCFlavor
  NumPerms <- MCNumPerms
  Ast <- MCAst
  Word = 16
INVARIANT OptstackExact
INVARIANT NotDisabledNeedlessly
INVARIANT OptionalsExact
INVARIANT AllResolved
PROPERTY ChangeDestroys
PROPERTY Implements
