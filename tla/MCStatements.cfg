SPECIFICATION Spec
CONSTANTS
  NoDatum = NoDatum
  Datum <- MCDatum
  Flavor <- MCFlavor
  NumPerms <- MCNumPerms
  Ast <- MCAst
  Word = 16
INVARIANT TypeOK
INVARIANT RefsCurrent
INVARIANT LinksExact
INVARIANT OrdersExact
