SPECIFICATION Spec
CONSTANTS
  NoDatum = NoDatum
  Datum <- MCDatum
  Flavor <- MCFlavor
  NumPerms <- MCNumPerms
  Ast <- OrderAst
  Word = 16
INVARIANT OrdersFormed
