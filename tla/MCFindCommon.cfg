SPECIFICATION Spec
CONSTANTS
  NoDatum = NoDatum
  Datum <- MCDatum
  Flavor <- MCFlavor
  NumPerms <- MCNumPerms
  Ast <- CommonAst
  Word = 16
INVARIANT PermValuesExact
