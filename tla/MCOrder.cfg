SPECIFICATION Spec
CONSTANTS
  Item = {i1, i2, i3, i4}
  MaxLength = 4
  MaxLists = 3
  MaxItems = 8
SYMMETRY MCSymmetry
INVARIANT MergeKeepsOrders
INVARIANT MergeIsForced
INVARIANT LoopsComputeMergeAll
CHECK_DEADLOCK FALSE
