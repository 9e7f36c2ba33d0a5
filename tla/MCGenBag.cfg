CONSTANTS
  States = {a, b}
  MaxDepth = 4
  MaxSpare = 1
SPECIFICATION Spec
INVARIANTS TypeOK NoSharing NothingHidden
PROPERTIES BagIsStack
