CONSTANTS
  Count <- MCCount
  ItemSize <- MCItemSize
  Value = {0, 1}
SPECIFICATION Spec
INVARIANTS
  KernelReadsHost
  RefillFits
