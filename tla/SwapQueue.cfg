CONSTANTS
  Size = 3
  Item = {blank, frame}
  Blank = blank
SPECIFICATION Spec
INVARIANTS
  TypeOK
  StorageNotShared
PROPERTY FifoSpec
