SPECIFICATION ListSpec
CONSTANTS
  HeapSize = 14
  NodeSize = 2
  HeaderSize = 1
  NULL = NULL
  ListBytes = 2
  NodeBytes = 2
  DataBytes <- BlockBytes
  MaxHeld = 2
INVARIANTS ListTypeOK FreeListInOrder ArenaIsTiled CountIsLength OneOwner
PROPERTY ListImplementsContract
