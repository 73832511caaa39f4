\* A tree, read with its own type.
CONSTANTS
  MaxDepth = 8
  Values <- MCValues
  Messages <- TreeMessages
  Expected <- TreeExpected
SPECIFICATION Spec
INVARIANT RecursiveIsRead
