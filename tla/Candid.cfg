\* 19 messages, each read by 26 receivers.
CONSTANTS
  MaxDepth = 8
  Values <- MCValues
  Messages <- MCMessages
  Expected <- MCExpected
SPECIFICATION Spec
INVARIANTS
  TypeOK
  CompatibleIsRead
  IncompatibleIsRefused
  TableIsMinimal
