\* A vec and a nat, read as an opt and a nat.
CONSTANTS
  MaxDepth = 8
  Values <- MCValues
  Messages <- ShiftedMessages
  Expected <- ShiftedExpected
SPECIFICATION Spec
INVARIANT MismatchIsRefused
