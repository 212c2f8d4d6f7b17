SPECIFICATION EditSpec

CONSTANTS
  MAX_NODES = 4
  MAX_STRINGS = 2
  MAX_HELD = 2
  MAX_ALLOC = 6
  Literals <- Strings
  Keys <- Key
  ConstKeys <- ConstKey
  Texts <- TwoTexts
  Leaves <- Objects
  LeafArrays <- Arrays

VIEW UpToAddresses

INVARIANTS
  OwnedOnce
  Linked
  CompareIsEquality
  DuplicateIsACopy

PROPERTIES
  ImplementsLists
