SPECIFICATION
  HeapSpec
CONSTANTS
  Variables = {1, 2, 3}
  Number = {1, 2}
  Segment = {1}
  Unknown = Unknown
  Original = Original
  Keys = {1, 2, 3, 4, 5, 6}
  Blank = Blank
  ItemsPerPage = 2
  Granularity = 2
  Absolutes = {1}
  Relatives = {2}
  NotKnown = NotKnown
  Merged = Merged
  PageWords = 2
  MaxWords = 4
  MaxOffset = 2
  MaxKept = 3
INVARIANTS
  TypeOK
  ListTypeOK
  EveryItemIsFound
  OutsideOnlyBeyond
PROPERTIES
  ImplementsValues
  MergedValuesAgree
  ImplementsList
  ImplementsStack
  ArrivalSettles
  OverrunOnlyAtPages
CHECK_DEADLOCK FALSE
