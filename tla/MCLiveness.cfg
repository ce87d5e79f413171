SPECIFICATION AllSpec
CONSTANTS
  None = None
  Capacity = 2
  Batch = 2
  MaxRequests = 7
  MaxDumps = 1
INVARIANTS
  
  AnsweredInOrder
PROPERTIES
  Released
  SessionsEnd
  
  
  TablesCatchUp
  RecordingsEnd
  Settles
