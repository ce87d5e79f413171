SPECIFICATION AllSpec
CONSTANTS
  Nodes = {n1}
  MaxAsk = 2
  MaxInflight = 1
  LruCap = 1
  ResendAfter = 1
  MaxTimes = 3
  MaxFaults = 2
INVARIANTS
  ResendArmed
  AckedWasTaken
  
  
  ListsTrue
  
PROPERTIES
  TakenOnce
  
