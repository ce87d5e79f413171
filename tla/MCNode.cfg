SPECIFICATION AllSpec
INVARIANTS
  CallsReach
  
  CallServed
  Seamless
  
  MediaKept
  RowsKept
  PortsSound
