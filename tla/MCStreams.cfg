SPECIFICATION AllSpec
CONSTANTS
  None = None
  Endpoints = {e1, e2}
  Tracks = {t1, t2}
  FarTracks = {}
  Levels <- MCLevels
  PubSlots = 1
  Sizes = {1}
  SlotTimeout = 1
  FireInterval = 1
  TickInterval = 1
  MaxQueue = 1
SYMMETRY Symmetry
INVARIANTS
  
  ListenersSubscribed
  
  
  
