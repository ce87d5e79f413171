SPECIFICATION Spec
CONSTANTS
  None = None
  Endpoints = {e1, e2}
  Tracks = {t1}
  FarTracks = {}
  Levels = {None, 0}
  PubSlots = 1
  Sizes = {1, 2}
  SlotTimeout = 1
  FireInterval = 1
  TickInterval = 1
  MaxQueue = 1
INVARIANTS
  ListenersSubscribed
