SPECIFICATION Spec
CONSTANTS
  Rooms = {r1, r2}
  Locals = {l1}
  Remotes = {t1}
  Targets = {s1}
  None = None
  FirstJoin = r1
  Races = {"outside"}
  MaxTasks = 3
  MaxQueue = 2
INVARIANTS
  NoGhostTrack
CHECK_DEADLOCK FALSE
