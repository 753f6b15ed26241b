SPECIFICATION AgentSpec
CHECK_DEADLOCK FALSE
CONSTANTS
  Scenes = {"patch", "edits"}
  PatchFaults = {"read", "write", "remove"}
  AgentScenes = {"verify", "review"}
  OpenEnded = FALSE
INVARIANTS
  UndoRestores VerifySound  ScanSound 
PROPERTIES
  RemovesOnlyItsOwn
