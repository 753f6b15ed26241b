SPECIFICATION AgentSpec
CHECK_DEADLOCK FALSE
CONSTANTS
  Scenes = {}
  PatchFaults = {}
  AgentScenes = {"review"}
  OpenEnded = TRUE
INVARIANTS
  AddedLinesComplete
