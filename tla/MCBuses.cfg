SPECIFICATION Spec
CHECK_DEADLOCK FALSE
CONSTANTS
  Scenes = {"nats", "watermill plain", "watermill pooled", "rabbit", "jetstream"}
  plain = plain
  pooled = pooled
  Sub = {plain, pooled}
  Pooled = {pooled}
  Msg = {m1, m2}
  Closer = {c1, c2}
  Buffer = 1
  Workers = 1
  QueueCapacity = 1
  RabbitSub = {plain, pooled}
  RabbitMsg = {m1}
  MaxErrors = 1
  MaxDeadlines = 1
  N = 2
  Loop = {plain, pooled}
  Want <- Wants
  BatchSize = 2
  MaxDeliver = 2
  Republish = TRUE
  MaxBackoff = 2
  Faults = {"expire", "ack", "publish", "fetch", "call", "delete", "crash"}
  MaxFaults = 1
INVARIANTS
  LocalBusesDeliver RabbitSound 
PROPERTIES
  LocalBusesKeepContract RabbitKeepsContract JetKeepsContract
