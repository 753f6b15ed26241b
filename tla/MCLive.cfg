SPECIFICATION LiveSpec
CHECK_DEADLOCK FALSE
CONSTANTS
  Scenes = {"pool", "grpc", "http", "health", "nats", "watermill plain", "watermill pooled", "rabbit",
            "jetstream", "worker", "txn"}
  Submission = {s1, s2}
  Worker = {w1}
  Closer = {c1}
  QueueCapacity = 0
  StartCall = {b1}
  StopCall = {e1}
  Rpc = {r1}
  Request = {q1}
  Check = {h1}
  MaxFlips = 1
  plain = plain
  pooled = pooled
  msg = m1
  JetFaults = {"expire", "ack", "publish", "fetch"}
  reviewer = {w1, w2}
  MaxPush = 2
  WorkerFaults = {"github", "lost", "queue", "ledger", "head"}
  Client = {k1, k2}
  b1 = b1
  i1 = i1
  webhook = c1
  Nobody = Nobody
  Orphan = Orphan
PROPERTIES
  ServingSettles SubscriptionsEnd MessagesResolve ReviewSettles
