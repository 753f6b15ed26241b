SPECIFICATION RuntimeSpec
CHECK_DEADLOCK FALSE
CONSTANTS
  Scenes = {"pool", "grpc", "http", "health", "topo"}
  Submission = {s1, s2, s3}
  Worker = {w1, w2}
  Closer = {c1, c2}
  QueueCapacity = 1
  StartCall = {b1, b2}
  StopCall = {e1, e2}
  Rpc = {r1, r2}
  Request = {q1, q2}
  Check = {h1, h2}
  MaxFlips = 2
SYMMETRY Symmetry
INVARIANTS
  NoPanic PoolAccounts GrpcSound HttpSound HealthSound SortSound
PROPERTIES
  ImplementsBoundedPool
