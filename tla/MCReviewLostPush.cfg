SPECIFICATION Spec
CHECK_DEADLOCK FALSE
CONSTANTS
  Scenes = {"worker"}
  Worker = {w1, w2}
  MaxPush = 3
  WorkerFaults = {}
  Client = {k1, k2, k3}
  b1 = b1
  b2 = b2
  b3 = b3
  b4 = b4
  i1 = i1
  i2 = i2
  MaxAttempts = 2
  MaxErrors = 2
  Body = {b1, b2, b3, b4}
  Reviewed = {b1, b2, b3}
  Inst = {i1, i2}
  InstOf <- Installations
  Webhook = {c1, c2}
  Limit = 1
  Window = 2
  DedupTTL = 2
  MaxTime = 2
  IntakeFaults = {"store", "queue", "ghost", "crash", "answer", "overlap"}
  MaxFaults = 1
  Nobody = Nobody
  Orphan = Orphan
INVARIANTS
  FinalReview
