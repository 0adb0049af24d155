SPECIFICATION Spec
CONSTANTS
  n1 = n1
  n2 = n2
  s1 = s1
  s2 = s2
  s3 = s3
  t1 = t1
  t2 = t2
  t3 = t3
  j = j
  None = None
  Monitor = Monitor
  Nodes = {n1}
  Sessions = {s1}
  Tasks = {t1, t2, t3}
  MpiTasks = {}
  NodeOf <- MCNodeOf
  Np <- MCNp
  Priority <- Urgent
  Suits <- AnyNode
  MaxRetries = 1
  MaxAttempts = 2
  MaxTasks = 1
  CompletedCap = 1
  CompletedDrain = 1
  Prompt = {}
  Beats = {}
  MayFail <- T1FailsOnce
  MayHang = {}
  MayStop = {}
  MayCrash = {}
  MayBreak = {}
  MayExpire = {}
  MayCancel = {t2}
INVARIANTS
  TypeOK
  QueueOrdered
  CapacityKept
  NoGhost
PROPERTIES
  LifecycleSpec
CHECK_DEADLOCK FALSE
