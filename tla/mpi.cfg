SPECIFICATION Spec
CONSTANTS
  n1 = n1
  n2 = n2
  s1 = s1
  s2 = s2
  s3 = s3
  t1 = t1
  t2 = t2
  t3 = t3
  j = j
  None = None
  Monitor = Monitor
  Nodes = {n1, n2}
  Sessions = {s1, s2}
  Tasks = {j}
  MpiTasks = {j}
  NodeOf <- MCNodeOf
  Np <- MCNp
  Priority <- Even
  Suits <- AnyNode
  MaxRetries = 1
  MaxAttempts = 2
  MaxTasks = 2
  CompletedCap = 9
  CompletedDrain = 1
  Prompt = {j}
  Beats = {}
  MayFail <- OneFailure
  MayHang = {}
  MayStop = {}
  MayCrash = {n2}
  MayBreak = {s1}
  MayExpire = {}
  MayCancel = {}
INVARIANTS
  NoTaskLost
  JobsAccounted
PROPERTIES
  DoubledByStaleOnly
CHECK_DEADLOCK FALSE
