SPECIFICATION Spec
CONSTANTS
  n1 = n1
  n2 = n2
  s1 = s1
  s2 = s2
  s3 = s3
  t1 = t1
  t2 = t2
  t3 = t3
  j = j
  None = None
  Monitor = Monitor
  Nodes = {n1}
  Sessions = {s1, s3}
  Tasks = {t1}
  MpiTasks = {}
  NodeOf <- MCNodeOf
  Np <- MCNp
  Priority <- Even
  Suits <- AnyNode
  MaxRetries = 2
  MaxAttempts = 2
  MaxTasks = 2
  CompletedCap = 9
  CompletedDrain = 1
  Prompt = {}
  Beats = {}
  MayFail <- NoFailure
  MayHang = {}
  MayStop = {}
  MayCrash = {}
  MayBreak = {s1}
  MayExpire = {n1}
  MayCancel = {}
INVARIANTS
  NoTaskLost
PROPERTIES
  DoubledByStaleOnly
CHECK_DEADLOCK FALSE
