SPECIFICATION FairSpec
CONSTANTS
  n1 = n1
  n2 = n2
  s1 = s1
  s2 = s2
  s3 = s3
  t1 = t1
  t2 = t2
  t3 = t3
  j = j
  None = None
  Monitor = Monitor
  Nodes = {n1, n2}
  Sessions = {s1, s2}
  Tasks = {t1, j}
  MpiTasks = {j}
  NodeOf <- MCNodeOf
  Np <- MCNp
  Priority <- Even
  Suits <- T1OnN1
  MaxRetries = 1
  MaxAttempts = 2
  MaxTasks = 3
  CompletedCap = 9
  CompletedDrain = 1
  Prompt = {}
  Beats = {}
  MayFail <- T1FailsOnce
  MayHang = {}
  MayStop = {}
  MayCrash = {}
  MayBreak = {}
  MayExpire = {}
  MayCancel = {}
PROPERTIES
  SubmittedSucceeds
CHECK_DEADLOCK FALSE
