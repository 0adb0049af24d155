SPECIFICATION ClientSpec
CONSTANTS
  n1 = n1
  n2 = n2
  s1 = s1
  s2 = s2
  s3 = s3
  t1 = t1
  t2 = t2
  t3 = t3
  j = j
  None = None
  Monitor = Monitor
  Nodes = {n1, n2}
  Sessions = {s1, s2}
  Tasks = {t1, t2}
  MpiTasks = {}
  NodeOf <- MCNodeOf
  Np <- MCNp
  Priority <- Even
  Suits <- T2OnN2
  MaxRetries = 1
  MaxAttempts = 2
  MaxTasks = 2
  CompletedCap = 9
  CompletedDrain = 1
  Prompt = {t1}
  Beats = {}
  MayFail <- NoFailure
  MayHang = {}
  MayStop = {n1}
  MayCrash = {}
  MayBreak = {s1}
  MayExpire = {}
  MayCancel = {}
  Waited = {t1}
INVARIANTS
  NoTaskLost
  SnapshotsFresh
  SinglePlace
PROPERTIES
  ToldIsFinal
CHECK_DEADLOCK FALSE
