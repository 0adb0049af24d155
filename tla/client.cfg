SPECIFICATION FairClientSpec
CONSTANTS
  n1 = n1
  n2 = n2
  s1 = s1
  s2 = s2
  s3 = s3
  t1 = t1
  t2 = t2
  t3 = t3
  j = j
  None = None
  Monitor = Monitor
  Nodes = {n1, n2}
  Sessions = {s1, s2}
  Tasks = {t1}
  MpiTasks = {}
  NodeOf <- MCNodeOf
  Np <- MCNp
  Priority <- Even
  Suits <- AnyNode
  MaxRetries = 1
  MaxAttempts = 2
  MaxTasks = 2
  CompletedCap = 9
  CompletedDrain = 1
  Prompt = {}
  Beats = {n1}
  MayFail <- NoFailure
  MayHang = {}
  MayStop = {n1}
  MayCrash = {}
  MayBreak = {}
  MayExpire = {}
  MayCancel = {t1}
  Waited = {t1}
PROPERTIES
  WaitEnds
  LoadSettles
  DrainingIsFinal
CHECK_DEADLOCK FALSE
