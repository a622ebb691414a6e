SPECIFICATION Spec
CONSTANTS
  LogSub = {l1}
  StatusSub = {s1}
  StreamSub = {t1}
  StreamLimit = 2
  LogRingLimit = 2
  Slack = 1
  Wire = 1
  Budgets <- MCBudgets
INVARIANT LogsInOrder
INVARIANT StatusReaches
PROPERTY DoneIsForgotten
CHECK_DEADLOCK FALSE
