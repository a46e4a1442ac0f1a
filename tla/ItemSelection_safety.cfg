SPECIFICATION Spec
CONSTANTS
  f = f
  g = g
  h = h
  used = used
  m = m
  t = t
  tm = tm
  i = i
  im = im
  n = n
  nm = nm
  point = point
  x = x
  y = y
  NoItem = NoItem
  Programs <- MCPrograms
  Builds <- MCBuilds
  ClauseLists <- MCClauseLists
INVARIANTS ContractsAttached FormulaFits CompanionsStayApart
  SelectionIsExact QuotesFollow NoSilentLoss ErrorsAreExplained
CHECK_DEADLOCK FALSE
