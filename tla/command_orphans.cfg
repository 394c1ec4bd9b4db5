CONSTANTS
  Task = {t1, t2, t3}
  Proc = {p1, p2, p3}
  NoProc = NoProc
  MaxConcurrency = 2
SPECIFICATION Spec
INVARIANT CommandsBounded
