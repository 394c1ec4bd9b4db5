CONSTANTS
  Task = {t1, t2, t3, t4}
  Proc = {p1, p2, p3}
  NoProc = NoProc
  MaxConcurrency = 2
SPECIFICATION Spec
INVARIANTS SlotsConserved ShellsBounded
PROPERTY EveryCommandSettles
