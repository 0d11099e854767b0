SPECIFICATION MCFairSpec
CONSTANTS
  Worker = {w1, w2, w3}
  Task = {t1, t2, t3}
  NoTask = NoTask
INVARIANTS TypeOK CountersExact ExitLeavesNothing JoinSeesEverything
PROPERTIES Termination
