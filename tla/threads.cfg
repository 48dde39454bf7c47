SPECIFICATION Threads
CONSTANTS
  Worker = {w1, w2, w3}
  Owner = owner
  Task = {t1, t2, t3, t4}
  Nil = Nil
  MaxBufferSize = 5
  DataBound = 7
  MaxInt = 7
CHECK_DEADLOCK FALSE
INVARIANTS TasksInOnePlace NoneAbandoned WorkIsWanted SomebodyAwake
PROPERTIES EveryTaskRuns DestructorReturns Refinement BufferGoesOn TurnsGoOn
