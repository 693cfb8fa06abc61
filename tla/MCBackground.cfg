SPECIFICATION Spec
CONSTANTS
  j1 = j1
  j2 = j2
  NoJob = NoJob
  Jobs <- TwoJobs
  MaxAsks <- AskTwiceOnce
  MayDie = {j2}
INVARIANTS
  QuestionsAccounted
  NoCircularWait
PROPERTIES
  QuestionsAnswered
CHECK_DEADLOCK FALSE
