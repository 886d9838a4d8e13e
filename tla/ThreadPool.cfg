SPECIFICATION FairSpec
CONSTANTS
  MaxThreadNum = 3
  main = main
  j1 = j1
  j2 = j2
  j3 = j3
  Clients = {main}
  Owner = main
  Jobs = {j1, j2, j3}
  NoJob = NoJob
  NoOne = NoOne
INVARIANTS AssertionsHold NoUseAfterFree NoWorkerSleepsOnWork
PROPERTIES OneStragglerAtMost ImplementsJobPool SubmittedJobsRun DestroyReturns
