SPECIFICATION Spec
CONSTANTS
  j3 = j3
  s1 = s1
  s2 = s2
  t1 = t1
  t2 = t2
  Jobs = {j1, j2}
  Submissions = {s1}
  Tasks = {t1}
  Keys = {k1}
  NoKey = NoKey
  NoJob = NoJob
  NoTask = NoTask
  Batch <- MCBatch
  SubmissionOf <- MCSubmissionOf
  TaskOf <- MCTaskOf
  MaxFailures = 2
  Requests = {r1, r2}
  Workers = {w1}
SYMMETRY Symmetry
INVARIANTS Inv CyclesNeedDeleteOrTwoTimeouts
CHECK_DEADLOCK FALSE
