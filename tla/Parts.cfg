SPECIFICATION PartsSpec
CONSTANTS
  j1 = j1
  j2 = j2
  j3 = j3
  s1 = s1
  s2 = s2
  t1 = t1
  t2 = t2
  Jobs = {j1, j2, j3}
  Submissions = {s1, s2}
  Tasks = {t1, t2}
  Keys = {k1, k2}
  NoKey = NoKey
  Batch <- MCBatch
  SubmissionOf <- MCSubmissionOf
  TaskOf <- MCTaskOf
  MaxFailures = 2
  Connections = 2
INVARIANTS Exclusive ResultsConserved OperatorsAreSeldomStuck
PROPERTIES FrozenViewsEnd
