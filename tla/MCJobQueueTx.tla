---------------------------- MODULE MCJobQueueTx ----------------------------
(***************************************************************************)
(* Instances of JobQueueTx for TLC: jobs j1 and j2 belong to submission s1 *)
(* for task t1, job j3 to submission s2 for task t2. Each configuration    *)
(* takes the jobs, submissions and tasks it needs.                         *)
(***************************************************************************)
EXTENDS JobQueueTx, TLC

CONSTANTS j3, s1, s2, t1, t2

MCSubmissionOf == [j \in Jobs |-> IF j = j3 THEN s2 ELSE s1]
MCBatch == [s \in Submissions |-> SetToSeq({j \in Jobs : MCSubmissionOf[j] = s})]
MCTaskOf == [s \in Submissions |-> IF s = s2 THEN t2 ELSE t1]

Symmetry ==
  Permutations(Requests) \cup Permutations(Workers) \cup Permutations(Keys)
=============================================================================
