------------------------------ MODULE JobQueue ------------------------------
(***************************************************************************)
(* What the job queue of app/job_queue.py promises to its callers, as one  *)
(* atomic step per operation on the rows of the database: the jobs of a    *)
(* submission, the three execution tables (ready, claimed, failed) that    *)
(* say where each job is, the API keys that claim jobs, and the results.   *)
(*                                                                         *)
(* JobQueueTx models the same operations statement by statement, with row  *)
(* locks and aborts, and is checked to implement this module.              *)
(***************************************************************************)
EXTENDS Naturals, FiniteSets, SequencesExt

CONSTANTS Jobs,          \* ids of Job rows
          Submissions,   \* ids of Submission rows
          Tasks,         \* ids of Task rows
          Keys,          \* ids of ApiKey rows (never reused)
          NoKey,         \* "no claimed_execution row"
          Batch,         \* Batch[s]: the jobs of submission s in id order
          SubmissionOf,  \* Job.submission_id
          TaskOf,        \* Submission.task_id
          MaxFailures    \* JobFailure rows of a submission are counted up to this

\* The batches are the jobs of each submission, each job once.
WellBatched ==
  /\ SubmissionOf \in [Jobs -> Submissions]
  /\ TaskOf \in [Submissions -> Tasks]
  /\ Batch \in [Submissions -> Seq(Jobs)]
  /\ \A s \in Submissions :
       /\ \A m, n \in 1..Len(Batch[s]) : Batch[s][m] = Batch[s][n] => m = n
       /\ \A j \in Jobs : SubmissionOf[j] = s <=> j \in ToSet(Batch[s])

ASSUME JobQueueAssumption ==
  /\ WellBatched
  /\ NoKey \notin Keys
  /\ MaxFailures \in Nat
-----------------------------------------------------------------------------
VARIABLES submissions,  \* the Submission rows
          jobs,         \* the Job rows
          ready,        \* job ids of the ready_execution rows, in id order
          claim,        \* claim[j]: api_key_id of j's claimed_execution row
          failed,       \* job ids of the failed_execution rows
          keys,         \* keys[k]: has the ApiKey row been created, deleted?
          rollouts,     \* number of Rollout rows the queue made, by submission
          failures      \* number of JobFailure rows, by submission

vars == <<submissions, jobs, ready, claim, failed, keys, rollouts, failures>>

KeyStates == {"none", "live", "deleted"}

TypeOK ==
  /\ submissions \subseteq Submissions
  /\ jobs \subseteq Jobs
  /\ ready \in Seq(Jobs)
  /\ claim \in [Jobs -> Keys \cup {NoKey}]
  /\ failed \subseteq Jobs
  /\ keys \in [Keys -> KeyStates]
  /\ rollouts \in [Submissions -> Nat]
  /\ failures \in [Submissions -> 0..MaxFailures]

\* The claimed_execution rows of a key.
ClaimedBy(k) == {j \in Jobs : claim[j] = k}

\* A count of JobFailure rows, saturating at MaxFailures.
Capped(n) == IF n < MaxFailures THEN n ELSE MaxFailures

\* The counts after one more JobFailure row for each job in S.
WithFailures(S) ==
  [s \in Submissions |->
     Capped(failures[s] + Cardinality({j \in S : SubmissionOf[j] = s}))]
-----------------------------------------------------------------------------
Init ==
  /\ submissions = {}
  /\ jobs = {}
  /\ ready = <<>>
  /\ claim = [j \in Jobs |-> NoKey]
  /\ failed = {}
  /\ keys = [k \in Keys |-> "none"]
  /\ rollouts = [s \in Submissions |-> 0]
  /\ failures = [s \in Submissions |-> 0]

\* A user submits a policy: the submission, its jobs and a ready row for each.
Enqueue(s) ==
  /\ s \notin submissions
  /\ submissions' = submissions \cup {s}
  /\ jobs' = jobs \cup ToSet(Batch[s])
  /\ ready' = ready \o Batch[s]
  /\ UNCHANGED <<claim, failed, keys, rollouts, failures>>

CreateKey(k) ==
  /\ keys[k] = "none"
  /\ keys' = [keys EXCEPT ![k] = "live"]
  /\ UNCHANGED <<submissions, jobs, ready, claim, failed, rollouts, failures>>

\* A variant with a fault: the ready row is not deleted.
ClaimKeepsReady(k, i) ==
  /\ keys[k] = "live"
  /\ claim' = [claim EXCEPT ![ready[i]] = k]
  /\ UNCHANGED <<submissions, jobs, ready, failed, keys, rollouts, failures>>

\* A runner takes a ready job. Not always the oldest: the code skips the jobs
\* that another claim in flight has locked.
Claim(k, i) ==
  /\ keys[k] = "live"
  /\ ready' = RemoveAt(ready, i)
  /\ claim' = [claim EXCEPT ![ready[i]] = k]
  /\ UNCHANGED <<submissions, jobs, failed, keys, rollouts, failures>>

\* A variant with a fault: any runner completes any claimed job, or a failed one.
CompleteUnclaimed(k, j) ==
  /\ claim[j] = k \/ j \in failed
  /\ claim' = [claim EXCEPT ![j] = NoKey]
  /\ jobs' = jobs \ {j}
  /\ rollouts' = [rollouts EXCEPT ![SubmissionOf[j]] = @ + 1]
  /\ UNCHANGED <<submissions, ready, failed, keys, failures>>

\* The runner that claimed a job records its rollout; the job is gone.
Complete(k, j) ==
  /\ claim[j] = k
  /\ claim' = [claim EXCEPT ![j] = NoKey]
  /\ jobs' = jobs \ {j}
  /\ rollouts' = [rollouts EXCEPT ![SubmissionOf[j]] = @ + 1]
  /\ UNCHANGED <<submissions, ready, failed, keys, failures>>

\* Claims end as failures together: one job when its runner reports it, all
\* the jobs of one pass of the timeout worker.
Fail(S) ==
  /\ \A j \in S : claim[j] # NoKey
  /\ claim' = [j \in Jobs |-> IF j \in S THEN NoKey ELSE claim[j]]
  /\ failed' = failed \cup S
  /\ failures' = WithFailures(S)
  /\ UNCHANGED <<submissions, jobs, ready, keys, rollouts>>

\* The owner of the submission sends a failed job back to the queue.
Retry(j) ==
  /\ j \in failed
  /\ failed' = failed \ {j}
  /\ ready' = Append(ready, j)
  /\ UNCHANGED <<submissions, jobs, claim, keys, rollouts, failures>>

\* Deleting a key sends the jobs it has claimed back to the queue, in some
\* order: the code selects them without ORDER BY.
DeleteKey(k, released) ==
  /\ keys[k] = "live"
  /\ ToSet(released) = ClaimedBy(k)
  /\ \A m, n \in 1..Len(released) : released[m] = released[n] => m = n
  /\ ready' = ready \o released
  /\ claim' = [j \in Jobs |-> IF claim[j] = k THEN NoKey ELSE claim[j]]
  /\ keys' = [keys EXCEPT ![k] = "deleted"]
  /\ UNCHANGED <<submissions, jobs, failed, rollouts, failures>>

Next ==
  \/ \E s \in Submissions : Enqueue(s)
  \/ \E k \in Keys :
       \/ CreateKey(k)
       \/ \E i \in 1..Len(ready) : Claim(k, i)
       \/ \E j \in Jobs : Complete(k, j)
       \/ \E released \in SetToSeqs(ClaimedBy(k)) : DeleteKey(k, released)
  \/ \E S \in SUBSET Jobs : Fail(S)
  \/ \E j \in Jobs : Retry(j)

Spec == Init /\ [][Next]_vars
-----------------------------------------------------------------------------
(***************************************************************************)
(* Properties                                                              *)
(***************************************************************************)
\* A job is in exactly one of the three execution tables, and only while it
\* exists: what app/job_queue.py relies on and no database constraint says.
Exclusive ==
  /\ \A m, n \in 1..Len(ready) : ready[m] = ready[n] => m = n
  /\ \A j \in Jobs :
       /\ j \in jobs => \/ j \in ToSet(ready)
                        \/ claim[j] # NoKey
                        \/ j \in failed
       /\ j \notin jobs => /\ j \notin ToSet(ready)
                           /\ claim[j] = NoKey
                           /\ j \notin failed
       /\ ~(j \in ToSet(ready) /\ claim[j] # NoKey)
       /\ ~(j \in ToSet(ready) /\ j \in failed)
       /\ ~(claim[j] # NoKey /\ j \in failed)

\* A claim always belongs to a key that can still complete or fail it.
ClaimsHaveLiveKeys ==
  \A j \in Jobs : claim[j] # NoKey => keys[claim[j]] = "live"

\* No result is lost or counted twice: every job of a submission either still
\* exists or has given exactly one rollout.
ResultsConserved ==
  \A s \in Submissions :
    IF s \in submissions
    THEN rollouts[s] + Cardinality({j \in jobs : SubmissionOf[j] = s})
           = Len(Batch[s])
    ELSE rollouts[s] = 0 /\ \A j \in jobs : SubmissionOf[j] # s

\* Every job that sits in failed_execution has left a JobFailure row.
FailuresRecorded ==
  \A s \in Submissions :
    failures[s] >= Capped(Cardinality({j \in failed : SubmissionOf[j] = s}))
=============================================================================
