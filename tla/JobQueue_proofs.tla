--------------------------- MODULE JobQueue_proofs ---------------------------
(***************************************************************************)
(* The atomic queue: each job is in one execution table, no result is lost *)
(* or counted twice, and every failed job has left a failure. JobQueueTx   *)
(* implements JobQueue, so all of it holds for the transactions as well    *)
(* (JobQueueTxSteps_proofs).                                               *)
(*                                                                         *)
(* Counting rests on the execution tables being exclusive: a job completes *)
(* once because its claim is then gone, and a batch is submitted once, of  *)
(* jobs that no table knows yet because they do not exist.                 *)
(***************************************************************************)
EXTENDS JobQueue, SequenceLemmas

\* A job belongs to a submission that exists.
JobsSubmitted == \A j \in jobs : SubmissionOf[j] \in submissions

\* The inductive invariant. There are only finitely many jobs at a time, so a
\* key's claims can be released in some order.
QueueInv ==
  /\ TypeOK
  /\ Exclusive
  /\ JobsSubmitted
  /\ IsFiniteSet(jobs)

\* What is counted for a submission: those of its jobs that are in S.
Of(s, S) == {j \in S : SubmissionOf[j] = s}

\* The jobs of a submission are its batch, and so there are finitely many.
LEMMA JobsOfBatch ==
  ASSUME NEW s \in Submissions
  PROVE  /\ Batch[s] \in Seq(Jobs)
         /\ NoRepeats(Batch[s])
         /\ ToSet(Batch[s]) = Of(s, Jobs)
         /\ IsFiniteSet(ToSet(Batch[s]))
         /\ Len(Batch[s]) \in Nat
         /\ Cardinality(ToSet(Batch[s])) = Len(Batch[s])
<1>1. Batch[s] \in Seq(Jobs) /\ NoRepeats(Batch[s])
  BY JobQueueAssumption DEF WellBatched, NoRepeats
<1>2. ToSet(Batch[s]) \subseteq Jobs
  BY <1>1, ToSetIndices
<1>3. ToSet(Batch[s]) = Of(s, Jobs)
  BY <1>2, JobQueueAssumption DEF WellBatched, Of
<1> QED
  BY <1>1, <1>3, OrderingOfElements

LEMMA CountOf ==
  ASSUME NEW s \in Submissions, NEW S \in SUBSET Jobs
  PROVE  /\ IsFiniteSet(Of(s, S))
         /\ Cardinality(Of(s, S)) \in Nat
         /\ Cardinality(Of(s, S)) <= Len(Batch[s])
<1>1. Of(s, S) \subseteq ToSet(Batch[s])
  BY JobsOfBatch DEF Of
<1> QED
  BY <1>1, JobsOfBatch, FS_Subset, FS_CardinalityType
-----------------------------------------------------------------------------
(***************************************************************************)
(* One table for each job                                                  *)
(***************************************************************************)
LEMMA InitQueueInv == Init => QueueInv
<1> SUFFICES ASSUME Init PROVE QueueInv
  OBVIOUS
<1>1. ready \in Seq(Jobs)
  BY EmptySeq DEF Init
<1>2. 1..Len(ready) = {}
  <2>1. 1..Len(<<>>) = {} /\ ready = <<>>
    BY DEF Init
  <2> QED
    BY <2>1, Zenon
<1>3. ToSet(ready) = {}
  BY <1>1, <1>2, ToSetIndices
<1>4. TypeOK
  BY <1>1, JobQueueAssumption DEF Init, TypeOK, KeyStates
<1>5. Exclusive
  BY <1>2, <1>3 DEF Init, Exclusive
<1>6. JobsSubmitted
  BY DEF Init, JobsSubmitted
<1>7. IsFiniteSet(jobs)
  BY FS_EmptySet DEF Init
<1> QED
  BY <1>4, <1>5, <1>6, <1>7 DEF QueueInv

\* A submission's jobs are new: none exists, so none is in a table.
LEMMA EnqueueInv ==
  ASSUME QueueInv, NEW s \in Submissions, Enqueue(s)
  PROVE  /\ QueueInv'
         /\ ToSet(Batch[s]) \cap jobs = {}
<1> DEFINE B == ToSet(Batch[s])
<1>1. TypeOK /\ Exclusive /\ JobsSubmitted
  BY DEF QueueInv
<1>2. Batch[s] \in Seq(Jobs) /\ NoRepeats(Batch[s]) /\ B = Of(s, Jobs)
  BY JobsOfBatch
<1>3. B \subseteq Jobs /\ \A j \in B : SubmissionOf[j] = s
  BY <1>2 DEF Of
<1>4. /\ s \notin submissions
      /\ submissions' = submissions \cup {s}
      /\ jobs' = jobs \cup B
      /\ ready' = ready \o Batch[s]
      /\ UNCHANGED <<claim, failed, keys, rollouts, failures>>
  BY DEF Enqueue
<1> HIDE DEF B
<1>5. B \cap jobs = {}
  BY <1>1, <1>3, <1>4 DEF JobsSubmitted
<1>6. ready \in Seq(Jobs) /\ NoRepeats(ready) /\ ToSet(ready) \cap B = {}
  BY <1>1, <1>3, <1>5 DEF TypeOK, Exclusive, NoRepeats
<1>7. /\ ready' \in Seq(Jobs) /\ NoRepeats(ready')
      /\ ToSet(ready') = ToSet(ready) \cup B
  BY <1>2, <1>4, <1>6, ConcatSet DEF B
<1>8. TypeOK'
  BY <1>1, <1>3, <1>4, <1>7 DEF TypeOK
<1>9. Exclusive'
  BY <1>1, <1>3, <1>4, <1>5, <1>7 DEF Exclusive, NoRepeats, TypeOK
<1>10. JobsSubmitted'
  BY <1>1, <1>3, <1>4 DEF JobsSubmitted
<1>11. IsFiniteSet(jobs')
  <2>1. IsFiniteSet(jobs) /\ IsFiniteSet(B)
    BY JobsOfBatch DEF QueueInv, B
  <2> QED
    BY <1>4, <2>1, FS_Union
<1> QED
  BY <1>5, <1>8, <1>9, <1>10, <1>11 DEF QueueInv, B

LEMMA CreateKeyInv ==
  ASSUME QueueInv, NEW k \in Keys, CreateKey(k)
  PROVE  QueueInv'
<1>1. /\ keys' = [keys EXCEPT ![k] = "live"]
      /\ UNCHANGED <<submissions, jobs, ready, claim, failed, rollouts, failures>>
  BY DEF CreateKey
<1>2. TypeOK'
  BY <1>1 DEF QueueInv, TypeOK, KeyStates
<1>3. Exclusive'
  BY <1>1 DEF QueueInv, Exclusive
<1>4. JobsSubmitted'
  BY <1>1 DEF QueueInv, JobsSubmitted
<1> QED
  BY <1>1, <1>2, <1>3, <1>4 DEF QueueInv

LEMMA ClaimInv ==
  ASSUME QueueInv, NEW k \in Keys, NEW i \in 1..Len(ready), Claim(k, i)
  PROVE  QueueInv'
<1>1. TypeOK /\ Exclusive
  BY DEF QueueInv
<1>2. ready \in Seq(Jobs) /\ NoRepeats(ready)
  BY <1>1 DEF TypeOK, Exclusive, NoRepeats
<1>3. ready[i] \in Jobs /\ ready[i] \in ToSet(ready) /\ k # NoKey
  BY <1>2, ToSetIndices, JobQueueAssumption
<1>4. /\ claim' = [claim EXCEPT ![ready[i]] = k]
      /\ ready' = RemoveAt(ready, i)
      /\ UNCHANGED <<submissions, jobs, failed, keys, rollouts, failures>>
  BY DEF Claim
<1>5. /\ ready' \in Seq(Jobs) /\ NoRepeats(ready')
      /\ ToSet(ready') = ToSet(ready) \ {ready[i]}
  BY <1>2, <1>4, RemoveAtSet
<1>6. \A j \in Jobs : claim'[j] = IF j = ready[i] THEN k ELSE claim[j]
  BY <1>1, <1>4 DEF TypeOK
<1>7. TypeOK'
  BY <1>1, <1>3, <1>4, <1>5 DEF TypeOK
<1>8. Exclusive'
  BY <1>1, <1>3, <1>4, <1>5, <1>6 DEF Exclusive, NoRepeats
<1>9. JobsSubmitted'
  BY <1>4 DEF QueueInv, JobsSubmitted
<1> QED
  BY <1>4, <1>7, <1>8, <1>9 DEF QueueInv

LEMMA CompleteInv ==
  ASSUME QueueInv, NEW k \in Keys, NEW j \in Jobs, Complete(k, j)
  PROVE  QueueInv' /\ j \in jobs
<1>1. TypeOK /\ Exclusive
  BY DEF QueueInv
<1>2. /\ claim[j] = k /\ k # NoKey
      /\ claim' = [claim EXCEPT ![j] = NoKey]
      /\ jobs' = jobs \ {j}
      /\ rollouts' = [rollouts EXCEPT ![SubmissionOf[j]] = @ + 1]
      /\ UNCHANGED <<submissions, ready, failed, keys, failures>>
  BY JobQueueAssumption DEF Complete
<1>3. j \in jobs /\ j \notin ToSet(ready) /\ j \notin failed
  BY <1>1, <1>2 DEF Exclusive
<1>4. \A i \in Jobs : claim'[i] = IF i = j THEN NoKey ELSE claim[i]
  BY <1>1, <1>2 DEF TypeOK
<1>5. SubmissionOf[j] \in Submissions
  BY JobQueueAssumption DEF WellBatched
<1>6. TypeOK'
  BY <1>1, <1>2, <1>5 DEF TypeOK
<1>7. Exclusive'
  BY <1>1, <1>2, <1>3, <1>4 DEF Exclusive
<1>8. JobsSubmitted'
  BY <1>2 DEF QueueInv, JobsSubmitted
<1>9. IsFiniteSet(jobs')
  BY <1>2, FS_RemoveElement DEF QueueInv
<1> QED
  BY <1>3, <1>6, <1>7, <1>8, <1>9 DEF QueueInv

\* The failures of a set of claims: they were in no other table.
LEMMA FailInv ==
  ASSUME QueueInv, NEW S \in SUBSET Jobs, Fail(S)
  PROVE  QueueInv' /\ S \cap failed = {}
<1>1. TypeOK /\ Exclusive
  BY DEF QueueInv
<1>2. /\ \A j \in S : claim[j] # NoKey
      /\ claim' = [j \in Jobs |-> IF j \in S THEN NoKey ELSE claim[j]]
      /\ failed' = failed \cup S
      /\ failures' = WithFailures(S)
      /\ UNCHANGED <<submissions, jobs, ready, keys, rollouts>>
  BY DEF Fail
<1>3. S \cap failed = {} /\ S \cap ToSet(ready) = {} /\ S \subseteq jobs
  BY <1>1, <1>2 DEF Exclusive
<1>4. \A i \in Jobs : claim'[i] = IF i \in S THEN NoKey ELSE claim[i]
  BY <1>2
<1>5. failures' \in [Submissions -> 0..MaxFailures]
  <2>1. \A s \in Submissions :
          Capped(failures[s] + Cardinality(Of(s, S))) \in 0..MaxFailures
    <3> SUFFICES ASSUME NEW s \in Submissions
                 PROVE  Capped(failures[s] + Cardinality(Of(s, S))) \in 0..MaxFailures
      OBVIOUS
    <3>1. failures[s] \in Nat /\ Cardinality(Of(s, S)) \in Nat
      BY <1>1, CountOf, JobQueueAssumption DEF TypeOK
    <3>2. failures[s] + Cardinality(Of(s, S)) \in Nat
      BY <3>1
    <3> QED
      BY <3>2, JobQueueAssumption DEF Capped
  <2>2. WithFailures(S) =
          [s \in Submissions |-> Capped(failures[s] + Cardinality(Of(s, S)))]
    BY DEF WithFailures, Of
  <2> QED
    BY <1>2, <2>1, <2>2
<1>6. TypeOK'
  BY <1>1, <1>2, <1>5 DEF TypeOK
<1>7. Exclusive'
  BY <1>1, <1>2, <1>3, <1>4 DEF Exclusive
<1>8. JobsSubmitted'
  BY <1>2 DEF QueueInv, JobsSubmitted
<1> QED
  BY <1>2, <1>3, <1>6, <1>7, <1>8 DEF QueueInv

LEMMA RetryInv ==
  ASSUME QueueInv, NEW j \in Jobs, Retry(j)
  PROVE  QueueInv'
<1>1. TypeOK /\ Exclusive
  BY DEF QueueInv
<1>2. /\ j \in failed
      /\ failed' = failed \ {j}
      /\ ready' = Append(ready, j)
      /\ UNCHANGED <<submissions, jobs, claim, keys, rollouts, failures>>
  BY DEF Retry
<1>3. ready \in Seq(Jobs) /\ NoRepeats(ready) /\ j \notin ToSet(ready)
  BY <1>1, <1>2 DEF TypeOK, Exclusive, NoRepeats
<1>4. /\ ready' \in Seq(Jobs) /\ NoRepeats(ready')
      /\ ToSet(ready') = ToSet(ready) \cup {j}
  BY <1>2, <1>3, AppendSet
<1>5. TypeOK'
  BY <1>1, <1>2, <1>4 DEF TypeOK
<1>6. Exclusive'
  BY <1>1, <1>2, <1>4 DEF Exclusive, NoRepeats
<1>7. JobsSubmitted'
  BY <1>2 DEF QueueInv, JobsSubmitted
<1> QED
  BY <1>2, <1>5, <1>6, <1>7 DEF QueueInv

LEMMA DeleteKeyInv ==
  ASSUME QueueInv, NEW k \in Keys,
         NEW released \in SetToSeqs(ClaimedBy(k)), DeleteKey(k, released)
  PROVE  QueueInv'
<1> DEFINE S == ClaimedBy(k)
<1>1. TypeOK /\ Exclusive
  BY DEF QueueInv
<1>2. /\ ToSet(released) = S
      /\ \A m, n \in 1..Len(released) : released[m] = released[n] => m = n
      /\ ready' = ready \o released
      /\ claim' = [j \in Jobs |-> IF claim[j] = k THEN NoKey ELSE claim[j]]
      /\ keys' = [keys EXCEPT ![k] = "deleted"]
      /\ UNCHANGED <<submissions, jobs, failed, rollouts, failures>>
  BY DEF DeleteKey
<1>3. S \subseteq Jobs /\ \A j \in Jobs : j \in S <=> claim[j] = k
  BY DEF ClaimedBy
<1>4. S \subseteq jobs /\ S \cap ToSet(ready) = {} /\ S \cap failed = {} /\ k # NoKey
  BY <1>1, <1>3, JobQueueAssumption DEF Exclusive
<1>5. released \in Seq(Jobs)
  <2>1. Cardinality(S) \in Nat
    BY <1>4, FS_Subset, FS_CardinalityType DEF QueueInv
  <2>2. released \in [1..Cardinality(S) -> S]
    BY DEF SetToSeqs
  <2> HIDE DEF S
  <2>3. released \in [1..Cardinality(S) -> Jobs]
    BY <1>3, <2>2
  <2> QED
    BY <2>1, <2>3, SeqDef
<1> HIDE DEF S
<1>6. /\ ready' \in Seq(Jobs) /\ NoRepeats(ready')
      /\ ToSet(ready') = ToSet(ready) \cup S
  <2>1. ready \in Seq(Jobs) /\ NoRepeats(ready) /\ NoRepeats(released)
    BY <1>1, <1>2 DEF TypeOK, Exclusive, NoRepeats
  <2>2. ToSet(ready) \cap ToSet(released) = {}
    BY <1>2, <1>4
  <2> QED
    BY <1>2, <1>5, <2>1, <2>2, ConcatSet
<1>7. \A j \in Jobs : claim'[j] = IF j \in S THEN NoKey ELSE claim[j]
  BY <1>2, <1>3
<1>8. TypeOK'
  <2>1. claim' \in [Jobs -> Keys \cup {NoKey}]
    BY <1>1, <1>2 DEF TypeOK
  <2>2. keys' \in [Keys -> KeyStates]
    BY <1>1, <1>2 DEF TypeOK, KeyStates
  <2> QED
    BY <1>1, <1>2, <1>6, <2>1, <2>2 DEF TypeOK
<1>9. Exclusive'
  BY <1>1, <1>2, <1>3, <1>4, <1>6, <1>7 DEF Exclusive, NoRepeats
<1>10. JobsSubmitted'
  BY <1>2 DEF QueueInv, JobsSubmitted
<1> QED
  BY <1>2, <1>8, <1>9, <1>10 DEF QueueInv

LEMMA NextQueueInv ==
  ASSUME QueueInv, [Next]_vars
  PROVE  QueueInv'
<1>1. UNCHANGED vars => QueueInv'
  BY DEF vars, QueueInv, TypeOK, Exclusive, JobsSubmitted
<1> QED
  BY <1>1, EnqueueInv, CreateKeyInv, ClaimInv, CompleteInv, FailInv, RetryInv, DeleteKeyInv
     DEF Next

THEOREM QueueInvariant == Spec => []QueueInv
  BY InitQueueInv, NextQueueInv, PTL DEF Spec

\* A job is in one of ready, claimed and failed while it exists, and in none
\* of them afterwards, though no constraint of the database says so.
THEOREM OneTableForEachJob == Spec => []Exclusive
<1>1. QueueInv => Exclusive
  BY DEF QueueInv
<1> QED
  BY <1>1, QueueInvariant, PTL
-----------------------------------------------------------------------------
(***************************************************************************)
(* Counting results and failures                                           *)
(***************************************************************************)
\* The results of one submission.
Conserved(s) ==
  IF s \in submissions
  THEN rollouts[s] + Cardinality(Of(s, jobs)) = Len(Batch[s])
  ELSE rollouts[s] = 0 /\ \A j \in jobs : SubmissionOf[j] # s

LEMMA ConservedIsConserved ==
  /\ ResultsConserved <=> \A s \in Submissions : Conserved(s)
  /\ ResultsConserved' <=> \A s \in Submissions : Conserved(s)'
  BY DEF ResultsConserved, Conserved, Of

\* The steps that neither submit nor complete leave what is counted alone.
LEMMA SameResults ==
  ASSUME ResultsConserved, UNCHANGED <<submissions, jobs, rollouts>>
  PROVE  ResultsConserved'
  BY DEF ResultsConserved

\* All jobs of a new submission exist, and it has no rollouts.
LEMMA EnqueueConserves ==
  ASSUME QueueInv, ResultsConserved, NEW s \in Submissions, Enqueue(s)
  PROVE  ResultsConserved'
<1>1. /\ s \notin submissions
      /\ submissions' = submissions \cup {s}
      /\ jobs' = jobs \cup ToSet(Batch[s])
      /\ rollouts' = rollouts
  BY DEF Enqueue
<1>2. ToSet(Batch[s]) = Of(s, Jobs) /\ jobs \subseteq Jobs
  BY JobsOfBatch DEF QueueInv, TypeOK
<1>3. Conserved(s)'
  <2>1. rollouts[s] = 0 /\ \A j \in jobs : SubmissionOf[j] # s
    BY <1>1, ConservedIsConserved DEF Conserved
  <2>2. Of(s, jobs') = ToSet(Batch[s])
    BY <1>1, <1>2, <2>1 DEF Of
  <2>3. Cardinality(Of(s, jobs')) = Len(Batch[s]) /\ Len(Batch[s]) \in Nat
    BY <2>2, JobsOfBatch
  <2> QED
    BY <1>1, <2>1, <2>3 DEF Conserved
<1>4. ASSUME NEW u \in Submissions, u # s
      PROVE  Conserved(u)'
  <2>1. Conserved(u)
    BY ConservedIsConserved
  <2>2. Of(u, jobs') = Of(u, jobs)
    BY <1>1, <1>2, <1>4 DEF Of
  <2>3. \A j \in jobs' : SubmissionOf[j] = u => j \in jobs
    BY <1>1, <1>2, <1>4 DEF Of
  <2> QED
    BY <1>1, <1>4, <2>1, <2>2, <2>3 DEF Conserved
<1> QED
  BY <1>3, <1>4, ConservedIsConserved

\* A job that completes becomes one rollout of its submission.
LEMMA CompleteConserves ==
  ASSUME QueueInv, ResultsConserved, NEW k \in Keys, NEW j \in Jobs, Complete(k, j)
  PROVE  ResultsConserved'
<1> DEFINE s == SubmissionOf[j]
<1>1. /\ jobs' = jobs \ {j}
      /\ rollouts' = [rollouts EXCEPT ![s] = @ + 1]
      /\ submissions' = submissions
  BY DEF Complete
<1>2. s \in Submissions /\ rollouts \in [Submissions -> Nat] /\ jobs \subseteq Jobs
  BY JobQueueAssumption DEF WellBatched, QueueInv, TypeOK
<1>3. j \in jobs /\ s \in submissions
  BY CompleteInv DEF QueueInv, JobsSubmitted
<1>4. Conserved(s)'
  <2>1. rollouts[s] + Cardinality(Of(s, jobs)) = Len(Batch[s])
    BY <1>2, <1>3, ConservedIsConserved DEF Conserved
  <2>2. Of(s, jobs') = Of(s, jobs) \ {j} /\ j \in Of(s, jobs)
    BY <1>1, <1>3 DEF Of
  <2>3. /\ Cardinality(Of(s, jobs')) = Cardinality(Of(s, jobs)) - 1
        /\ Cardinality(Of(s, jobs)) \in Nat
    <3> HIDE DEF s
    <3>1. IsFiniteSet(Of(s, jobs)) /\ Cardinality(Of(s, jobs)) \in Nat
      BY <1>2, CountOf
    <3>2. Cardinality(Of(s, jobs) \ {j}) = Cardinality(Of(s, jobs)) - 1
      BY <2>2, <3>1, FS_RemoveElement
    <3> QED
      BY <2>2, <3>1, <3>2
  <2>4. rollouts'[s] = rollouts[s] + 1 /\ rollouts[s] \in Nat
    BY <1>1, <1>2
  <2> HIDE DEF s
  <2>5. rollouts'[s] + Cardinality(Of(s, jobs')) = Len(Batch[s])
    BY <2>1, <2>3, <2>4
  <2> QED
    BY <1>1, <1>3, <2>5 DEF Conserved
<1>5. ASSUME NEW u \in Submissions, u # s
      PROVE  Conserved(u)'
  <2>1. Conserved(u)
    BY ConservedIsConserved
  <2>2. Of(u, jobs') = Of(u, jobs)
    BY <1>1, <1>5 DEF Of
  <2>3. rollouts'[u] = rollouts[u] /\ jobs' \subseteq jobs
    BY <1>1, <1>2, <1>5
  <2> QED
    BY <1>1, <2>1, <2>2, <2>3 DEF Conserved
<1> HIDE DEF s
<1> QED
  BY <1>4, <1>5, ConservedIsConserved

LEMMA NextConserves ==
  ASSUME QueueInv, ResultsConserved, [Next]_vars
  PROVE  ResultsConserved'
<1>1. ASSUME NEW k \in Keys,
             \/ CreateKey(k)
             \/ \E i \in 1..Len(ready) : Claim(k, i)
             \/ \E released \in SetToSeqs(ClaimedBy(k)) : DeleteKey(k, released)
      PROVE  ResultsConserved'
  BY <1>1, SameResults DEF CreateKey, Claim, DeleteKey
<1>2. ASSUME \/ \E S \in SUBSET Jobs : Fail(S)
             \/ \E j \in Jobs : Retry(j)
      PROVE  ResultsConserved'
  BY <1>2, SameResults DEF Fail, Retry
<1>3. UNCHANGED vars => ResultsConserved'
  BY SameResults DEF vars
<1> QED
  BY <1>1, <1>2, <1>3, EnqueueConserves, CompleteConserves DEF Next

LEMMA InitConserves == Init => ResultsConserved
  BY DEF Init, ResultsConserved

\* Every job of a submission still exists or has given one rollout: a result
\* is neither lost nor recorded twice.
THEOREM NoResultIsLost == Spec => []ResultsConserved
  BY InitConserves, NextConserves, QueueInvariant, PTL DEF Spec

\* Adding to a capped count and capping the sum keeps the order.
LEMMA CappedSums ==
  ASSUME NEW a \in Nat, NEW b \in Nat, NEW c \in Nat, NEW f \in Nat, f >= Capped(a), c <= a + b
  PROVE  Capped(f + b) >= Capped(c)
  BY JobQueueAssumption DEF Capped

LEMMA NextRecords ==
  ASSUME QueueInv, FailuresRecorded, [Next]_vars
  PROVE  FailuresRecorded'
<1>0. /\ failed \subseteq Jobs
      /\ failures \in [Submissions -> 0..MaxFailures]
  BY DEF QueueInv, TypeOK
<1>1. ASSUME NEW s \in Submissions
      PROVE  failures[s] \in Nat /\ failures[s] >= Capped(Cardinality(Of(s, failed)))
  BY <1>0, JobQueueAssumption DEF FailuresRecorded, Of
<1>2. ASSUME \A s \in Submissions : failures'[s] >= Capped(Cardinality(Of(s, failed')))
      PROVE  FailuresRecorded'
  BY <1>2 DEF FailuresRecorded, Of
<1>3. ASSUME NEW S \in SUBSET Jobs, Fail(S)
      PROVE  FailuresRecorded'
  <2> SUFFICES ASSUME NEW s \in Submissions
               PROVE  failures'[s] >= Capped(Cardinality(Of(s, failed')))
    BY <1>2
  <2>1. failed' = failed \cup S /\ failures' = WithFailures(S)
    BY <1>3 DEF Fail
  <2>2. Of(s, failed') = Of(s, failed) \cup Of(s, S)
    BY <2>1 DEF Of
  <2>3. failures'[s] = Capped(failures[s] + Cardinality(Of(s, S)))
    BY <2>1 DEF WithFailures, Of
  <2>4. /\ Cardinality(Of(s, failed)) \in Nat
        /\ Cardinality(Of(s, S)) \in Nat
        /\ Cardinality(Of(s, failed')) \in Nat
        /\ Cardinality(Of(s, failed')) <=
             Cardinality(Of(s, failed)) + Cardinality(Of(s, S))
    <3>1. failed' \subseteq Jobs
      BY <1>0, <2>1
    <3>2. IsFiniteSet(Of(s, failed)) /\ IsFiniteSet(Of(s, S))
      BY <1>0, CountOf
    <3>3. /\ Cardinality(Of(s, failed)) \in Nat
          /\ Cardinality(Of(s, S)) \in Nat
          /\ Cardinality(Of(s, failed')) \in Nat
      BY <1>0, <3>1, CountOf
    <3>4. Cardinality(Of(s, failed) \cap Of(s, S)) \in Nat
      BY <3>2, FS_Intersection, FS_CardinalityType
    <3>5. Cardinality(Of(s, failed')) =
            Cardinality(Of(s, failed)) + Cardinality(Of(s, S))
              - Cardinality(Of(s, failed) \cap Of(s, S))
      BY <2>2, <3>2, FS_Union
    <3> QED
      BY <3>3, <3>4, <3>5
  <2> QED
    BY <1>1, <2>3, <2>4, CappedSums
<1>4. ASSUME NEW j \in Jobs, Retry(j)
      PROVE  FailuresRecorded'
  <2> SUFFICES ASSUME NEW s \in Submissions
               PROVE  failures'[s] >= Capped(Cardinality(Of(s, failed')))
    BY <1>2
  <2>1. failed' = failed \ {j} /\ failures' = failures
    BY <1>4 DEF Retry
  <2>2. Of(s, failed') \in SUBSET Of(s, failed)
    BY <2>1 DEF Of
  <2>3. /\ Cardinality(Of(s, failed)) \in Nat
        /\ Cardinality(Of(s, failed')) \in Nat
        /\ Cardinality(Of(s, failed')) <= Cardinality(Of(s, failed)) + 0
    <3>1. failed' \subseteq Jobs
      BY <1>0, <2>1
    <3>2. /\ IsFiniteSet(Of(s, failed))
          /\ Cardinality(Of(s, failed)) \in Nat /\ Cardinality(Of(s, failed')) \in Nat
      BY <1>0, <3>1, CountOf
    <3>3. Cardinality(Of(s, failed')) <= Cardinality(Of(s, failed))
      BY <2>2, <3>2, FS_Subset
    <3> QED
      BY <3>2, <3>3
  <2>4. Capped(failures[s] + 0) >= Capped(Cardinality(Of(s, failed')))
    BY <1>1, <2>3, CappedSums
  <2>5. failures[s] \in 0..MaxFailures
    BY <1>0
  <2>6. Capped(failures[s] + 0) = failures[s]
    BY <2>5, JobQueueAssumption DEF Capped
  <2> QED
    BY <2>1, <2>4, <2>6
<1>5. ASSUME UNCHANGED <<failed, failures>>
      PROVE  FailuresRecorded'
  BY <1>5 DEF FailuresRecorded
<1>6. ASSUME NEW k \in Keys,
             \/ CreateKey(k)
             \/ \E i \in 1..Len(ready) : Claim(k, i)
             \/ \E j \in Jobs : Complete(k, j)
             \/ \E released \in SetToSeqs(ClaimedBy(k)) : DeleteKey(k, released)
      PROVE  FailuresRecorded'
  BY <1>5, <1>6 DEF CreateKey, Claim, Complete, DeleteKey
<1>7. (\E s \in Submissions : Enqueue(s)) => FailuresRecorded'
  BY <1>5 DEF Enqueue
<1>8. UNCHANGED vars => FailuresRecorded'
  BY <1>5 DEF vars
<1> QED
  BY <1>3, <1>4, <1>6, <1>7, <1>8 DEF Next

LEMMA InitRecords == Init => FailuresRecorded
<1> SUFFICES ASSUME Init, NEW s \in Submissions
             PROVE  failures[s] >= Capped(Cardinality({j \in failed : SubmissionOf[j] = s}))
  BY DEF FailuresRecorded
<1>1. {j \in failed : SubmissionOf[j] = s} = {} /\ failures[s] = 0
  BY DEF Init
<1>2. Capped(0) = 0
  BY JobQueueAssumption DEF Capped
<1> QED
  BY <1>1, <1>2, FS_EmptySet

\* Every job that sits in failed_execution has left a JobFailure row.
THEOREM NoFailureIsForgotten == Spec => []FailuresRecorded
  BY InitRecords, NextRecords, QueueInvariant, PTL DEF Spec
=============================================================================
