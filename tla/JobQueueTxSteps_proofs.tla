----------------------- MODULE JobQueueTxSteps_proofs ------------------------
(***************************************************************************)
(* What the steps of JobQueueTx do to the queue, from the invariant Inv:   *)
(* every commit is a step of JobQueue, results and failures are counted,   *)
(* and claims end by their key. A second invariant, StepInv, says which    *)
(* locks each operation has at which statement and that a deletion finds   *)
(* all claims of its key; with it, what raises and what deadlocks.         *)
(***************************************************************************)
EXTENDS JobQueueTx_proofs

Results == {"complete", "fail", "retry", "timeout"}

\* Which locks a claim and the operations on a job's row have. All but a
\* timeout have none until they have found the job, and whoever has locked a
\* claimed row has locked the job before.
LocksFormed(t) ==
  /\ t.op = "none" => t.held = {}
  /\ t.op = "claim" =>
       \A l \in t.held : \/ l = ForUpdate("ready", t.job)
                         \/ l = KeyShare("api_key", t.key)
                         \/ l = KeyShare("job", t.job) /\ t.pc = "commit"
  /\ t.pc \in {"select ready", "lock job"} /\ t.op # "timeout" => t.held = {}
  /\ t.op \in Results =>
       \A l \in t.held : \E j \in Jobs :
         /\ l \in {ForUpdate("job", j), ForUpdate("claimed", j)}
         /\ ForUpdate("job", j) \in t.held

\* The deletion of a key has found each of its claims: no new one can commit
\* while the key is locked.
FindsAll(t) ==
  t.op = "delete" /\ t.pc \in {"next row", "lock released", "requeue"} =>
    /\ t.pc = "requeue" => t.todo = {}
    /\ \A j \in Jobs : claim[j] = t.key =>
         \/ \E n \in 1..Len(t.got) : t.got[n] = j
         \/ <<j, t.key>> \in t.todo
         \/ t.pc = "lock released" /\ t.job = j

RaisesRightly(t) == t.pc = "raise" => t.op \in {"claim", "retry"}

Regular(t) == LocksFormed(t) /\ FindsAll(t) /\ RaisesRightly(t)

StepInv == \A p \in Procs : Regular(tx[p])
-----------------------------------------------------------------------------
(***************************************************************************)
(* What each commit finds, and the step of JobQueue that it is             *)
(***************************************************************************)
\* The instance JQ has its own copies of the operators of the libraries.
LEMMA JQSequences ==
  ASSUME NEW s, NEW i
  PROVE  JQ!RemoveAt(s, i) = RemoveAt(s, i)
  BY Zenon DEF JQ!RemoveAt, RemoveAt

LEMMA ClaimCommits ==
  ASSUME Inv, NEW p \in Procs, CommitClaim(p)
  PROVE  /\ tx'[p] = Idle
         /\ tx[p].job \in Jobs /\ tx[p].key \in Keys
         /\ keys[tx[p].key] = "live" /\ claim[tx[p].job] = NoKey
         /\ KeyShare("api_key", tx[p].key) \in tx[p].held
         /\ claim' = [claim EXCEPT ![tx[p].job] = tx[p].key]
         /\ \E i \in 1..Len(ready) : JQ!Claim(tx[p].key, i)
<1>1. TypeOK /\ WellFormed(tx[p]) /\ ClaimHolds(tx[p])
  BY InvOf
<1>2. tx[p].op = "claim" /\ tx[p].pc = "commit" /\ End(p)
  BY DEF CommitClaim, At
<1>3. /\ tx[p].job \in Jobs /\ tx[p].key \in Keys
      /\ keys[tx[p].key] = "live" /\ claim[tx[p].job] = NoKey
      /\ KeyShare("api_key", tx[p].key) \in tx[p].held
  BY <1>1, <1>2 DEF WellFormed, ClaimHolds
<1>4. PICK i \in 1..Len(ready) : ready[i] = tx[p].job /\ ready' = RemoveAt(ready, i)
  BY DEF CommitClaim
<1>5. /\ claim' = [claim EXCEPT ![tx[p].job] = tx[p].key]
      /\ UNCHANGED <<submissions, jobs, failed, keys, rollouts, failures>>
  BY DEF CommitClaim
<1>6. JQ!Claim(tx[p].key, i)
  BY <1>3, <1>4, <1>5, JQSequences DEF JQ!Claim
<1>7. tx'[p] = Idle
  BY <1>1, <1>2, EndLocks
<1> QED
  BY <1>3, <1>5, <1>6, <1>7

\* What complete and fail have got is the job of their claim.
LEMMA GotIsClaimed ==
  ASSUME Inv, NEW p \in Procs, tx[p].pc = "commit", tx[p].op \in {"complete", "fail"}
  PROVE  /\ tx[p].job \in Jobs /\ tx[p].key \in Keys
         /\ tx[p].got = <<tx[p].job>> /\ ToSet(tx[p].got) = {tx[p].job}
         /\ claim[tx[p].job] = tx[p].key /\ claim[tx[p].job] # NoKey
<1>1. WellFormed(tx[p]) /\ ResultHolds(tx[p])
  BY InvOf
<1>2. tx[p].job \in Jobs /\ tx[p].key \in Keys
  BY <1>1 DEF WellFormed
<1>3. tx[p].got = <<tx[p].job>> /\ claim[tx[p].job] = tx[p].key
  BY <1>1 DEF ResultHolds
<1>4. ToSet(<<tx[p].job>>) = {tx[p].job}
  <2> DEFINE j == tx[p].job
  <2>1. <<j>> \in Seq(Jobs) /\ Len(<<j>>) = 1 /\ <<j>>[1] = j
    BY <1>2
  <2> HIDE DEF j
  <2>2. ToSet(<<j>>) = {<<j>>[n] : n \in 1..1}
    BY <2>1, ToSetIndices
  <2> QED
    BY <2>1, <2>2 DEF j
<1> QED
  BY <1>2, <1>3, <1>4, JobQueueTxAssumption

\* A runner's result never fails: nothing else refers to a claimed job.
LEMMA CompleteCommits ==
  ASSUME Inv, NEW p \in Procs, CommitComplete(p)
  PROVE  /\ tx'[p] = Idle
         /\ tx[p].op = "complete" /\ tx[p].pc = "commit"
         /\ claim' = [claim EXCEPT ![tx[p].job] = NoKey]
         /\ JQ!Complete(tx[p].key, tx[p].job)
<1>1. TypeOK /\ OneTable
  BY InvOf
<1>2. tx[p].op = "complete" /\ tx[p].pc = "commit"
  BY DEF CommitComplete, At
<1>3. tx[p].job \in Jobs /\ claim[tx[p].job] = tx[p].key /\ claim[tx[p].job] # NoKey
  BY <1>2, GotIsClaimed
<1>4. tx[p].job \notin ToSet(ready) \cup failed
  BY <1>1, <1>3 DEF OneTable
<1>5. /\ claim' = [claim EXCEPT ![tx[p].job] = NoKey]
      /\ jobs' = jobs \ {tx[p].job}
      /\ rollouts' = [rollouts EXCEPT ![SubmissionOf[tx[p].job]] = @ + 1]
      /\ End(p)
      /\ UNCHANGED <<submissions, ready, failed, keys, failures>>
  BY <1>4 DEF CommitComplete
<1>6. JQ!Complete(tx[p].key, tx[p].job)
  BY <1>3, <1>5 DEF JQ!Complete
<1>7. tx'[p] = Idle
  BY <1>1, <1>5, EndLocks
<1> QED
  BY <1>2, <1>5, <1>6, <1>7

\* Neither does a failure: no claimed job has failed.
LEMMA FailCommits ==
  ASSUME Inv, NEW p \in Procs, CommitFail(p)
  PROVE  /\ tx'[p] = Idle
         /\ \/ tx[p].op = "fail" /\ tx[p].pc = "commit"
            \/ tx[p].op = "timeout"
         /\ ToSet(tx[p].got) \subseteq Jobs
         /\ \A j \in ToSet(tx[p].got) : claim[j] # NoKey
         /\ claim' = [j \in Jobs |-> IF j \in ToSet(tx[p].got) THEN NoKey ELSE claim[j]]
         /\ JQ!Fail(ToSet(tx[p].got))
<1> DEFINE S == ToSet(tx[p].got)
<1>1. TypeOK /\ OneTable /\ ResultHolds(tx[p]) /\ tx[p].got \in Seq(Jobs)
  BY InvOf DEF Transactions
<1>2. (tx[p].op = "fail" /\ tx[p].pc = "commit") \/ tx[p].op = "timeout"
  BY DEF CommitFail, At
<1>3. S \subseteq Jobs /\ S = {tx[p].got[n] : n \in 1..Len(tx[p].got)}
  BY <1>1, ToSetIndices
<1>4. \A n \in 1..Len(tx[p].got) : claim[tx[p].got[n]] # NoKey
  BY <1>1, <1>2 DEF ResultHolds
<1>5. \A j \in S : claim[j] # NoKey
  BY <1>3, <1>4
<1>6. S \cap failed = {}
  BY <1>1, <1>3, <1>5 DEF OneTable
<1>7. /\ claim' = [j \in Jobs |-> IF j \in S THEN NoKey ELSE claim[j]]
      /\ failed' = failed \cup S
      /\ failures' = JQ!WithFailures(S)
      /\ End(p)
      /\ UNCHANGED <<submissions, jobs, ready, keys, rollouts>>
  BY <1>6 DEF CommitFail
<1> HIDE DEF S
<1>8. JQ!Fail(S)
  BY <1>5, <1>7 DEF JQ!Fail
<1>9. tx'[p] = Idle
  BY <1>1, <1>7, EndLocks
<1> QED
  BY <1>2, <1>3, <1>5, <1>7, <1>8, <1>9 DEF S

\* A retry that has found its job failed sends it back.
LEMMA RetryCommits ==
  ASSUME Inv, NEW p \in Procs, CommitRetry(p)
  PROVE  /\ tx'[p] = Idle
         /\ tx[p].job \in Jobs
         /\ claim' = claim
         /\ JQ!Retry(tx[p].job)
<1>1. TypeOK /\ OneTable /\ ResultHolds(tx[p]) /\ WellFormed(tx[p])
  BY InvOf
<1>2. tx[p].op = "retry" /\ tx[p].pc = "commit"
  BY DEF CommitRetry, At
<1>3. tx[p].job \in Jobs /\ tx[p].job \in failed
  BY <1>1, <1>2 DEF WellFormed, ResultHolds
<1>4. tx[p].job \notin ToSet(ready)
  BY <1>1, <1>3 DEF OneTable
<1>5. /\ failed' = failed \ {tx[p].job}
      /\ ready' = Append(ready, tx[p].job)
      /\ End(p)
      /\ UNCHANGED <<submissions, jobs, claim, keys, rollouts, failures>>
  BY <1>4 DEF CommitRetry
<1>6. JQ!Retry(tx[p].job)
  BY <1>3, <1>5 DEF JQ!Retry
<1>7. tx'[p] = Idle
  BY <1>1, <1>5, EndLocks
<1> QED
  BY <1>3, <1>5, <1>6, <1>7

\* The deletion of a key that has found all its claims releases them, in the
\* order in which it has got them.
LEMMA DeleteCommits ==
  ASSUME Inv, NEW p \in Procs, FindsAll(tx[p]), CommitDelete(p)
  PROVE  /\ tx'[p] = Idle
         /\ tx[p].key \in Keys /\ tx[p].got \in Seq(Jobs)
         /\ ToSet(tx[p].got) = JQ!ClaimedBy(tx[p].key)
         /\ NoRepeats(tx[p].got)
         /\ claim' = [j \in Jobs |-> IF j \in ToSet(tx[p].got) THEN NoKey ELSE claim[j]]
         /\ JQ!DeleteKey(tx[p].key, tx[p].got)
<1> DEFINE got == tx[p].got
           S == ToSet(got)
           k == tx[p].key
<1>1. /\ TypeOK /\ OneTable /\ DeleteHolds(tx[p]) /\ WellFormed(tx[p])
      /\ got \in Seq(Jobs)
  BY InvOf DEF Transactions
<1>2. tx[p].op = "delete" /\ tx[p].pc = "requeue"
  BY <1>1 DEF CommitDelete, At, WellFormed
<1>3. k \in Keys /\ keys[k] = "live" /\ NoRepeats(got)
  BY <1>1, <1>2 DEF WellFormed, DeleteHolds, NoRepeats
<1>4. S \subseteq Jobs /\ S = {got[n] : n \in 1..Len(got)}
  BY <1>1, ToSetIndices
<1>5. \A j \in Jobs : claim[j] = k <=> j \in S
  <2>1. \A n \in 1..Len(got) : claim[got[n]] = k
    BY <1>1, <1>2 DEF DeleteHolds
  <2>2. \A j \in Jobs : claim[j] = k => \E n \in 1..Len(got) : got[n] = j
    BY <1>2 DEF FindsAll
  <2> HIDE DEF got, k
  <2> QED
    BY <1>4, <2>1, <2>2
<1>6. S = JQ!ClaimedBy(k)
  BY <1>4, <1>5 DEF JQ!ClaimedBy
<1>7. S \cap ToSet(ready) = {} /\ ~ \E j \in Jobs \ S : claim[j] = k
  BY <1>1, <1>3, <1>4, <1>5, JobQueueTxAssumption DEF OneTable
<1>8. /\ ready' = ready \o got
      /\ claim' = [j \in Jobs |-> IF j \in S THEN NoKey ELSE claim[j]]
      /\ keys' = [keys EXCEPT ![k] = "deleted"]
      /\ End(p)
      /\ UNCHANGED <<submissions, jobs, failed, rollouts, failures>>
  BY <1>7 DEF CommitDelete
<1>9. claim' = [j \in Jobs |-> IF claim[j] = k THEN NoKey ELSE claim[j]]
  BY <1>5, <1>8
<1>10. JQ!ToSet(got) = S
  BY JQToSet
<1>11. \A m, n \in 1..Len(got) : got[m] = got[n] => m = n
  BY <1>3 DEF NoRepeats
<1>12. tx'[p] = Idle
  BY <1>1, <1>8, EndLocks
<1> HIDE DEF got, S, k
<1>13. JQ!DeleteKey(k, got)
  BY <1>3, <1>6, <1>8, <1>9, <1>10, <1>11 DEF JQ!DeleteKey
<1> QED
  BY <1>1, <1>3, <1>6, <1>8, <1>12, <1>13 DEF got, S, k
-----------------------------------------------------------------------------
(***************************************************************************)
(* StepInv is inductive                                                    *)
(***************************************************************************)
LEMMA IdleRegular ==
  ASSUME NEW p, tx'[p] = Idle
  PROVE  Regular(tx[p])'
<1>1. tx'[p].op = "none" /\ tx'[p].pc = "idle" /\ tx'[p].held = {}
  BY DEF Idle
<1> QED
  BY <1>1 DEF Regular, LocksFormed, FindsAll, RaisesRightly, Results

LEMMA BeginRegular ==
  ASSUME TypeOK, NEW p \in Procs, Begins(p)
  PROVE  Regular(tx[p])'
<1>0. p \in DOMAIN tx
  BY DEF TypeOK
<1>1. /\ tx'[p].held = {}
      /\ tx'[p].pc # "raise"
      /\ tx'[p].op = "delete" => tx'[p].pc = "lock api key"
  <2>1. ASSUME NEW op, NEW pc, NEW k, NEW j, NEW u, Begin(p, op, pc, k, j, u)
        PROVE  tx'[p].op = op /\ tx'[p].pc = pc /\ tx'[p].held = {}
    BY <1>0, <2>1 DEF Begin, Become, Idle
  <2>2. ASSUME NEW k \in Keys, NEW u \in Tasks, StartClaim(p, k, u)
        PROVE  tx'[p].op = "claim" /\ tx'[p].pc = "select ready" /\ tx'[p].held = {}
    BY <2>1, <2>2 DEF StartClaim
  <2>3. ASSUME NEW op \in {"complete", "fail"}, NEW k \in Keys, NEW j \in Jobs,
               StartResult(p, op, k, j)
        PROVE  tx'[p].op = op /\ tx'[p].pc = "lock job" /\ tx'[p].held = {}
    BY <2>1, <2>3 DEF StartResult
  <2>4. ASSUME NEW j \in Jobs, StartRetry(p, j)
        PROVE  tx'[p].op = "retry" /\ tx'[p].pc = "lock job" /\ tx'[p].held = {}
    BY <2>1, <2>4 DEF StartRetry
  <2>5. ASSUME NEW k \in Keys, StartDelete(p, k)
        PROVE  tx'[p].op = "delete" /\ tx'[p].pc = "lock api key" /\ tx'[p].held = {}
    BY <2>1, <2>5 DEF StartDelete
  <2>6. ASSUME StartTimeout(p)
        PROVE  tx'[p].op = "timeout" /\ tx'[p].pc = "next row" /\ tx'[p].held = {}
    <3> DEFINE S == {<<j, claim[j]>> : j \in expired}
               t == [Idle EXCEPT !.op = "timeout", !.pc = "next row", !.todo = S]
    <3>1. tx'[p] = t
      BY <1>0, <2>6 DEF StartTimeout, Become
    <3> HIDE DEF S
    <3> QED
      BY <3>1 DEF Idle
  <2> QED
    BY <2>2, <2>3, <2>4, <2>5, <2>6 DEF Begins
<1> QED
  BY <1>1 DEF Regular, LocksFormed, FindsAll, RaisesRightly

\* A claim takes its locks one by one, in this order.
LEMMA ClaimStepRegular ==
  ASSUME Inv, NEW p \in Procs, Regular(tx[p]),
         SelectReady(p) \/ InsertClaimed(p) \/ ReferenceJob(p)
  PROVE  Regular(tx[p])'
<1>0. TypeOK /\ tx[p] \in Transactions /\ WellFormed(tx[p]) /\ LocksFormed(tx[p])
  BY InvOf DEF Regular
<1>1. tx[p].op = "claim"
  BY <1>0 DEF WellFormed, SelectReady, InsertClaimed, ReferenceJob, At
<1>2. CASE SelectReady(p)
  <2>1. PICK n \in Claimable(p) :
          Become(p, [tx[p] EXCEPT !.pc = "insert claimed", !.job = ready[n],
                                  !.held = @ \cup {ForUpdate("ready", ready[n])}])
    BY <1>2 DEF SelectReady
  <2>2. tx'[p] = [tx[p] EXCEPT !.pc = "insert claimed", !.job = ready[n],
                               !.held = @ \cup {ForUpdate("ready", ready[n])}]
    BY <1>0, <2>1, BecomeRecord
  <2>3. /\ tx'[p].op = "claim" /\ tx'[p].pc = "insert claimed"
        /\ tx'[p].job = ready[n]
        /\ tx'[p].held = tx[p].held \cup {ForUpdate("ready", ready[n])}
    BY <1>0, <1>1, <2>2 DEF Transactions
  <2>4. tx[p].held = {}
    BY <1>0, <1>1, <1>2 DEF SelectReady, At, LocksFormed
  <2> QED
    BY <2>3, <2>4 DEF Regular, LocksFormed, FindsAll, RaisesRightly, Results
<1>3. CASE (InsertClaimed(p) \/ ReferenceJob(p)) /\ Raise(p)
  <2>1. SameLocals(p) /\ tx'[p].pc = "raise" /\ tx'[p].held = tx[p].held
    BY <1>0, <1>3, GotoFields DEF Raise
  <2>2. tx[p].pc # "commit"
    BY <1>3 DEF InsertClaimed, ReferenceJob, At
  <2> QED
    BY <1>0, <1>1, <2>1, <2>2
       DEF SameLocals, Regular, LocksFormed, FindsAll, RaisesRightly, Results
<1>4. CASE InsertClaimed(p) /\ Lock(p, "reference job")
  <2>1. /\ SameLocals(p) /\ tx'[p].pc = "reference job"
        /\ tx'[p].held = tx[p].held \cup {KeyShare("api_key", tx[p].key)}
    BY <1>0, <1>4, LockFields, WantsCases DEF InsertClaimed
  <2>2. tx[p].pc # "commit"
    BY <1>4 DEF InsertClaimed, At
  <2> QED
    BY <1>0, <1>1, <2>1, <2>2
       DEF SameLocals, Regular, LocksFormed, FindsAll, RaisesRightly, Results
<1>5. CASE ReferenceJob(p) /\ Lock(p, "commit")
  <2>1. /\ SameLocals(p) /\ tx'[p].pc = "commit"
        /\ tx'[p].held = tx[p].held \cup {KeyShare("job", tx[p].job)}
    BY <1>0, <1>5, LockFields, WantsCases DEF ReferenceJob
  <2> QED
    BY <1>0, <1>1, <2>1
       DEF SameLocals, Regular, LocksFormed, FindsAll, RaisesRightly, Results
<1> QED
  BY <1>2, <1>3, <1>4, <1>5 DEF InsertClaimed, ReferenceJob

\* The operations on a job lock it, and then its claim.
LEMMA ResultStepRegular ==
  ASSUME Inv, NEW p \in Procs, Regular(tx[p]),
         \/ JobGone(p) \/ LockJob(p) \/ NotClaimed(p) \/ ClaimedByAnother(p)
         \/ LockClaimed(p) \/ ReadFailed(p) \/ NextExpired(p)
  PROVE  Regular(tx[p])'
<1>0. TypeOK /\ tx[p] \in Transactions /\ WellFormed(tx[p]) /\ ResultHolds(tx[p])
  BY InvOf
<1>1. /\ LocksFormed(tx[p])
      /\ tx[p].op \in Results
      /\ tx[p].pc \in {"lock job", "lock claimed", "read failed"} => tx[p].job \in Jobs
  BY <1>0 DEF WellFormed, Regular, Results, JobGone, LockJob, NotClaimed,
     ClaimedByAnother, LockClaimed, ReadFailed, NextExpired, At
<1>2. ASSUME tx'[p].op = tx[p].op, tx'[p].held = tx[p].held,
             \/ tx'[p].pc \in {"commit", "next row"}
             \/ tx'[p].pc = "lock job" /\ tx[p].op = "timeout"
             \/ tx'[p].pc = "raise" /\ tx[p].op = "retry"
      PROVE  Regular(tx[p])'
  BY <1>1, <1>2 DEF Regular, LocksFormed, FindsAll, RaisesRightly, Results
<1>3. ASSUME NEW table \in {"job", "claimed"}, tx[p].job \in Jobs,
             tx'[p].op = tx[p].op, 
             tx'[p].held = tx[p].held \cup {ForUpdate(table, tx[p].job)},
             table = "claimed" => ForUpdate("job", tx[p].job) \in tx[p].held,
             tx'[p].pc \in {"lock claimed", "read failed", "commit", "next row"}
      PROVE  Regular(tx[p])'
  <2>1. \A l \in tx'[p].held : \E j \in Jobs :
          /\ l \in {ForUpdate("job", j), ForUpdate("claimed", j)}
          /\ ForUpdate("job", j) \in tx'[p].held
    BY <1>1, <1>3 DEF LocksFormed
  <2> QED
    BY <1>1, <1>3, <2>1 DEF Regular, LocksFormed, FindsAll, RaisesRightly, Results
<1>4. ASSUME At(p, "lock claimed"), claim[tx[p].job] # NoKey
      PROVE  /\ Wants(p) = {ForUpdate("claimed", tx[p].job)}
             /\ ForUpdate("job", tx[p].job) \in tx[p].held
  <2>1. {i \in {tx[p].job} : claim[i] # NoKey} = {tx[p].job}
    BY <1>4
  <2>2. Wants(p) = {ForUpdate("claimed", j) : j \in {i \in {tx[p].job} : claim[i] # NoKey}}
    BY <1>4, WantsCases
  <2>3. ForUpdate("job", tx[p].job) \in tx[p].held
    BY <1>0, <1>4 DEF ResultHolds, At
  <2> QED
    BY <2>1, <2>2, <2>3
<1>5. CASE End(p)
  BY <1>0, <1>5, EndLocks, IdleRegular
<1>6. CASE tx[p].op = "timeout" /\ Goto(p, "next row")
  BY <1>0, <1>2, <1>6, GotoFields DEF SameLocals
<1>7. CASE tx[p].op = "retry" /\ Raise(p)
  BY <1>0, <1>2, <1>7, GotoFields DEF SameLocals, Raise
<1>8. CASE LockJob(p)
  <2>1. jobs \cap {tx[p].job} = {tx[p].job} /\ tx[p].pc = "lock job"
    BY <1>8 DEF LockJob, At
  <2>2. Wants(p) = {ForUpdate("job", j) : j \in jobs \cap {tx[p].job}}
    BY <1>8, WantsCases DEF LockJob
  <2>3. Wants(p) = {ForUpdate("job", tx[p].job)}
    BY <2>1, <2>2
  <2>4. PICK pc \in {"read failed", "lock claimed"} : Lock(p, pc)
    BY <1>8 DEF LockJob
  <2> QED
    BY <1>0, <1>1, <1>3, <2>1, <2>3, <2>4, LockFields DEF SameLocals
<1>9. CASE ClaimedByAnother(p) /\ Lock(p, "next row")
  <2>1. At(p, "lock claimed") /\ claim[tx[p].job] # NoKey
    BY <1>9 DEF ClaimedByAnother
  <2> QED
    BY <1>0, <1>1, <1>3, <1>4, <1>9, <2>1, LockFields DEF SameLocals, At
<1>10. CASE LockClaimed(p)
  <2> DEFINE pc == IF tx[p].op = "timeout" THEN "next row" ELSE "commit"
  <2>1. At(p, "lock claimed") /\ claim[tx[p].job] # NoKey
    BY <1>0, <1>10, JobQueueTxAssumption DEF LockClaimed, WellFormed, At
  <2>2. tx'[p] = [tx[p] EXCEPT !.pc = pc, !.got = Append(@, tx[p].job),
                               !.held = @ \cup Wants(p)]
    BY <1>0, <1>10, BecomeRecord DEF LockClaimed
  <2>3. /\ tx'[p].op = tx[p].op /\ tx'[p].pc = pc
        /\ tx'[p].held = tx[p].held \cup Wants(p)
    BY <1>0, <2>2 DEF Transactions
  <2> QED
    BY <1>1, <1>3, <1>4, <2>1, <2>3 DEF At
<1>11. CASE ReadFailed(p)
  BY <1>0, <1>2, <1>11, GotoFields DEF ReadFailed, SameLocals
<1>12. CASE NextExpired(p)
  <2>1. PICK c \in tx[p].todo :
          Become(p, [tx[p] EXCEPT !.pc = "lock job", !.job = c[1], !.key = c[2],
                                  !.todo = @ \ {c}])
    BY <1>12 DEF NextExpired
  <2>2. tx'[p] = [tx[p] EXCEPT !.pc = "lock job", !.job = c[1], !.key = c[2],
                               !.todo = @ \ {c}]
    BY <1>0, <2>1, BecomeRecord
  <2>3. tx'[p].op = tx[p].op /\ tx'[p].pc = "lock job" /\ tx'[p].held = tx[p].held
    BY <1>0, <2>2 DEF Transactions
  <2> QED
    BY <1>2, <1>12, <2>3 DEF NextExpired
<1> QED
  BY <1>5, <1>6, <1>7, <1>8, <1>9, <1>10, <1>11, <1>12
     DEF JobGone, NotClaimed, ClaimedByAnother, Refuse

\* A deletion, said with the fields of its record.
LEMMA FindsParts ==
  ASSUME NEW p, tx'[p].op = "delete", tx'[p].pc # "raise",
         tx'[p].pc \notin {"select ready", "lock job"},
         tx'[p].pc \in {"next row", "lock released", "requeue"} =>
           /\ tx'[p].pc = "requeue" => tx'[p].todo = {}
           /\ \A j \in Jobs : claim'[j] = tx'[p].key =>
                \/ \E n \in 1..Len(tx'[p].got) : tx'[p].got[n] = j
                \/ <<j, tx'[p].key>> \in tx'[p].todo
                \/ tx'[p].pc = "lock released" /\ tx'[p].job = j
  PROVE  Regular(tx[p])'
  BY DEF Regular, LocksFormed, FindsAll, RaisesRightly, Results

\* The released claims of a deletion go from todo to got, or have ended.
LEMMA DeleteStepRegular ==
  ASSUME Inv, NEW p \in Procs, Regular(tx[p]),
         \/ LockKey(p) \/ SelectClaimed(p) \/ NextClaimed(p)
         \/ LockReleased(p) \/ ReferenceReleased(p)
  PROVE  Regular(tx[p])'
<1>0. /\ TypeOK /\ tx[p] \in Transactions /\ WellFormed(tx[p]) /\ DeleteHolds(tx[p])
      /\ tx[p].got \in Seq(Jobs)
  BY InvOf DEF Transactions
<1>1. tx[p].op = "delete" /\ FindsAll(tx[p]) /\ UNCHANGED claim /\ tx[p].key \in Keys
  BY <1>0 DEF WellFormed, Regular, LockKey, SelectClaimed, NextClaimed, LockReleased,
     ReferenceReleased, At, db
<1>2. CASE LockKey(p)
  <2>1. SameLocals(p) /\ tx'[p].pc = "select claimed"
    BY <1>0, <1>2, LockFields DEF LockKey
  <2> QED
    BY <1>1, <2>1, FindsParts DEF SameLocals
<1>3. CASE SelectClaimed(p)
  <2> DEFINE found == {c \in Jobs \X {tx[p].key} : claim[c[1]] = c[2]}
  <2>1. tx'[p] = [tx[p] EXCEPT !.pc = "next row", !.todo = found]
    BY <1>0, <1>3, BecomeRecord DEF SelectClaimed
  <2>2. \A j \in Jobs : claim[j] = tx[p].key => <<j, tx[p].key>> \in found
    OBVIOUS
  <2> HIDE DEF found
  <2>3. /\ tx'[p].op = "delete" /\ tx'[p].pc = "next row" /\ tx'[p].todo = found
        /\ tx'[p].key = tx[p].key
    BY <1>0, <1>1, <2>1 DEF Transactions
  <2> QED
    BY <1>1, <2>2, <2>3, FindsParts
<1>4. CASE NextClaimed(p) /\ tx[p].todo = {}
  <2>1. SameLocals(p) /\ tx'[p].pc = "requeue"
    BY <1>0, <1>4, GotoFields DEF NextClaimed
  <2>2. tx[p].pc = "next row"
    BY <1>4 DEF NextClaimed, At
  <2> QED
    BY <1>1, <1>4, <2>1, <2>2, FindsParts DEF SameLocals, FindsAll
<1>5. CASE NextClaimed(p) /\ tx[p].todo # {}
  <2>1. PICK c \in tx[p].todo :
          Become(p, [tx[p] EXCEPT !.pc = "lock released", !.job = c[1], !.todo = @ \ {c}])
    BY <1>5 DEF NextClaimed
  <2>2. tx'[p] = [tx[p] EXCEPT !.pc = "lock released", !.job = c[1], !.todo = @ \ {c}]
    BY <1>0, <2>1, BecomeRecord
  <2>3. /\ tx'[p].op = "delete" /\ tx'[p].pc = "lock released" /\ tx'[p].job = c[1]
        /\ tx'[p].todo = tx[p].todo \ {c}
        /\ tx'[p].key = tx[p].key /\ tx'[p].got = tx[p].got
    BY <1>0, <1>1, <2>2 DEF Transactions
  <2>4. \A j \in Jobs : <<j, tx[p].key>> = c => c[1] = j
    OBVIOUS
  <2>5. tx[p].pc = "next row"
    BY <1>5 DEF NextClaimed, At
  <2>6. \A j \in Jobs : claim[j] = tx[p].key =>
          \/ \E n \in 1..Len(tx[p].got) : tx[p].got[n] = j
          \/ <<j, tx[p].key>> \in tx[p].todo
    BY <1>1, <2>5 DEF FindsAll
  <2> QED
    BY <1>1, <2>3, <2>4, <2>6, FindsParts
<1>6. CASE LockReleased(p)
  <2> DEFINE g == IF Wants(p) = {} THEN tx[p].got ELSE Append(tx[p].got, tx[p].job)
  <2>1. tx'[p] = [tx[p] EXCEPT !.pc = "next row", !.got = g, !.held = @ \cup Wants(p)]
    BY <1>0, <1>6, BecomeRecord DEF LockReleased
  <2>2. tx[p].pc = "lock released" /\ tx[p].job \in Jobs
    BY <1>0, <1>6 DEF LockReleased, At, WellFormed
  <2>3. claim[tx[p].job] = tx[p].key => Wants(p) # {}
    BY <2>2, WantsFound DEF At
  <2>4. \A j \in Jobs : claim[j] = tx[p].key =>
          \/ \E n \in 1..Len(tx[p].got) : tx[p].got[n] = j
          \/ <<j, tx[p].key>> \in tx[p].todo
          \/ tx[p].job = j
    BY <1>1, <2>2 DEF FindsAll
  <2>5. /\ \A n \in 1..Len(tx[p].got) : n \in 1..Len(g) /\ g[n] = tx[p].got[n]
        /\ Wants(p) # {} => \E n \in 1..Len(g) : g[n] = tx[p].job
    <3>1. PICK s \in Seq(Jobs), e \in Jobs : s = tx[p].got /\ e = tx[p].job
      BY <1>0, <2>2
    <3>2. /\ Len(Append(s, e)) = Len(s) + 1 /\ Len(s) \in Nat
          /\ \A n \in 1..Len(s) : Append(s, e)[n] = s[n]
          /\ Append(s, e)[Len(s) + 1] = e
      BY AppendProperties, LenProperties
    <3> QED
      BY <3>1, <3>2
  <2> HIDE DEF g
  <2>6. /\ tx'[p].op = "delete" /\ tx'[p].pc = "next row" /\ tx'[p].got = g
        /\ tx'[p].key = tx[p].key /\ tx'[p].todo = tx[p].todo
    BY <1>0, <1>1, <2>1 DEF Transactions
  <2>7. \A j \in Jobs : claim[j] = tx[p].key =>
          (\E n \in 1..Len(g) : g[n] = j) \/ <<j, tx[p].key>> \in tx[p].todo
    BY <2>3, <2>4, <2>5
  <2> QED
    BY <1>1, <2>6, <2>7, FindsParts
<1>7. CASE ReferenceReleased(p)
  <2>1. SameLocals(p) /\ tx'[p].pc = "requeue"
    BY <1>0, <1>7, LockFields DEF ReferenceReleased
  <2>2. tx[p].pc = "requeue"
    BY <1>7 DEF ReferenceReleased, At
  <2> QED
    BY <1>1, <2>1, <2>2, FindsParts DEF SameLocals, FindsAll
<1> QED
  BY <1>2, <1>3, <1>4, <1>5, <1>6, <1>7

LEMMA StepRegular ==
  ASSUME Inv, NEW p \in Procs, Regular(tx[p]), Step(p)
  PROVE  Regular(tx[p])'
<1>1. TypeOK /\ FindsAll(tx[p])
  BY InvOf DEF Regular
<1>2. CASE SelectNoReady(p) \/ NotFailed(p) \/ KeyGone(p) \/ Rollback(p)
  BY <1>1, <1>2, EndLocks, IdleRegular DEF SelectNoReady, NotFailed, KeyGone, Rollback
<1>3. CASE CommitClaim(p) \/ CommitComplete(p) \/ CommitFail(p) \/ CommitRetry(p)
             \/ CommitDelete(p)
  BY <1>1, <1>3, IdleRegular, ClaimCommits, CompleteCommits, FailCommits, RetryCommits,
     DeleteCommits
<1> QED
  BY <1>2, <1>3, ClaimStepRegular, ResultStepRegular, DeleteStepRegular DEF Step

\* The others: a claim that commits belongs to no key that is being deleted.
LEMMA OthersRegular ==
  ASSUME Inv, NEW p \in Procs, Step(p) \/ UNCHANGED claim, FindsAll(tx[p]),
         NEW q \in Procs, Regular(tx[q]), tx'[q] = tx[q], q # p
  PROVE  Regular(tx[q])'
<1>1. LocksFormed(tx[q])' /\ RaisesRightly(tx[q])'
  BY DEF Regular, LocksFormed, RaisesRightly
<1>2. FindsAll(tx[q])'
  <2> SUFFICES ASSUME tx[q].op = "delete",
                      tx[q].pc \in {"next row", "lock released", "requeue"}
               PROVE  \A j \in Jobs : claim'[j] = tx[q].key => claim[j] = tx[q].key
    BY DEF Regular, FindsAll
  <2>1. /\ ForUpdate("api_key", tx[q].key) \in tx[q].held
        /\ tx[q].key \in Keys /\ tx[q].key # NoKey
    BY InvOf, JobQueueTxAssumption DEF DeleteHolds, WellFormed
  <2>2. ASSUME CommitClaim(p)
        PROVE  tx[p].key # tx[q].key
    <3>1. KeyShare("api_key", tx[p].key) \in tx[p].held
      BY <2>2, ClaimCommits
    <3>2. ~Conflicts(KeyShare("api_key", tx[p].key), ForUpdate("api_key", tx[q].key))
      BY <2>1, <3>1 DEF Inv, LocksExclusive
    <3> QED
      BY <3>2 DEF Conflicts, KeyShare, ForUpdate
  <2>3. claim \in [Jobs -> Keys \cup {NoKey}]
    BY RowsOf
  <2>4. CASE UNCHANGED claim
    BY <2>4
  <2>5. CASE CommitClaim(p)
    BY <2>2, <2>3, <2>5, ClaimCommits
  <2>6. CASE CommitComplete(p)
    BY <2>1, <2>3, <2>6, CompleteCommits
  <2>7. CASE CommitFail(p)
    BY <2>1, <2>7, FailCommits
  <2>8. CASE CommitRetry(p)
    BY <2>8, RetryCommits
  <2>9. CASE CommitDelete(p)
    BY <2>1, <2>9, DeleteCommits
  <2> QED
    BY <2>4, <2>5, <2>6, <2>7, <2>8, <2>9, StepsThatWrite DEF db
<1> QED
  BY <1>1, <1>2 DEF Regular

LEMMA NextRegular ==
  ASSUME Inv, StepInv, [Next]_vars
  PROVE  StepInv'
<1>0. TypeOK
  BY DEF Inv
<1>1. ASSUME NEW p \in Procs, OnlyStepOf(p), Step(p) \/ UNCHANGED claim, Regular(tx[p])'
      PROVE  StepInv'
  BY <1>1, OthersRegular DEF StepInv, OnlyStepOf, Regular
<1>2. ASSUME NEW p \in Procs, Step(p)
      PROVE  StepInv'
  BY <1>0, <1>1, <1>2, StepType, StepRegular DEF StepInv
<1>3. ASSUME NEW p \in Procs, Begins(p)
      PROVE  StepInv'
  BY <1>0, <1>1, <1>3, BeginsType, BeginRegular DEF db
<1>4. ASSUME NEW p \in Procs, DeadlockVictim(p) \/ Crash(p)
      PROVE  StepInv'
  <2>1. End(p) /\ UNCHANGED db
    BY <1>4 DEF DeadlockVictim, Crash
  <2> QED
    BY <1>0, <1>1, <2>1, EndType, EndLocks, IdleRegular DEF db
<1>5. ASSUME UNCHANGED <<tx, claim>>
      PROVE  StepInv'
  <2>1. ASSUME NEW p \in Procs
        PROVE  Regular(tx[p])'
    BY <1>5 DEF StepInv, Regular, LocksFormed, FindsAll, RaisesRightly
  <2> QED
    BY <2>1 DEF StepInv
<1>6. ASSUME NEW s \in Submissions, Enqueue(s)
      PROVE  StepInv'
  BY <1>5, <1>6 DEF Enqueue
<1>7. ASSUME NEW k \in Keys, CreateKey(k)
      PROVE  StepInv'
  BY <1>5, <1>7 DEF CreateKey
<1>8. ASSUME NEW j \in Jobs, Expire(j)
      PROVE  StepInv'
  BY <1>5, <1>8 DEF Expire
<1>9. CASE UNCHANGED vars
  BY <1>5, <1>9 DEF vars
<1> QED
  BY <1>2, <1>3, <1>4, <1>6, <1>7, <1>8, <1>9 DEF Next, NextWithoutCrashes

LEMMA StepInvHolds == Spec => [](Inv /\ StepInv)
<1>1. Init => StepInv
  <2> SUFFICES ASSUME Init, NEW p \in Procs
               PROVE  Regular(tx[p])
    BY DEF StepInv
  <2>1. tx[p].op = "none" /\ tx[p].pc = "idle" /\ tx[p].held = {}
    BY DEF Init, Idle
  <2> QED
    BY <2>1 DEF Regular, LocksFormed, FindsAll, RaisesRightly, Results
<1> QED
  BY <1>1, NextRegular, InvariantHolds, PTL DEF Spec
-----------------------------------------------------------------------------
(***************************************************************************)
(* What raises, and what deadlocks                                         *)
(***************************************************************************)
\* No foreign key and no unique constraint fails a complete, a fail, the
\* deletion of a key or a pass of the timeout worker: what they commit still
\* fits the rows, and a deletion has found every claim of its key.
THEOREM OnlyClaimAndRetryMayRaise == Spec => []OnlyClaimAndRetryRaise
<1>1. StepInv => OnlyClaimAndRetryRaise
  BY DEF StepInv, Regular, RaisesRightly, OnlyClaimAndRetryRaise, At
<1> QED
  BY <1>1, StepInvHolds, PTL

LEMMA LockTable ==
  ASSUME NEW table, NEW row
  PROVE  ForUpdate(table, row)[1] = table /\ KeyShare(table, row)[1] = table
  BY DEF ForUpdate, KeyShare

LEMMA LockRow ==
  ASSUME NEW table, NEW row
  PROVE  ForUpdate(table, row)[2] = row /\ KeyShare(table, row)[2] = row
  BY DEF ForUpdate, KeyShare

LEMMA LockMode ==
  ASSUME NEW table, NEW row
  PROVE  ForUpdate(table, row)[3] = "update" /\ KeyShare(table, row)[3] = "key share"
  BY DEF ForUpdate, KeyShare

\* Without deletions, what a transaction waits for is the lock of a job:
\* whoever has locked a claimed row has locked its job too, so nobody who has
\* the job waits for the row.
LEMMA WaitsForJob ==
  ASSUME Inv, StepInv, NEW p \in Procs, NEW q \in Procs, Waits(p, q),
         tx[p].op # "delete", tx[q].op # "delete"
  PROVE  /\ tx[p].pc \in {"reference job", "lock job"}
         /\ \E m \in tx[q].held : m[1] = "job"
<1>1. /\ tx[p] \in Transactions /\ WellFormed(tx[p]) /\ ResultHolds(tx[p])
      /\ tx[q] \in Transactions
      /\ LocksFormed(tx[q])
  BY InvOf DEF StepInv, Regular
<1>2. PICK l, m : l \in Wants(p) /\ m \in tx[q].held /\ Conflicts(l, m)
  BY DEF Waits
<1>c. Conflicts(l, m)
  BY <1>2
<1>3. l[1] = m[1] /\ l[2] = m[2]
  BY <1>c DEF Conflicts
<1>4. tx[q].op \in {"none", "claim"} \cup Results
  BY <1>1 DEF Transactions, Ops, Results
<1>5. \/ \E j : m = ForUpdate("ready", j)
      \/ \E j : m = KeyShare("job", j)
      \/ \E k : m = KeyShare("api_key", k)
      \/ \E j : m = ForUpdate("job", j)
      \/ \E j : m = ForUpdate("claimed", j) /\ ForUpdate("job", j) \in tx[q].held
  <2>1. m \in tx[q].held
    BY <1>2
  <2> QED
    BY <1>1, <1>4, <2>1 DEF LocksFormed
<1>t. /\ \A j : m = ForUpdate("ready", j) => m[1] = "ready"
      /\ \A j : m = KeyShare("job", j) => m[1] = "job"
      /\ \A j : m = ForUpdate("job", j) => m[1] = "job"
      /\ \A k : m = KeyShare("api_key", k) => m[1] = "api_key"
      /\ \A j : m = ForUpdate("claimed", j) => m[1] = "claimed"
  BY LockTable
<1>6. ~At(p, "insert claimed")
  <2> SUFFICES ASSUME At(p, "insert claimed")
               PROVE  FALSE
    OBVIOUS
  <2>1. l = KeyShare("api_key", tx[p].key)
    BY <1>2, WantsCases
  <2>2. m[1] = "api_key"
    BY <1>3, <2>1, LockTable
  <2>3. \E j : m = KeyShare("api_key", j)
    BY <1>5, <1>t, <2>2
  <2>4. l[3] = "key share" /\ m[3] = "key share"
    BY <2>1, <2>3, LockMode
  <2> QED
    BY <1>c, <2>4 DEF Conflicts
<1>7. ~At(p, "lock claimed")
  <2> SUFFICES ASSUME At(p, "lock claimed")
               PROVE  FALSE
    OBVIOUS
  <2>1. Wants(p) = {ForUpdate("claimed", j) :
                      j \in {i \in {tx[p].job} : claim[i] # NoKey}}
    BY WantsCases, Zenon
  <2>2. l = ForUpdate("claimed", tx[p].job)
    BY <1>2, <2>1
  <2>3. ForUpdate("job", tx[p].job) \in tx[q].held
    <3>1. m[1] = "claimed"
      BY <1>3, <2>2, LockTable
    <3>2. m[2] = tx[p].job
      BY <1>3, <2>2, LockRow
    <3>3. PICK j : m = ForUpdate("claimed", j) /\ ForUpdate("job", j) \in tx[q].held
      BY <1>5, <1>t, <3>1
    <3>4. m = ForUpdate("claimed", j)
      BY <3>3
    <3>5. m[2] = j
      BY <3>4, LockRow
    <3> QED
      BY <3>2, <3>3, <3>5
  <2>4. ForUpdate("job", tx[p].job) \in tx[p].held
    BY <1>1 DEF ResultHolds, At
  <2>5. ~Conflicts(ForUpdate("job", tx[p].job), ForUpdate("job", tx[p].job))
    BY <2>3, <2>4 DEF Inv, LocksExclusive, Waits
  <2> QED
    BY <2>5 DEF Conflicts, ForUpdate
<1>8. tx[p].pc \notin {"lock api key", "lock released", "requeue"}
  BY <1>1 DEF WellFormed
<1>9. CASE At(p, "reference job")
  <2>1. l = KeyShare("job", tx[p].job)
    BY <1>2, <1>9, WantsCases
  <2>2. l[1] = "job"
    BY <2>1, LockTable
  <2>3. m \in tx[q].held /\ m[1] = "job"
    BY <1>2, <1>3, <2>2
  <2> QED
    BY <1>9, <2>3 DEF At
<1>10. CASE At(p, "lock job")
  <2>1. Wants(p) = {ForUpdate("job", j) : j \in jobs \cap {tx[p].job}}
    BY <1>10, WantsCases, Zenon
  <2>2. \E j : l = ForUpdate("job", j)
    BY <1>2, <2>1
  <2>3. l[1] = "job"
    BY <2>2, LockTable
  <2>4. m \in tx[q].held /\ m[1] = "job"
    BY <1>2, <1>3, <2>3
  <2> QED
    BY <1>10, <2>4 DEF At
<1>11. CASE tx[p].pc \in {"idle", "select ready", "read failed", "select claimed",
                          "next row", "commit", "raise"}
  <2>1. Wants(p) = {}
    BY <1>11, Zenon DEF Wants
  <2> QED
    BY <1>2, <2>1
<1> QED
  BY <1>1, <1>6, <1>7, <1>8, <1>9, <1>10, <1>11 DEF Transactions, PCs, At

\* So whoever waits and is waited for has a job and wants another one: only a
\* pass of the timeout worker does.
LEMMA OnlyTimeoutsBetween ==
  ASSUME Inv, StepInv, NEW p \in Procs, NEW q \in Procs, NEW r \in Procs,
         Waits(p, q), Waits(q, r),
         tx[p].op # "delete", tx[q].op # "delete", tx[r].op # "delete"
  PROVE  tx[q].op = "timeout"
<1>1. PICK m : m \in tx[q].held /\ m[1] = "job"
  BY WaitsForJob
<1>m. m[1] = "job"
  BY <1>1
<1>2. tx[q].pc \in {"reference job", "lock job"}
  BY WaitsForJob
<1>3. WellFormed(tx[q]) /\ LocksFormed(tx[q])
  BY InvOf DEF StepInv, Regular
<1>4. CASE tx[q].pc = "reference job"
  <2>1. m = ForUpdate("ready", tx[q].job) \/ m = KeyShare("api_key", tx[q].key)
    BY <1>1, <1>3, <1>4 DEF WellFormed, LocksFormed
  <2> QED
    BY <1>m, <2>1, LockTable
<1>5. CASE tx[q].pc = "lock job"
  BY <1>1, <1>3, <1>5 DEF LocksFormed
<1> QED
  BY <1>2, <1>4, <1>5

\* Claims, results and retries, and one timeout worker among them, are in no
\* deadlock: it takes the deletion of a key or two timeout workers.
THEOREM CyclesOfDeletesOrTimeouts == Spec => []CyclesNeedDeleteOrTwoTimeouts
<1>1. ASSUME Inv, StepInv
      PROVE  CyclesNeedDeleteOrTwoTimeouts
  <2> SUFFICES ASSUME NEW S \in SUBSET Procs, Deadlocked(S),
                      \A p \in S : tx[p].op # "delete"
               PROVE  \E p, q \in S : /\ p # q
                                      /\ tx[p].op = "timeout"
                                      /\ tx[q].op = "timeout"
    BY DEF CyclesNeedDeleteOrTwoTimeouts, WaitCycle
  <2>1. PICK p \in S, q \in S : Waits(p, q)
    BY DEF Deadlocked
  <2>2. PICK r \in S : Waits(q, r)
    BY DEF Deadlocked
  <2>3. PICK u \in S : Waits(r, u)
    BY DEF Deadlocked
  <2>4. tx[q].op = "timeout"
    BY <1>1, <2>1, <2>2, OnlyTimeoutsBetween
  <2>5. tx[r].op = "timeout"
    BY <1>1, <2>2, <2>3, OnlyTimeoutsBetween
  <2>6. q # r
    BY <2>2 DEF Waits
  <2> QED
    BY <2>4, <2>5, <2>6
<1> QED
  BY <1>1, StepInvHolds, PTL
-----------------------------------------------------------------------------
(***************************************************************************)
(* How claims end                                                          *)
(***************************************************************************)
\* Only commits write claims.
LEMMA ClaimWriters ==
  ASSUME [Next]_vars, claim' # claim
  PROVE  \E p \in Procs :
           /\ Step(p)
           /\ \/ CommitClaim(p) \/ CommitComplete(p) \/ CommitFail(p)
              \/ CommitRetry(p) \/ CommitDelete(p)
<1>1. ASSUME NEW p \in Procs, Begins(p) \/ DeadlockVictim(p) \/ Crash(p)
      PROVE  FALSE
  BY <1>1 DEF Begins, StartClaim, StartResult, StartRetry, StartDelete,
              StartTimeout, DeadlockVictim, Crash, db
<1>2. \E p \in Procs : Step(p)
  BY <1>1 DEF Next, NextWithoutCrashes, Enqueue, CreateKey, Expire, vars
<1> QED
  BY <1>2, StepsThatWrite DEF db

LEMMA EndsByKey ==
  ASSUME Inv, StepInv, [Next]_vars,
         NEW j \in Jobs, claim[j] # NoKey, claim'[j] # claim[j]
  PROVE  /\ claim'[j] = NoKey
         /\ \E p \in Procs : /\ j \in ToSet(tx[p].got)
                             /\ tx'[p] = Idle
                             /\ tx[p].key = claim[j] \/ tx[p].op = "timeout"
<1>1. PICK p \in Procs : \/ CommitClaim(p) \/ CommitComplete(p) \/ CommitFail(p)
                         \/ CommitRetry(p) \/ CommitDelete(p)
  BY ClaimWriters
<1>2. claim \in [Jobs -> Keys \cup {NoKey}]
  BY RowsOf
<1>3. ~CommitClaim(p)
  BY <1>2, ClaimCommits
<1>4. ~CommitRetry(p)
  BY RetryCommits
<1>5. CASE CommitComplete(p)
  <2>1. /\ tx'[p] = Idle /\ tx[p].op = "complete" /\ tx[p].pc = "commit"
        /\ claim' = [claim EXCEPT ![tx[p].job] = NoKey]
    BY <1>5, CompleteCommits
  <2>2. ToSet(tx[p].got) = {tx[p].job} /\ claim[tx[p].job] = tx[p].key
    BY <2>1, GotIsClaimed
  <2>3. j = tx[p].job
    BY <1>2, <2>1
  <2>4. claim'[j] = NoKey
    BY <1>2, <2>1, <2>3
  <2> QED
    BY <2>1, <2>2, <2>3, <2>4
<1>6. CASE CommitFail(p)
  <2>1. /\ tx'[p] = Idle
        /\ (tx[p].op = "fail" /\ tx[p].pc = "commit") \/ tx[p].op = "timeout"
        /\ claim' = [i \in Jobs |-> IF i \in ToSet(tx[p].got) THEN NoKey ELSE claim[i]]
    BY <1>6, FailCommits
  <2>2. j \in ToSet(tx[p].got) /\ claim'[j] = NoKey
    BY <2>1
  <2>3. CASE tx[p].op = "fail" /\ tx[p].pc = "commit"
    <3>1. ToSet(tx[p].got) = {tx[p].job} /\ claim[tx[p].job] = tx[p].key
      BY <2>3, GotIsClaimed
    <3> QED
      BY <2>1, <2>2, <3>1
  <2> QED
    BY <2>1, <2>2, <2>3
<1>7. CASE CommitDelete(p)
  <2>1. /\ tx'[p] = Idle
        /\ ToSet(tx[p].got) = JQ!ClaimedBy(tx[p].key)
        /\ claim' = [i \in Jobs |-> IF i \in ToSet(tx[p].got) THEN NoKey ELSE claim[i]]
    BY <1>7, DeleteCommits DEF StepInv, Regular
  <2>2. j \in ToSet(tx[p].got) /\ claim'[j] = NoKey
    BY <2>1
  <2>3. claim[j] = tx[p].key
    BY <2>1, <2>2 DEF JQ!ClaimedBy
  <2> QED
    BY <2>1, <2>2, <2>3
<1> QED
  BY <1>1, <1>3, <1>4, <1>5, <1>6, <1>7

\* A claim ends in the commit of a transaction that has locked it and acts for
\* the key that has it at that moment, or in a timeout.
THEOREM ClaimsEndByTheirOwnKey == Spec => ClaimsEndByTheirKey
<1>1. ASSUME Inv, StepInv, [Next]_vars
      PROVE  \A j \in Jobs :
               claim[j] # NoKey /\ claim'[j] # claim[j] =>
                 /\ claim'[j] = NoKey
                 /\ \E p \in Procs : /\ j \in ToSet(tx[p].got)
                                     /\ tx'[p] = Idle
                                     /\ tx[p].key = claim[j] \/ tx[p].op = "timeout"
  BY <1>1, EndsByKey
<1> QED
  BY <1>1, StepInvHolds, PTL DEF Spec, ClaimsEndByTheirKey

LEMMA CommitsWithALiveKey ==
  ASSUME Inv, StepInv, [Next]_vars, NEW p \in Procs,
         tx[p].op \in {"claim", "complete", "fail"}, tx'[p] = Idle, claim' # claim
  PROVE  keys[tx[p].key] = "live"
<1>1. PICK q \in Procs : /\ Step(q)
                         /\ \/ CommitClaim(q) \/ CommitComplete(q) \/ CommitFail(q)
                            \/ CommitRetry(q) \/ CommitDelete(q)
  BY ClaimWriters
<1>2. TypeOK /\ WellFormed(tx[p])
  BY InvOf
<1>3. p = q
  <2>1. p # q => tx'[p] = tx[p]
    BY <1>1, <1>2, StepType DEF OnlyStepOf
  <2>2. Idle.op = "none"
    BY DEF Idle
  <2> QED
    BY <2>1, <2>2
<1>4. ASSUME tx[p].pc = "commit", tx[p].op \in {"complete", "fail"}
      PROVE  keys[tx[p].key] = "live"
  BY <1>4, GotIsClaimed, RowsOf
<1>5. CASE CommitClaim(p)
  BY <1>5, ClaimCommits
<1>6. CASE CommitComplete(p)
  BY <1>4, <1>6, CompleteCommits
<1>7. CASE CommitFail(p)
  BY <1>4, <1>7, FailCommits
<1>8. ~CommitRetry(p)
  BY RetryCommits
<1>9. ~CommitDelete(p)
  BY <1>2 DEF CommitDelete, At, WellFormed
<1> QED
  BY <1>1, <1>3, <1>5, <1>6, <1>7, <1>8, <1>9

\* A request whose key has been deleted since it was authenticated commits no
\* claim and ends none.
THEOREM DeletedKeysDoNothing == Spec => DeletedKeysChangeNothing
<1>1. ASSUME Inv, StepInv, [Next]_vars
      PROVE  \A p \in Procs :
               /\ tx[p].op \in {"claim", "complete", "fail"}
               /\ tx'[p] = Idle
               /\ claim' # claim
               => keys[tx[p].key] = "live"
  BY <1>1, CommitsWithALiveKey
<1> QED
  BY <1>1, StepInvHolds, PTL DEF Spec, DeletedKeysChangeNothing
-----------------------------------------------------------------------------
(***************************************************************************)
(* The transactions implement the atomic queue                             *)
(***************************************************************************)
LEMMA JQSetToSeqs ==
  ASSUME NEW S
  PROVE  JQ!SetToSeqs(S) = SetToSeqs(S)
  BY JQCardinality DEF JQ!SetToSeqs, SetToSeqs

LEMMA CommitMaps ==
  ASSUME Inv, StepInv, NEW p \in Procs,
         \/ CommitClaim(p) \/ CommitComplete(p) \/ CommitFail(p)
         \/ CommitRetry(p) \/ CommitDelete(p)
  PROVE  JQ!Next
<1>1. CASE CommitClaim(p)
  <2>1. tx[p].key \in Keys /\ \E i \in 1..Len(ready) : JQ!Claim(tx[p].key, i)
    BY <1>1, ClaimCommits
  <2> QED
    BY <2>1 DEF JQ!Next
<1>2. CASE CommitComplete(p)
  <2>1. tx[p].key \in Keys /\ tx[p].job \in Jobs /\ JQ!Complete(tx[p].key, tx[p].job)
    BY <1>2, CompleteCommits, GotIsClaimed
  <2> QED
    BY <2>1 DEF JQ!Next
<1>3. CASE CommitFail(p)
  <2>1. ToSet(tx[p].got) \in SUBSET Jobs /\ JQ!Fail(ToSet(tx[p].got))
    BY <1>3, FailCommits
  <2> QED
    BY <2>1 DEF JQ!Next
<1>4. CASE CommitRetry(p)
  <2>1. tx[p].job \in Jobs /\ JQ!Retry(tx[p].job)
    BY <1>4, RetryCommits
  <2> QED
    BY <2>1 DEF JQ!Next
<1>5. CASE CommitDelete(p)
  <2>1. /\ tx[p].key \in Keys /\ tx[p].got \in Seq(Jobs)
        /\ ToSet(tx[p].got) = JQ!ClaimedBy(tx[p].key)
        /\ NoRepeats(tx[p].got)
        /\ JQ!DeleteKey(tx[p].key, tx[p].got)
    BY <1>5, DeleteCommits DEF StepInv, Regular
  <2>2. tx[p].got \in JQ!SetToSeqs(JQ!ClaimedBy(tx[p].key))
    BY <2>1, OrderingOfElements, JQSetToSeqs
  <2> QED
    BY <2>1, <2>2 DEF JQ!Next
<1> QED
  BY <1>1, <1>2, <1>3, <1>4, <1>5

LEMMA NextMaps ==
  ASSUME Inv, StepInv, [Next]_vars
  PROVE  [JQ!Next]_(JQ!vars)
<1>1. ASSUME NEW s \in Submissions, Enqueue(s)
      PROVE  JQ!Next
  <2>1. JQ!Enqueue(s)
    BY <1>1, JQToSet DEF Enqueue, JQ!Enqueue
  <2> QED
    BY <2>1 DEF JQ!Next
<1>2. ASSUME NEW k \in Keys, CreateKey(k)
      PROVE  JQ!Next
  <2>1. JQ!CreateKey(k)
    BY <1>2 DEF CreateKey, JQ!CreateKey
  <2> QED
    BY <2>1 DEF JQ!Next
<1>3. ASSUME NEW p \in Procs, Step(p)
      PROVE  [JQ!Next]_(JQ!vars)
  <2>1. CASE UNCHANGED db
    BY <2>1 DEF db, JQ!vars
  <2>2. CASE ~UNCHANGED db
    BY <1>3, <2>2, StepsThatWrite, CommitMaps
  <2> QED
    BY <2>1, <2>2
<1>4. ASSUME NEW p \in Procs, Begins(p) \/ DeadlockVictim(p) \/ Crash(p)
      PROVE  UNCHANGED JQ!vars
  BY <1>4 DEF Begins, StartClaim, StartResult, StartRetry, StartDelete,
              StartTimeout, DeadlockVictim, Crash, db, JQ!vars
<1>5. ASSUME NEW j \in Jobs, Expire(j)
      PROVE  UNCHANGED JQ!vars
  BY <1>5 DEF Expire, JQ!vars
<1>6. UNCHANGED vars => UNCHANGED JQ!vars
  BY DEF vars, JQ!vars
<1> QED
  BY <1>1, <1>2, <1>3, <1>4, <1>5, <1>6 DEF Next, NextWithoutCrashes

\* However statements interleave and transactions wait and abort, the rows
\* that callers see change as if every operation of job_queue.py, every pass of
\* the timeout worker and every deletion of a key were one atomic step.
THEOREM QueueIsAtomic == Spec => ImplementsJobQueue
<1>1. Init => JQ!Init
  BY DEF Init, JQ!Init
<1>2. Inv /\ StepInv /\ [Next]_vars => [JQ!Next]_(JQ!vars)
  BY NextMaps
<1> QED
  BY <1>1, <1>2, StepInvHolds, PTL DEF Spec, ImplementsJobQueue, JQ!Spec
-----------------------------------------------------------------------------
(***************************************************************************)
(* What the atomic queue promises, the transactions keep                   *)
(***************************************************************************)
\* The theorems about JobQueue, with its own copies of its operators.
JQP == INSTANCE JobQueue_proofs

LEMMA SameAssumption == JQP!JobQueueAssumption
  BY JobQueueTxAssumption, JQToSet
     DEF JQP!JobQueueAssumption, JQP!WellBatched, JQ!WellBatched, JQP!ToSet, JQ!ToSet

LEMMA SameNext == JQP!Next <=> JQ!Next
<1>1. \A s : JQP!Enqueue(s) <=> JQ!Enqueue(s)
  BY Zenon DEF JQP!Enqueue, JQ!Enqueue, JQP!ToSet, JQ!ToSet
<1>2. \A k : JQP!CreateKey(k) <=> JQ!CreateKey(k)
  BY Zenon DEF JQP!CreateKey, JQ!CreateKey
<1>3. \A k, i : JQP!Claim(k, i) <=> JQ!Claim(k, i)
  BY Zenon DEF JQP!Claim, JQ!Claim, JQP!RemoveAt, JQ!RemoveAt
<1>4. \A k, j : JQP!Complete(k, j) <=> JQ!Complete(k, j)
  BY Zenon DEF JQP!Complete, JQ!Complete
<1>5. \A S : JQP!Fail(S) <=> JQ!Fail(S)
  BY Zenon DEF JQP!Fail, JQ!Fail, JQP!WithFailures, JQ!WithFailures,
               JQP!Capped, JQ!Capped, JQP!Cardinality, JQ!Cardinality
<1>6. \A j : JQP!Retry(j) <=> JQ!Retry(j)
  BY Zenon DEF JQP!Retry, JQ!Retry
<1>7. \A k, r : JQP!DeleteKey(k, r) <=> JQ!DeleteKey(k, r)
  BY Zenon DEF JQP!DeleteKey, JQ!DeleteKey, JQP!ClaimedBy, JQ!ClaimedBy,
               JQP!ToSet, JQ!ToSet
<1>8. \A k : JQP!SetToSeqs(JQP!ClaimedBy(k)) = JQ!SetToSeqs(JQ!ClaimedBy(k))
  BY Zenon DEF JQP!SetToSeqs, JQ!SetToSeqs, JQP!ClaimedBy, JQ!ClaimedBy,
               JQP!Cardinality, JQ!Cardinality
<1> QED
  BY <1>1, <1>2, <1>3, <1>4, <1>5, <1>6, <1>7, <1>8 DEF JQP!Next, JQ!Next

LEMMA SpecOfProofs == Spec => JQP!Spec
<1>1. JQ!Init => JQP!Init
  BY DEF JQ!Init, JQP!Init
<1>2. [JQ!Next]_(JQ!vars) => [JQP!Next]_(JQP!vars)
  BY SameNext DEF JQ!vars, JQP!vars
<1> QED
  BY <1>1, <1>2, QueueIsAtomic, PTL DEF ImplementsJobQueue, JQ!Spec, JQP!Spec

\* Every job of a submission still exists or has given exactly one rollout,
\* however complete_job, fail_job, timeouts, retries, releases and their aborts
\* interleave.
THEOREM ResultsAreConserved == Spec => []ResultsConserved
<1>1. JQP!ResultsConserved => ResultsConserved
  BY Zenon DEF ResultsConserved, JQ!ResultsConserved, JQP!ResultsConserved,
               JQ!Cardinality, JQP!Cardinality
<1>2. JQP!Spec => []JQP!ResultsConserved
  BY SameAssumption, JQP!NoResultIsLost
<1> QED
  BY <1>1, <1>2, SpecOfProofs, PTL

\* A job never sits in failed_execution without a JobFailure row of its
\* submission that accounts for it.
THEOREM FailuresAreRecorded == Spec => []FailuresRecorded
<1>1. JQP!FailuresRecorded => FailuresRecorded
  BY Zenon DEF FailuresRecorded, JQ!FailuresRecorded, JQP!FailuresRecorded,
               JQ!Capped, JQP!Capped, JQ!Cardinality, JQP!Cardinality
<1>2. JQP!Spec => []JQP!FailuresRecorded
  BY SameAssumption, JQP!NoFailureIsForgotten
<1> QED
  BY <1>1, <1>2, SpecOfProofs, PTL
=============================================================================
