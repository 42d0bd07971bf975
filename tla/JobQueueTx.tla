----------------------------- MODULE JobQueueTx -----------------------------
(***************************************************************************)
(* The job queue as it runs: every request handler and every pass of the   *)
(* timeout worker is one PostgreSQL transaction (deps.get_db,              *)
(* scheduler.timeout_claimed_jobs) at READ COMMITTED, and the transactions *)
(* of concurrent requests interleave statement by statement.               *)
(*                                                                         *)
(* A process is a transaction slot. Its steps are the statements that lock *)
(* rows, wait for a lock or read what a later statement uses. A statement  *)
(* sees the rows committed when it runs; what a transaction writes takes   *)
(* effect, and its row locks go, when it commits. An abort (a crash, a     *)
(* lost connection, the victim of a deadlock) only drops the locks.        *)
(***************************************************************************)
EXTENDS Naturals, FiniteSets, SequencesExt, RowLocks

CONSTANTS Jobs, Submissions, Tasks, Keys, NoKey, Batch, SubmissionOf, TaskOf,
          MaxFailures,   \* as in JobQueue
          NoJob, NoTask, \* null values of a transaction's locals
          Requests,      \* slots for requests: threads of the app's thread pool
          Workers        \* timeout workers: one per running app process

VARIABLES submissions, jobs, ready, claim, failed, keys, rollouts, failures,
          expired,       \* jobs whose committed claim is older than CLAIM_TIMEOUT
          tx             \* tx[p]: the transaction of process p

db == <<submissions, jobs, ready, claim, failed, keys, rollouts, failures,
        expired>>
vars == <<submissions, jobs, ready, claim, failed, keys, rollouts, failures,
          expired, tx>>

JQ == INSTANCE JobQueue

Procs == Requests \cup Workers

ASSUME JobQueueTxAssumption ==
  /\ JQ!WellBatched
  /\ NoKey \notin Keys
  /\ MaxFailures \in Nat
  /\ NoJob \notin Jobs
  /\ NoTask \notin Tasks
  /\ Requests \cap Workers = {}
-----------------------------------------------------------------------------
(***************************************************************************)
(* Row locks                                                               *)
(***************************************************************************)
Modes == {"update", "key share"}

Locks == ({"job", "ready", "claimed"} \X Jobs \X Modes)
           \cup ({"api_key"} \X Keys \X Modes)

\* No other transaction holds a lock in the way of l.
Free(p, l) == \A q \in Procs \ {p} : \A m \in tx[q].held : ~Conflicts(l, m)
-----------------------------------------------------------------------------
(***************************************************************************)
(* Transactions                                                            *)
(***************************************************************************)
Ops == {"none", "claim", "complete", "fail", "retry", "delete", "timeout"}

PCs == {"idle", "select ready", "insert claimed", "reference job", "lock job",
        "lock claimed", "read failed", "lock api key", "select claimed",
        "next row", "lock released", "requeue", "commit", "raise"}

Transactions ==
  [op : Ops, pc : PCs, key : Keys \cup {NoKey}, job : Jobs \cup {NoJob},
   task : Tasks \cup {NoTask}, todo : SUBSET (Jobs \X Keys), got : Seq(Jobs),
   held : SUBSET Locks]

Idle == [op |-> "none", pc |-> "idle", key |-> NoKey, job |-> NoJob,
         task |-> NoTask, todo |-> {}, got |-> <<>>, held |-> {}]

Become(p, t) == tx' = [tx EXCEPT ![p] = t]

\* A transaction begins; its locals are null until a statement sets them.
Begin(p, op, pc, key, job, task) ==
  /\ tx[p].pc = "idle"
  /\ Become(p, [Idle EXCEPT !.op = op, !.pc = pc, !.key = key, !.job = job,
                            !.task = task])

\* The transaction ends: a commit of nothing, a rollback, or part of a commit.
End(p) == Become(p, Idle)

Goto(p, pc) == Become(p, [tx[p] EXCEPT !.pc = pc])

\* An exception that the handler does not catch: the session rolls back and
\* the caller gets a 500 (or the worker logs it and goes on).
Raise(p) == Goto(p, "raise")

At(p, pc) == tx[p].pc = pc

\* Positions in got[p] of the released jobs that p has not referred to yet.
Unreferenced(p) ==
  {n \in 1..Len(tx[p].got) : KeyShare("job", tx[p].got[n]) \notin tx[p].held}

\* A variant with a fault: fail_job locks the claim before the job.
WantsClaimFirst(p) ==
  LET j == tx[p].job IN
  CASE At(p, "lock job") /\ tx[p].op = "fail" ->
         {ForUpdate("claimed", i) : i \in {j} \cap {i \in Jobs : claim[i] # NoKey}}
    [] At(p, "lock job") /\ tx[p].op # "fail" ->
         {ForUpdate("job", i) : i \in jobs \cap {j}}
    [] At(p, "lock claimed") /\ tx[p].op = "fail" ->
         {ForUpdate("job", i) : i \in jobs \cap {j}}
    [] At(p, "lock claimed") /\ tx[p].op # "fail" ->
         {ForUpdate("claimed", i) : i \in {j} \cap {i \in Jobs : claim[i] # NoKey}}
    [] OTHER -> {}

\* The locks that the next statement of p takes; none when the row is gone.
Wants(p) ==
  LET t == tx[p] IN
  CASE t.pc = "insert claimed" -> {KeyShare("api_key", t.key)}
    [] t.pc = "reference job" -> {KeyShare("job", t.job)}
    [] t.pc = "lock job" -> {ForUpdate("job", j) : j \in jobs \cap {t.job}}
    [] t.pc = "lock claimed" ->
         {ForUpdate("claimed", j) : j \in {i \in {t.job} : claim[i] # NoKey}}
    [] t.pc = "lock api key" ->
         {ForUpdate("api_key", k) : k \in {i \in {t.key} : keys[i] = "live"}}
    [] t.pc = "lock released" ->
         {ForUpdate("claimed", j) : j \in {i \in {t.job} : claim[i] = t.key}}
    [] t.pc = "requeue" ->
         {KeyShare("job", t.got[n]) :
            n \in {m \in Unreferenced(p) : \A i \in Unreferenced(p) : m <= i}}
    [] OTHER -> {}

\* A statement takes the locks that it wants, and p goes on at pc.
Lock(p, pc) == Become(p, [tx[p] EXCEPT !.pc = pc, !.held = @ \cup Wants(p)])

\* The statement of p does not wait.
Granted(p) == \A l \in Wants(p) : Free(p, l)

Waits(p, q) == p # q /\ \E l \in Wants(p) : \E m \in tx[q].held : Conflicts(l, m)
-----------------------------------------------------------------------------
Init ==
  /\ submissions = {}
  /\ jobs = {}
  /\ ready = <<>>
  /\ claim = [j \in Jobs |-> NoKey]
  /\ failed = {}
  /\ keys = [k \in Keys |-> "none"]
  /\ rollouts = [s \in Submissions |-> 0]
  /\ failures = [s \in Submissions |-> 0]
  /\ expired = {}
  /\ tx = [p \in Procs |-> Idle]

\* create_submission_page: no other transaction can wait for its new rows.
Enqueue(s) ==
  /\ s \notin submissions
  /\ submissions' = submissions \cup {s}
  /\ jobs' = jobs \cup ToSet(Batch[s])
  /\ ready' = ready \o Batch[s]
  /\ UNCHANGED <<claim, failed, keys, rollouts, failures, expired, tx>>

\* create_api_key_page with a name that is not taken.
CreateKey(k) ==
  /\ keys[k] = "none"
  /\ keys' = [keys EXCEPT ![k] = "live"]
  /\ UNCHANGED <<submissions, jobs, ready, claim, failed, rollouts, failures,
                 expired, tx>>

\* A claim gets older than CLAIM_TIMEOUT minutes.
Expire(j) ==
  /\ claim[j] # NoKey
  /\ j \notin expired
  /\ expired' = expired \cup {j}
  /\ UNCHANGED <<submissions, jobs, ready, claim, failed, keys, rollouts,
                 failures, tx>>
-----------------------------------------------------------------------------
(***************************************************************************)
(* api_claim_job                                                           *)
(***************************************************************************)
\* The key is authenticated by an unlocked read.
StartClaim(p, k, t) ==
  /\ keys[k] = "live"
  /\ Begin(p, "claim", "select ready", k, NoJob, t)
  /\ UNCHANGED db

\* Positions of the ready rows of p's task that FOR UPDATE SKIP LOCKED returns.
Claimable(p) ==
  {n \in 1..Len(ready) :
     /\ TaskOf[SubmissionOf[ready[n]]] = tx[p].task
     /\ Free(p, ForUpdate("ready", ready[n]))}

\* A variant with a fault: "no ready row" is not handled.
SelectNoReadyUnchecked(p) ==
  /\ At(p, "select ready")
  /\ Claimable(p) = {}
  /\ Goto(p, "insert claimed")
  /\ UNCHANGED db

SelectNoReady(p) ==
  /\ At(p, "select ready")
  /\ Claimable(p) = {}
  /\ End(p)
  /\ UNCHANGED db

\* A variant with a fault: the newest ready row instead of the oldest.
SelectNewestReady(p) ==
  /\ At(p, "select ready")
  /\ \E n \in Claimable(p) :
       /\ \A m \in Claimable(p) : n >= m
       /\ Become(p, [tx[p] EXCEPT !.pc = "insert claimed", !.job = ready[n],
                               !.held = @ \cup {ForUpdate("ready", ready[n])}])
  /\ UNCHANGED db

SelectReady(p) ==
  /\ At(p, "select ready")
  /\ \E n \in Claimable(p) :
       /\ \A m \in Claimable(p) : n <= m
       /\ Become(p, [tx[p] EXCEPT !.pc = "insert claimed", !.job = ready[n],
                               !.held = @ \cup {ForUpdate("ready", ready[n])}])
  /\ UNCHANGED db

\* A variant with a fault: claimed_execution.api_key_id is no foreign key.
InsertClaimedUnreferenced(p) ==
  /\ At(p, "insert claimed")
  /\ IF claim[tx[p].job] = NoKey THEN Goto(p, "reference job") ELSE Raise(p)
  /\ UNCHANGED db

\* INSERT INTO claimed_execution: unique job_id, then the foreign key to
\* api_key. The key may have been deleted since it was authenticated.
InsertClaimed(p) ==
  /\ At(p, "insert claimed")
  /\ Granted(p)
  /\ IF claim[tx[p].job] = NoKey /\ keys[tx[p].key] = "live"
     THEN Lock(p, "reference job")
     ELSE Raise(p)
  /\ UNCHANGED db

\* ... and the foreign key to job.
ReferenceJob(p) ==
  /\ At(p, "reference job")
  /\ Granted(p)
  /\ IF tx[p].job \in jobs
     THEN Lock(p, "commit")
     ELSE Raise(p)
  /\ UNCHANGED db

\* A variant with a fault: the ready row is not deleted.
CommitClaimKeepsReady(p) ==
  /\ At(p, "commit")
  /\ tx[p].op = "claim"
  /\ claim' = [claim EXCEPT ![tx[p].job] = tx[p].key]
  /\ End(p)
  /\ UNCHANGED <<submissions, jobs, ready, failed, keys, rollouts, failures,
                 expired>>

CommitClaim(p) ==
  /\ At(p, "commit")
  /\ tx[p].op = "claim"
  /\ \E n \in 1..Len(ready) : /\ ready[n] = tx[p].job
                             /\ ready' = RemoveAt(ready, n)
  /\ claim' = [claim EXCEPT ![tx[p].job] = tx[p].key]
  /\ End(p)
  /\ UNCHANGED <<submissions, jobs, failed, keys, rollouts, failures, expired>>
-----------------------------------------------------------------------------
(***************************************************************************)
(* api_complete_job, api_fail_job, retry_job_page and, one expired claim   *)
(* at a time, the timeout worker                                           *)
(***************************************************************************)
\* The runner names any job: its own, another's, one that is gone.
StartResult(p, op, k, j) ==
  /\ op \in {"complete", "fail"}
  /\ keys[k] = "live"
  /\ Begin(p, op, "lock job", k, j, NoTask)
  /\ UNCHANGED db

\* The page has found the job, without a lock, and checked who owns it.
StartRetry(p, j) ==
  /\ j \in jobs
  /\ Begin(p, "retry", "lock job", NoKey, j, NoTask)
  /\ UNCHANGED db

\* A variant with a fault: the worker tries the missing row again.
RefuseAgain(p) ==
  IF tx[p].op = "timeout" THEN Goto(p, "lock job") ELSE End(p)

\* What a transaction does when a row it needs is not there: the API answers
\* 400 or 404, the worker goes on with its next expired claim.
Refuse(p) ==
  IF tx[p].op = "timeout" THEN Goto(p, "next row") ELSE End(p)

\* find_job(for_update=True). retry_job_page does not catch JobNotFoundError.
JobGone(p) ==
  /\ At(p, "lock job")
  /\ tx[p].job \notin jobs
  /\ IF tx[p].op = "retry" THEN Raise(p) ELSE Refuse(p)
  /\ UNCHANGED db

\* A variant with a fault: find_job without FOR UPDATE.
ReadJob(p) ==
  /\ At(p, "lock job")
  /\ tx[p].job \in jobs
  /\ Goto(p, IF tx[p].op = "retry" THEN "read failed" ELSE "lock claimed")
  /\ UNCHANGED db

LockJob(p) ==
  /\ At(p, "lock job")
  /\ tx[p].job \in jobs
  /\ Granted(p)
  /\ Lock(p, IF tx[p].op = "retry" THEN "read failed" ELSE "lock claimed")
  /\ UNCHANGED db

NotClaimed(p) ==
  /\ At(p, "lock claimed")
  /\ claim[tx[p].job] = NoKey
  /\ Refuse(p)
  /\ UNCHANGED db

\* The worker keeps the locks of a claim that it turns out not to end.
ClaimedByAnother(p) ==
  /\ At(p, "lock claimed")
  /\ claim[tx[p].job] \notin {NoKey, tx[p].key}
  /\ Granted(p)
  /\ IF tx[p].op = "timeout" THEN Lock(p, "next row") ELSE End(p)
  /\ UNCHANGED db

\* A variant with a fault: the claim is not looked up by its key.
LockAnyClaimed(p) ==
  /\ At(p, "lock claimed")
  /\ claim[tx[p].job] # NoKey
  /\ Granted(p)
  /\ Become(p, [tx[p] EXCEPT
       !.pc = IF tx[p].op = "timeout" THEN "next row" ELSE "commit",
       !.got = Append(@, tx[p].job),
       !.held = @ \cup Wants(p)])
  /\ UNCHANGED db

LockClaimed(p) ==
  /\ At(p, "lock claimed")
  /\ claim[tx[p].job] = tx[p].key
  /\ Granted(p)
  /\ Become(p, [tx[p] EXCEPT
       !.pc = IF tx[p].op = "timeout" THEN "next row" ELSE "commit",
       !.got = Append(@, tx[p].job),
       !.held = @ \cup Wants(p)])
  /\ UNCHANGED db

\* A variant with a fault: the job row is not deleted.
CommitCompleteKeepsJob(p) ==
  /\ At(p, "commit")
  /\ tx[p].op = "complete"
  /\ claim' = [claim EXCEPT ![tx[p].job] = NoKey]
  /\ rollouts' = [rollouts EXCEPT ![SubmissionOf[tx[p].job]] = @ + 1]
  /\ expired' = expired \ {tx[p].job}
  /\ End(p)
  /\ UNCHANGED <<submissions, jobs, ready, failed, keys, failures>>

\* DELETE of the claim and the job. A ready or failed row that still refers
\* to the job makes the flush fail.
CommitComplete(p) ==
  /\ At(p, "commit")
  /\ tx[p].op = "complete"
  /\ IF tx[p].job \in ToSet(ready) \cup failed
     THEN Raise(p) /\ UNCHANGED db
     ELSE /\ claim' = [claim EXCEPT ![tx[p].job] = NoKey]
          /\ jobs' = jobs \ {tx[p].job}
          /\ rollouts' = [rollouts EXCEPT ![SubmissionOf[tx[p].job]] = @ + 1]
          /\ expired' = expired \ {tx[p].job}
          /\ End(p)
          /\ UNCHANGED <<submissions, ready, failed, keys, failures>>

\* A variant with a fault: the timeout worker calls no create_job_failure.
CommitFailUnrecorded(p) ==
  /\ \/ At(p, "commit") /\ tx[p].op = "fail"
     \/ At(p, "next row") /\ tx[p].op = "timeout" /\ tx[p].todo = {}
  /\ LET S == ToSet(tx[p].got) IN
       /\ claim' = [j \in Jobs |-> IF j \in S THEN NoKey ELSE claim[j]]
       /\ failed' = failed \cup S
       /\ failures' = IF tx[p].op = "fail" THEN JQ!WithFailures(S) ELSE failures
       /\ expired' = expired \ S
  /\ End(p)
  /\ UNCHANGED <<submissions, jobs, ready, keys, rollouts>>

\* fail_job and create_job_failure for each job in got[p], in one commit;
\* failed_execution.job_id is unique.
CommitFail(p) ==
  /\ \/ At(p, "commit") /\ tx[p].op = "fail"
     \/ At(p, "next row") /\ tx[p].op = "timeout" /\ tx[p].todo = {}
  /\ LET S == ToSet(tx[p].got) IN
       IF S \cap failed # {}
       THEN Raise(p) /\ UNCHANGED db
       ELSE /\ claim' = [j \in Jobs |-> IF j \in S THEN NoKey ELSE claim[j]]
            /\ failed' = failed \cup S
            /\ failures' = JQ!WithFailures(S)
            /\ expired' = expired \ S
            /\ End(p)
            /\ UNCHANGED <<submissions, jobs, ready, keys, rollouts>>

\* The second and later clicks on "retry" find the job no longer failed.
NotFailed(p) ==
  /\ At(p, "read failed")
  /\ tx[p].job \notin failed
  /\ End(p)
  /\ UNCHANGED db

ReadFailed(p) ==
  /\ At(p, "read failed")
  /\ tx[p].job \in failed
  /\ Goto(p, "commit")
  /\ UNCHANGED db

\* ready_execution.job_id is unique.
CommitRetry(p) ==
  /\ At(p, "commit")
  /\ tx[p].op = "retry"
  /\ IF tx[p].job \in ToSet(ready)
     THEN Raise(p) /\ UNCHANGED db
     ELSE /\ failed' = failed \ {tx[p].job}
          /\ ready' = Append(ready, tx[p].job)
          /\ End(p)
          /\ UNCHANGED <<submissions, jobs, claim, keys, rollouts, failures,
                         expired>>
-----------------------------------------------------------------------------
(***************************************************************************)
(* timeout_claimed_jobs                                                    *)
(***************************************************************************)
\* A variant with a fault: the comparison of the ages is the wrong way round.
StartTimeoutOfYoung(p) ==
  /\ tx[p].pc = "idle"
  /\ \E j \in Jobs \ expired : claim[j] # NoKey
  /\ Become(p, [Idle EXCEPT !.op = "timeout", !.pc = "next row",
                            !.todo = {<<j, claim[j]>> :
                              j \in {i \in Jobs \ expired : claim[i] # NoKey}}])
  /\ UNCHANGED db

\* find_all_expired_claimed_executions: no lock on what it reads.
StartTimeout(p) ==
  /\ tx[p].pc = "idle"
  /\ expired # {}
  /\ Become(p, [Idle EXCEPT !.op = "timeout", !.pc = "next row",
                            !.todo = {<<j, claim[j]>> : j \in expired}])
  /\ UNCHANGED db

\* The next claim of the list, in no order that the code sets.
NextExpired(p) ==
  /\ At(p, "next row")
  /\ tx[p].op = "timeout"
  /\ \E c \in tx[p].todo :
       Become(p, [tx[p] EXCEPT !.pc = "lock job", !.job = c[1], !.key = c[2],
                               !.todo = @ \ {c}])
  /\ UNCHANGED db
-----------------------------------------------------------------------------
(***************************************************************************)
(* delete_api_key_page                                                     *)
(***************************************************************************)
StartDelete(p, k) ==
  /\ keys[k] = "live"
  /\ Begin(p, "delete", "lock api key", k, NoJob, NoTask)
  /\ UNCHANGED db

\* Another administrator has deleted the key: not found.
KeyGone(p) ==
  /\ At(p, "lock api key")
  /\ keys[tx[p].key] # "live"
  /\ End(p)
  /\ UNCHANGED db

\* A variant with a fault: the key is read without FOR UPDATE.
ReadKey(p) ==
  /\ At(p, "lock api key")
  /\ keys[tx[p].key] = "live"
  /\ Goto(p, "select claimed")
  /\ UNCHANGED db

LockKey(p) ==
  /\ At(p, "lock api key")
  /\ keys[tx[p].key] = "live"
  /\ Granted(p)
  /\ Lock(p, "select claimed")
  /\ UNCHANGED db

\* release_jobs_claimed_by_api_key_id: the rows that the FOR UPDATE sees ...
SelectClaimed(p) ==
  /\ At(p, "select claimed")
  /\ Become(p, [tx[p] EXCEPT
       !.pc = "next row",
       !.todo = {c \in Jobs \X {tx[p].key} : claim[c[1]] = c[2]}])
  /\ UNCHANGED db

\* ... are locked one by one, waiting for the transactions that have them ...
NextClaimed(p) ==
  /\ At(p, "next row")
  /\ tx[p].op = "delete"
  /\ IF tx[p].todo = {}
     THEN Goto(p, "requeue")
     ELSE \E c \in tx[p].todo :
            Become(p, [tx[p] EXCEPT !.pc = "lock released", !.job = c[1],
                                    !.todo = @ \ {c}])
  /\ UNCHANGED db

\* A variant with a fault: a claim that ended during the wait is released too.
LockReleasedUnchecked(p) ==
  /\ At(p, "lock released")
  /\ Granted(p)
  /\ Become(p, [tx[p] EXCEPT !.pc = "next row", !.got = Append(@, tx[p].job),
                            !.held = @ \cup Wants(p)])
  /\ UNCHANGED db

\* ... and left out when the wait ends with the row deleted.
LockReleased(p) ==
  /\ At(p, "lock released")
  /\ Granted(p)
  /\ Become(p, [tx[p] EXCEPT
       !.pc = "next row",
       !.got = IF Wants(p) = {} THEN @ ELSE Append(@, tx[p].job),
       !.held = @ \cup Wants(p)])
  /\ UNCHANGED db

\* INSERT INTO ready_execution: the foreign key of each row to its job, which is
\* there: whoever ends a job ends its claim first, and this request has locked it.
ReferenceReleased(p) ==
  /\ At(p, "requeue")
  /\ Unreferenced(p) # {}
  /\ Granted(p)
  /\ Lock(p, "requeue")
  /\ UNCHANGED db

\* The DELETE of the key fails when a claim that was not released refers to
\* it; ready_execution.job_id is unique.
CommitDelete(p) ==
  /\ At(p, "requeue")
  /\ Unreferenced(p) = {}
  /\ LET S == ToSet(tx[p].got) IN
       IF \/ S \cap ToSet(ready) # {}
          \/ \E j \in Jobs \ S : claim[j] = tx[p].key
       THEN Raise(p) /\ UNCHANGED db
       ELSE /\ ready' = ready \o tx[p].got
            /\ claim' = [j \in Jobs |-> IF j \in S THEN NoKey ELSE claim[j]]
            /\ keys' = [keys EXCEPT ![tx[p].key] = "deleted"]
            /\ expired' = expired \ S
            /\ End(p)
            /\ UNCHANGED <<submissions, jobs, failed, rollouts, failures>>
-----------------------------------------------------------------------------
(***************************************************************************)
(* Exceptions, crashes and deadlocks                                       *)
(***************************************************************************)
\* session.begin() rolls back on an exception that leaves the handler.
Rollback(p) ==
  /\ At(p, "raise")
  /\ End(p)
  /\ UNCHANGED db

\* The process or its connection dies: PostgreSQL rolls the transaction back.
Crash(p) ==
  /\ tx[p].pc # "idle"
  /\ End(p)
  /\ UNCHANGED db

\* Every transaction of S waits for one of S.
Deadlocked(S) == S # {} /\ \A p \in S : \E q \in S : Waits(p, q)

\* S is one cycle of waiting transactions, and nothing less.
WaitCycle(S) == Deadlocked(S) /\ \A R \in SUBSET S : Deadlocked(R) => R = S

\* PostgreSQL's deadlock detector aborts a transaction of a cycle.
DeadlockVictim(p) ==
  /\ \E S \in SUBSET Procs : p \in S /\ WaitCycle(S)
  /\ End(p)
  /\ UNCHANGED db
-----------------------------------------------------------------------------
Begins(p) ==
  \/ /\ p \in Requests
     /\ \/ \E k \in Keys, t \in Tasks : StartClaim(p, k, t)
        \/ \E op \in {"complete", "fail"}, k \in Keys, j \in Jobs :
             StartResult(p, op, k, j)
        \/ \E j \in Jobs : StartRetry(p, j)
        \/ \E k \in Keys : StartDelete(p, k)
  \/ p \in Workers /\ StartTimeout(p)

\* The steps of a transaction that has begun.
Step(p) ==
  \/ SelectNoReady(p) \/ SelectReady(p) \/ InsertClaimed(p) \/ ReferenceJob(p)
  \/ CommitClaim(p)
  \/ JobGone(p) \/ LockJob(p) \/ NotClaimed(p) \/ ClaimedByAnother(p)
  \/ LockClaimed(p) \/ CommitComplete(p) \/ CommitFail(p)
  \/ NotFailed(p) \/ ReadFailed(p) \/ CommitRetry(p)
  \/ NextExpired(p)
  \/ KeyGone(p) \/ LockKey(p) \/ SelectClaimed(p) \/ NextClaimed(p)
  \/ LockReleased(p) \/ ReferenceReleased(p) \/ CommitDelete(p)
  \/ Rollback(p)

NextWithoutCrashes ==
  \/ \E s \in Submissions : Enqueue(s)
  \/ \E k \in Keys : CreateKey(k)
  \/ \E j \in Jobs : Expire(j)
  \/ \E p \in Procs : Begins(p) \/ Step(p) \/ DeadlockVictim(p)

Next == NextWithoutCrashes \/ \E p \in Procs : Crash(p)

Spec == Init /\ [][Next]_vars
-----------------------------------------------------------------------------
(***************************************************************************)
(* Safety properties                                                       *)
(***************************************************************************)
\* A transaction is where its operation can be, and the locals that its next
\* statement uses have been set.
WellFormed(t) ==
  /\ t.pc = "idle" => t.op = "none"
  /\ t.pc \in {"select ready", "insert claimed", "reference job"} =>
       t.op = "claim"
  /\ t.pc = "lock job" => t.op \in {"complete", "fail", "retry", "timeout"}
  /\ t.pc = "lock claimed" => t.op \in {"complete", "fail", "timeout"}
  /\ t.pc = "read failed" => t.op = "retry"
  /\ t.pc \in {"lock api key", "select claimed", "lock released", "requeue"} =>
       t.op = "delete"
  /\ t.pc = "next row" => t.op \in {"timeout", "delete"}
  /\ t.pc = "commit" => t.op \in {"claim", "complete", "fail", "retry"}
  /\ t.pc \in {"insert claimed", "reference job", "lock job", "lock claimed",
               "read failed", "lock released", "commit"} => t.job \in Jobs
  /\ t.op \in {"claim", "complete", "fail", "delete"} => t.key \in Keys
  /\ t.op = "timeout" /\ t.pc \in {"lock job", "lock claimed"} => t.key \in Keys
  /\ t.op \in {"complete", "fail"} /\ t.pc \in {"lock job", "lock claimed"} =>
       t.got = <<>>
  /\ t.pc \in {"lock api key", "select claimed"} => t.got = <<>>

TypeOK ==
  /\ JQ!TypeOK
  /\ expired \subseteq {j \in Jobs : claim[j] # NoKey}
  /\ tx \in [Procs -> Transactions]
  /\ \A p \in Procs : WellFormed(tx[p])

\* No two transactions hold locks on one row that exclude each other.
LocksExclusive ==
  \A p, q \in Procs :
    p # q => \A l \in tx[p].held : \A m \in tx[q].held : ~Conflicts(l, m)

\* What a transaction has read under a lock is still so when it commits: the
\* ready row and the key of a claim ...
ClaimHolds(t) ==
  t.op = "claim" =>
    /\ t.pc \in {"insert claimed", "reference job", "commit"} =>
         /\ ForUpdate("ready", t.job) \in t.held
         /\ t.job \in ToSet(ready)
    /\ t.pc \in {"reference job", "commit"} =>
         /\ KeyShare("api_key", t.key) \in t.held
         /\ keys[t.key] = "live"
         /\ claim[t.job] = NoKey

\* ... the job and the claim that complete, fail and timeout end, the job that
\* a retry has found failed ...
ResultHolds(t) ==
  /\ \/ t.pc \in {"lock claimed", "read failed"}
     \/ t.pc = "commit" /\ t.op \in {"complete", "fail", "retry"}
     => ForUpdate("job", t.job) \in t.held /\ t.job \in jobs
  /\ t.op = "retry" /\ t.pc = "commit" => t.job \in failed
  /\ t.op \in {"complete", "fail"} /\ t.pc = "commit" =>
       t.got = <<t.job>> /\ claim[t.job] = t.key
  /\ t.op \in {"complete", "fail", "timeout"} =>
       \A n \in 1..Len(t.got) : /\ ForUpdate("job", t.got[n]) \in t.held
                                /\ ForUpdate("claimed", t.got[n]) \in t.held
                                /\ claim[t.got[n]] # NoKey

\* ... and the key that is deleted with the claims that it releases.
DeleteHolds(t) ==
  t.op = "delete" =>
    /\ t.pc \notin {"lock api key", "raise"} =>
         /\ ForUpdate("api_key", t.key) \in t.held
         /\ keys[t.key] = "live"
    /\ \A n \in 1..Len(t.got) : /\ ForUpdate("claimed", t.got[n]) \in t.held
                                /\ claim[t.got[n]] = t.key
                                /\ \A m \in 1..Len(t.got) :
                                     t.got[m] = t.got[n] => m = n
    /\ \A c \in t.todo : /\ c[2] = t.key
                          /\ \A n \in 1..Len(t.got) : t.got[n] # c[1]
    /\ t.pc = "lock released" => /\ \A n \in 1..Len(t.got) : t.got[n] # t.job
                                 /\ \A c \in t.todo : c[1] # t.job

LockedRowsStayAsRead ==
  \A p \in Procs : ClaimHolds(tx[p]) /\ ResultHolds(tx[p]) /\ DeleteHolds(tx[p])

\* A job belongs to a submission that exists.
JobsOfSubmissions == \A j \in jobs : SubmissionOf[j] \in submissions

\* Each execution row excludes the other two (see JobQueue). Neither the code
\* nor a constraint checks it across the tables: it rests on claims holding
\* the ready row and on the other operations holding the job row.
Exclusive == JQ!Exclusive

\* A claim that commits while its key is being deleted never outlives the key
\* (the lock of delete_api_key_page against the FOR KEY SHARE of the claim).
ClaimsHaveLiveKeys == JQ!ClaimsHaveLiveKeys

\* The inductive invariant: JobQueueTx_proofs proves it for all constants.
Inv ==
  /\ TypeOK
  /\ Exclusive
  /\ ClaimsHaveLiveKeys
  /\ JobsOfSubmissions
  /\ LocksExclusive
  /\ LockedRowsStayAsRead

\* Concurrent complete, fail, timeout and release of one job lose no result
\* and record none twice (complete_job and create_rollout in one commit).
ResultsConserved == JQ!ResultsConserved

\* A failed job always has its JobFailure, whether the runner or the timeout
\* worker failed it (fail_job and create_job_failure in one commit).
FailuresRecorded == JQ!FailuresRecorded

\* No exception leaves complete, fail, the deletion of a key or a pass of the
\* timeout worker: foreign keys and unique constraints never fail them. Only a
\* claim by a deleted key and a retry of a completed job may raise.
OnlyClaimAndRetryRaise ==
  \A p \in Procs : At(p, "raise") => tx[p].op \in {"claim", "retry"}

\* retry_job_page answers a retry of a job that is no longer failed with a
\* redirect (routers/job.py:40-42) and so lets no exception out.
RetryNeverRaises == \A p \in Procs : At(p, "raise") => tx[p].op # "retry"

\* Transactions wait for each other in a circle only when one of them deletes
\* a key or two of them are timeout passes: claim, complete, fail and retry,
\* and a single timeout worker, all lock in the order ready or job, claimed.
CyclesNeedDeleteOrTwoTimeouts ==
  \A S \in SUBSET Procs :
    WaitCycle(S) => \/ \E p \in S : tx[p].op = "delete"
                    \/ \E p, q \in S : /\ p # q
                                       /\ tx[p].op = "timeout"
                                       /\ tx[q].op = "timeout"

\* A claim ends only by a transaction that acts for the key that has it now,
\* or by a timeout; it never passes from one key to another in one step.
ClaimsEndByTheirKey ==
  [][\A j \in Jobs :
       claim[j] # NoKey /\ claim'[j] # claim[j] =>
         /\ claim'[j] = NoKey
         /\ \E p \in Procs : /\ j \in ToSet(tx[p].got)
                             /\ tx'[p] = Idle
                             /\ tx[p].key = claim[j] \/ tx[p].op = "timeout"]_vars

\* A request that was authenticated before its key was deleted changes nothing
\* once the deletion has committed (routers/api_key.py:101-103).
DeletedKeysChangeNothing ==
  [][\A p \in Procs :
       /\ tx[p].op \in {"claim", "complete", "fail"}
       /\ tx'[p] = Idle
       /\ claim' # claim
       => keys[tx[p].key] = "live"]_vars

\* The timeout worker fails only claims that are older than CLAIM_TIMEOUT
\* minutes (the API's guide, routers/api.py:86-87).
OnlyExpiredClaimsTimeOut ==
  [][\A p \in Procs :
       tx[p].op = "timeout" /\ failed' # failed =>
         ToSet(tx[p].got) \subseteq expired]_vars

\* Every step is a step of the atomic queue or changes none of its rows.
ImplementsJobQueue == JQ!Spec
-----------------------------------------------------------------------------
(***************************************************************************)
(* Liveness, once processes have stopped crashing                          *)
(***************************************************************************)
\* A transaction that has begun goes on: a statement that waits gets its locks
\* when they are free again and again (PostgreSQL queues waiters), and a
\* deadlock is broken. Time passes, the worker's loop begins one pass after
\* another, and for every task some runner keeps asking for a job.
Fairness ==
  /\ \A p \in Procs : SF_vars(Step(p)) /\ WF_vars(DeadlockVictim(p))
  /\ \A j \in Jobs : WF_vars(Expire(j))
  /\ \A p \in Workers : WF_vars(StartTimeout(p))
  /\ \A t \in Tasks : SF_vars(\E p \in Requests, k \in Keys : StartClaim(p, k, t))

LiveSpec == Init /\ [][NextWithoutCrashes]_vars /\ Fairness

\* A claimed job is completed, failed, released or, at last, timed out
\* (routers/api.py:86-87), whatever the other requests do, unless someone goes
\* on deleting its key for ever: the deletion and the worker can then abort
\* each other in one deadlock after another.
ClaimsEnd ==
  <>[](\A p \in Procs : tx[p].op # "delete") =>
    \A j \in Jobs : claim[j] # NoKey ~> claim[j] = NoKey

\* A ready job is claimed while runners ask for it, however often other jobs
\* of the task fail and are retried.
ReadyJobsAreClaimed ==
  \A j \in Jobs :
    j \in ToSet(ready) ~> \/ j \notin ToSet(ready)
                          \/ \A k \in Keys : keys[k] # "live"

\* Every request and every pass of the worker ends.
TransactionsEnd == \A p \in Procs : tx[p] # Idle ~> tx[p] = Idle
=============================================================================
