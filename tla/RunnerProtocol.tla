--------------------------- MODULE RunnerProtocol ---------------------------
(***************************************************************************)
(* Runners and the job API over a network that loses, delays and, through  *)
(* the runners' own retries, repeats requests. A request is a transaction  *)
(* that get_db commits when the request is over, which may be after its    *)
(* response has arrived: a runner can run, and report, a job whose claim   *)
(* is not committed, or never will be.                                     *)
(*                                                                         *)
(* Each runner has an API key of its own, which an admin may delete; one   *)
(* that is given a new key counts as a new runner. The statements of a     *)
(* transaction are in JobQueueTx; here it locks the job, and later commits *)
(* or aborts.                                                              *)
(***************************************************************************)
EXTENDS Naturals, FiniteSets

CONSTANTS Jobs,
          Runners,
          NoJob,
          NoRunner,
          Sends,     \* bound: requests that a runner sends
          InFlight   \* bound: requests on their way at a time

ASSUME RunnerProtocolAssumption ==
  /\ NoJob \notin Jobs
  /\ NoRunner \notin Runners
  /\ Sends \in Nat
  /\ InFlight \in Nat

VARIABLES keys,      \* the runners whose API keys exist
          state,     \* state[j]: the execution table that has the job
          owner,     \* owner[j]: the runner whose key has claimed it
          claims,    \* claims[j]: claims committed
          results,   \* results[j]: rollouts and failures committed
          released,  \* released[j]: claims ended by the deletion of their key
          sent,      \* requests on their way to the server
          open,      \* requests whose transaction has locked its job
          runner,    \* runner[r]: what r does, for which job, its last request
          ended      \* <<r, j>>: r runs or has run j, but its claim is over

runnerVars ==
  <<keys, state, owner, claims, results, released, sent, open, runner, ended>>

Request == [by : Runners, n : 1..Sends, op : {"claim", "complete", "fail"},
            job : Jobs \cup {NoJob}]

RunnerInit ==
  /\ keys = Runners
  /\ state = [j \in Jobs |-> "ready"]
  /\ owner = [j \in Jobs |-> NoRunner]
  /\ claims = [j \in Jobs |-> 0]
  /\ results = [j \in Jobs |-> 0]
  /\ released = [j \in Jobs |-> 0]
  /\ sent = {}
  /\ open = {}
  /\ runner = [r \in Runners |-> [at |-> "idle", job |-> NoJob, n |-> 0]]
  /\ ended = {}

\* Some transaction has locked the job: its ready row and, with a foreign key,
\* its row to claim it, its row to end a claim.
Locked(j) == \E q \in open : q.job = j

\* The runner that sent q still waits for its response.
Awaited(q) ==
  /\ runner[q.by].n = q.n
  /\ runner[q.by].at \in {"asking", "reporting"}
-----------------------------------------------------------------------------
(***************************************************************************)
(* The runner                                                              *)
(***************************************************************************)
SendRequest(r, op, j, at) ==
  LET n == runner[r].n + 1 IN
  /\ n <= Sends
  /\ Cardinality(sent) < InFlight
  /\ sent' = sent \cup {[by |-> r, n |-> n, op |-> op, job |-> j]}
  /\ runner' = [runner EXCEPT ![r] = [at |-> at, job |-> j, n |-> n]]
  /\ UNCHANGED <<keys, state, owner, claims, results, released, open, ended>>

AskForJob(r) ==
  /\ runner[r].at \in {"idle", "refused"}
  /\ SendRequest(r, "claim", NoJob, "asking")

\* It has run the job, and evaluated the policy or not.
Report(r) ==
  /\ runner[r].at = "running"
  /\ \E op \in {"complete", "fail"} : SendRequest(r, op, runner[r].job, "reporting")

\* No response, or an error: it asks again, or reports again.
GiveUp(r) ==
  /\ \/ runner[r].at = "asking" /\ runner' = [runner EXCEPT ![r].at = "idle"]
     \/ runner[r].at = "reporting" /\ runner' = [runner EXCEPT ![r].at = "running"]
  /\ UNCHANGED <<keys, state, owner, claims, results, released, sent, open, ended>>

\* A runner that restarts has forgotten the job it was running.
Restart(r) ==
  /\ runner[r].at # "idle"
  /\ runner' = [runner EXCEPT ![r].at = "idle", ![r].job = NoJob]
  /\ UNCHANGED <<keys, state, owner, claims, results, released, sent, open, ended>>

Lose(q) ==
  /\ q \in sent
  /\ sent' = sent \ {q}
  /\ UNCHANGED <<keys, state, owner, claims, results, released, open, runner, ended>>

\* The runner that waits for the response to q is now at `at', with job j.
Answer(q, at, j) ==
  /\ Awaited(q)
  /\ runner' = [runner EXCEPT ![q.by].at = at, ![q.by].job = j]

\* What it makes of a response that says yes.
Accepted(q) == Answer(q, IF q.op = "claim" THEN "running" ELSE "idle", q.job)
-----------------------------------------------------------------------------
(***************************************************************************)
(* The server                                                              *)
(***************************************************************************)
Ready == {j \in Jobs : state[j] = "ready"}

\* 401, before anything else: the key does not exist any more.
InvalidApiKey(q) ==
  /\ q \in sent /\ q.by \notin keys
  /\ sent' = sent \ {q}
  /\ \/ Answer(q, IF q.op = "claim" THEN "idle" ELSE "refused", q.job)
     \/ UNCHANGED runner
  /\ UNCHANGED <<keys, state, owner, claims, results, released, open, ended>>

\* A variant with a fault: the ready row is read without locking it.
ClaimNextUnlocked(q) ==
  /\ q \in sent /\ q.by \in keys /\ q.op = "claim"
  /\ \E j \in Ready : open' = open \cup {[q EXCEPT !.job = j]}
  /\ sent' = sent \ {q}
  /\ UNCHANGED <<keys, state, owner, claims, results, released, runner, ended>>

\* claim_next_job: FOR UPDATE SKIP LOCKED.
ClaimNext(q) ==
  /\ q \in sent /\ q.by \in keys /\ q.op = "claim"
  /\ \E j \in Ready : ~Locked(j) /\ open' = open \cup {[q EXCEPT !.job = j]}
  /\ sent' = sent \ {q}
  /\ UNCHANGED <<keys, state, owner, claims, results, released, runner, ended>>

NothingReady(q) ==
  /\ q \in sent /\ q.by \in keys /\ q.op = "claim"
  /\ \A j \in Ready : Locked(j)
  /\ sent' = sent \ {q}
  /\ Answer(q, "idle", NoJob)
  /\ UNCHANGED <<keys, state, owner, claims, results, released, open, ended>>

ClaimedBy(j, r) == state[j] = "claimed" /\ owner[j] = r

\* A variant with a fault: find_job does not lock the job.
FindJobUnlocked(q) ==
  /\ q \in sent /\ q.by \in keys /\ q.op # "claim"
  /\ sent' = sent \ {q}
  /\ IF ClaimedBy(q.job, q.by)
     THEN open' = open \cup {q} /\ UNCHANGED runner
     ELSE /\ Answer(q, "refused", q.job) \/ UNCHANGED runner
          /\ UNCHANGED open
  /\ UNCHANGED <<keys, state, owner, claims, results, released, ended>>

\* complete_job, fail_job: find_job waits for the lock of the job; then it is
\* claimed by this key, or 400 (or 404), a response that may get lost.
FindJob(q) ==
  /\ q \in sent /\ q.by \in keys /\ q.op # "claim"
  /\ ~Locked(q.job)
  /\ sent' = sent \ {q}
  /\ IF ClaimedBy(q.job, q.by)
     THEN open' = open \cup {q} /\ UNCHANGED runner
     ELSE /\ Answer(q, "refused", q.job) \/ UNCHANGED runner
          /\ UNCHANGED open
  /\ UNCHANGED <<keys, state, owner, claims, results, released, ended>>

\* The handler is done, and its response arrives before the commit. A runner
\* that is given a job has a claim to it, as far as it knows.
RespondEarly(q) ==
  /\ q \in open
  /\ Accepted(q)
  /\ ended' = IF q.op = "claim" THEN ended \ {<<q.by, q.job>>} ELSE ended
  /\ UNCHANGED <<keys, state, owner, claims, results, released, sent, open>>

CommitClaim(q) ==
  /\ q \in open /\ q.op = "claim"
  /\ open' = open \ {q}
  /\ state' = [state EXCEPT ![q.job] = "claimed"]
  /\ owner' = [owner EXCEPT ![q.job] = q.by]
  /\ claims' = [claims EXCEPT ![q.job] = @ + 1]
  /\ \/ Accepted(q) /\ ended' = ended \ {<<q.by, q.job>>}
     \/ UNCHANGED <<runner, ended>>
  /\ UNCHANGED <<keys, results, released, sent>>

\* Its claim is over, in case the runner does not get to know.
CommitResult(q) ==
  /\ q \in open /\ q.op # "claim"
  /\ open' = open \ {q}
  /\ state' = [state EXCEPT ![q.job] = IF q.op = "fail" THEN "failed" ELSE "done"]
  /\ owner' = [owner EXCEPT ![q.job] = NoRunner]
  /\ results' = [results EXCEPT ![q.job] = @ + 1]
  /\ ended' = ended \cup {<<q.by, q.job>>}
  /\ Accepted(q) \/ UNCHANGED runner
  /\ UNCHANGED <<keys, claims, released, sent>>

\* The transaction is rolled back, after or instead of its response.
AbortRequest(q) ==
  /\ q \in open
  /\ open' = open \ {q}
  /\ ended' = IF q.op = "claim" THEN ended \cup {<<q.by, q.job>>} ELSE ended
  /\ UNCHANGED <<keys, state, owner, claims, results, released, sent, runner>>

\* A variant with a fault: the worker's fail_job does not lock the job.
TimeoutUnlocked(j) ==
  /\ state[j] = "claimed"
  /\ state' = [state EXCEPT ![j] = "failed"]
  /\ owner' = [owner EXCEPT ![j] = NoRunner]
  /\ results' = [results EXCEPT ![j] = @ + 1]
  /\ ended' = ended \cup {<<owner[j], j>>}
  /\ UNCHANGED <<keys, claims, released, sent, open, runner>>

\* The worker fails a claim that is older than CLAIM_TIMEOUT.
Timeout(j) ==
  /\ state[j] = "claimed"
  /\ ~Locked(j)
  /\ state' = [state EXCEPT ![j] = "failed"]
  /\ owner' = [owner EXCEPT ![j] = NoRunner]
  /\ results' = [results EXCEPT ![j] = @ + 1]
  /\ ended' = ended \cup {<<owner[j], j>>}
  /\ UNCHANGED <<keys, claims, released, sent, open, runner>>

\* The user retries a failed job.
Retry(j) ==
  /\ state[j] = "failed"
  /\ ~Locked(j)
  /\ state' = [state EXCEPT ![j] = "ready"]
  /\ UNCHANGED <<keys, owner, claims, results, released, sent, open, runner, ended>>

Claimed(r) == {j \in Jobs : ClaimedBy(j, r)}

\* A variant with a fault: the key is deleted beside a claim that is being made.
DeleteKeyUnlocked(r) ==
  /\ r \in keys
  /\ \A j \in Claimed(r) : ~Locked(j)
  /\ keys' = keys \ {r}
  /\ state' = [j \in Jobs |-> IF j \in Claimed(r) THEN "ready" ELSE state[j]]
  /\ owner' = [j \in Jobs |-> IF j \in Claimed(r) THEN NoRunner ELSE owner[j]]
  /\ released' = [j \in Jobs |-> released[j] + (IF j \in Claimed(r) THEN 1 ELSE 0)]
  /\ ended' = ended \cup ({r} \X Claimed(r))
  /\ UNCHANGED <<claims, results, sent, open, runner>>

\* The admin deletes the key of r, whose jobs go back to the queue: it waits for
\* claims by this key, which share the lock of the key, and for the reports and
\* timeouts of what the key has claimed.
DeleteKey(r) ==
  /\ r \in keys
  /\ \A q \in open : ~(q.by = r /\ q.op = "claim")
  /\ \A j \in Claimed(r) : ~Locked(j)
  /\ keys' = keys \ {r}
  /\ state' = [j \in Jobs |-> IF j \in Claimed(r) THEN "ready" ELSE state[j]]
  /\ owner' = [j \in Jobs |-> IF j \in Claimed(r) THEN NoRunner ELSE owner[j]]
  /\ released' = [j \in Jobs |-> released[j] + (IF j \in Claimed(r) THEN 1 ELSE 0)]
  /\ ended' = ended \cup ({r} \X Claimed(r))
  /\ UNCHANGED <<claims, results, sent, open, runner>>

RunnerNext ==
  \/ \E r \in Runners :
       AskForJob(r) \/ Report(r) \/ GiveUp(r) \/ Restart(r) \/ DeleteKey(r)
  \/ \E q \in sent :
       \/ Lose(q) \/ InvalidApiKey(q)
       \/ ClaimNext(q) \/ NothingReady(q) \/ FindJob(q)
  \/ \E q \in open :
       RespondEarly(q) \/ CommitClaim(q) \/ CommitResult(q) \/ AbortRequest(q)
  \/ \E j \in Jobs : Timeout(j) \/ Retry(j)

RunnerSpec == RunnerInit /\ [][RunnerNext]_runnerVars
-----------------------------------------------------------------------------
(***************************************************************************)
(* Properties                                                              *)
(***************************************************************************)
RunnerTypeOK ==
  /\ keys \subseteq Runners
  /\ state \in [Jobs -> {"ready", "claimed", "failed", "done"}]
  /\ owner \in [Jobs -> Runners \cup {NoRunner}]
  /\ claims \in [Jobs -> Nat]
  /\ results \in [Jobs -> Nat]
  /\ released \in [Jobs -> Nat]
  /\ sent \subseteq Request
  /\ open \subseteq {q \in Request : q.job \in Jobs}
  /\ runner \in [Runners -> [at : {"idle", "asking", "running", "reporting",
                                   "refused"},
                             job : Jobs \cup {NoJob}, n : 0..Sends]]
  /\ ended \subseteq Runners \X Jobs

\* A runner's report is refused only when its claim is over: timed out, ended
\* by an earlier report of its own, released with its key, or never committed. A
\* report that overtakes the commit of its claim waits for it (complete_job,
\* fail_job), and so does the deletion of the key.
RefusedReportsNeedACause ==
  \A r \in Runners :
    runner[r].at = "refused" => <<r, runner[r].job>> \in ended

\* Two runners never run the same job, unless the claim of one is over and it
\* does not know: early responses give no job to two runners (claim_next_job).
RunsOverlapOnlyOnceEnded ==
  \A r, s \in Runners :
    LET j == runner[r].job IN
    /\ r # s
    /\ runner[r].at = "running" /\ runner[s].at = "running"
    /\ j = runner[s].job
    => <<r, j>> \in ended \/ <<s, j>> \in ended

\* A runner whose claim holds is neither refused nor doubled: lost, repeated and
\* early messages harm nobody until a claim is over.
OnlyEndedClaimsGoWrong == RefusedReportsNeedACause /\ RunsOverlapOnlyOnceEnded

\* Every claim that is over has left one result or has gone back to the queue
\* with the deletion of its key, never both, whatever requests were lost,
\* repeated or delayed into the next claim of the same job.
OneResultForEachClaim ==
  \A j \in Jobs :
    claims[j] = results[j] + released[j] + (IF state[j] = "claimed" THEN 1 ELSE 0)
=============================================================================
