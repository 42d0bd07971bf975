# OpenArm Online: a TLA+ model

OpenArm Online lets people submit robot policies, has runners evaluate them as
jobs, records the results and lets browsers teleoperate a robot. This directory
holds TLA+ modules of its web application (`src/app`), the TLC configurations
that check them on small instances, and theorems that TLAPS proves for all
instances.

## The system

The application is a FastAPI server in front of PostgreSQL. Requests run in a
thread pool; each is one transaction at READ COMMITTED (`deps.get_db`). A
deployment runs several processes. Every process also runs a timeout worker. The
clients are browsers (pages, keyboard and WebXR teleoperation) and runners
(programs next to a robot, authenticated by an API key).

| Component | State | Operations | Interacts with |
|---|---|---|---|
| Job queue (`job_queue.py`) | `job`, `ready_execution`, `claimed_execution`, `failed_execution` rows | enqueue, claim, complete, fail, retry, release | submissions, API keys, rollouts, job failures, by row locks and foreign keys |
| Timeout worker (`scheduler.py`) | none of its own | a pass over the expired claims every `CLAIM_TIMEOUT_CHECK_INTERVAL` | calls `fail_job` in one transaction |
| API keys (`routers/api_key.py`) | `api_key` rows | create, delete (requeues the key's claims), authenticate | job queue |
| Tasks (`routers/task.py`, `update_tasks.py`) | `task` rows | create, update (some fields are locked once there are submissions), delete | submissions, offers |
| WebRTC signaling (`routers/teleoperation.py`, `routers/api.py`, `static/webxr/signal.js`) | `webrtc_offer`, `webrtc_answer` rows, the polling page | offer (deletes stale ones), list, answer, claim the answer | browsers, runners, task deletion |
| Runner protocol (`routers/api.py`, `deps.py`) | requests and responses on their way | ask for a job, report its result, retry, restart | job queue |
| Keyboard client (`static/keyboard`) | keys held, peer connection | key and focus events, connect | signaling |
| WebXR client (`static/webxr`) | XR session, connections, two buttons | click, session start and end, connection lost | signaling |
| TURN credentials (`turn.py`) | a cached response per process | get | Cloudflare, teleoperation pages |
| Login (`routers/login.py`, `crud.py`) | user, organization and membership rows | OAuth callback | GitHub |
| Access control (`deps.py`, `settings.py`) | allow lists, stored accounts, tokens | checks before handlers | all pages |
| Leaderboard and rollouts (`crud.py`, `routers/rollout.py`) | none | paged, read-only lists | rollout rows |
| Users, uploads (`s3.py`) | none | a list; presign a URL | rows of the others, S3 |

What is hard in it is concurrency: handlers and workers of several processes change
the same rows, requests are lost and repeated, a response may arrive before its
commit, events of a browser come in any order, and copies of things (a credential,
an account, a form) are used after they have changed. `PROJECT.json` lists the
hazards by source line. What makes each component correct:

* Job queue: a job is in exactly one of three tables that no constraint relates;
  each claim ends once, by its key or by a timeout; results are neither lost nor
  doubled; aborts and crashes leave no half-done operation; claims end and ready
  jobs are claimed in the end.
* Timeout worker: it fails expired claims and only those, and each leaves a
  failure record.
* API keys: after its deletion a key owns and changes nothing, and a deletion
  succeeds whatever its runner is doing.
* Tasks: an edit changes no field that submissions have been made for, a
  submission has a task, and the rule on `reset_docker_tag` holds in the stored row.
* Signaling: an offer gets at most one answer, an answer that was accepted can be
  claimed by the browser that waits for it, runners are told what is so, stale
  offers go away, attempts end.
* Runner protocol: whatever is lost or repeated, each claim leaves one result or
  goes back to the queue, and two runners do not run one job.
* Keyboard page: the robot is not told that a released key is held.
* WebXR page: no session runs on without its connection; a click leads on.
* TURN: credentials handed out live long enough to set up a connection.
* Login: memberships are what GitHub said last; logins fail only in known races.
* Access control: rights rest on an account at most a day old, and only admins
  reach robots.
* Result pages: nothing that was there is left out without a reason.

## Modules

| Module | What it is |
|---|---|
| `JobQueue` | The abstract specification of the queue: one atomic step per operation on the rows. |
| `JobQueueTx` | The queue as it runs: transactions, statement by statement, with row locks, waits, aborts, deadlocks and crashes. Composes the job queue, the timeout worker and the API keys. It is checked to implement `JobQueue`. |
| `JobQueue_proofs` | Theorems about the atomic queue: exclusive tables, results, failures. |
| `JobQueueTx_proofs` | Types, row locks, the inductive invariant of `JobQueueTx` and what follows from it. |
| `JobQueueTxSteps_proofs` | What each step does to the queue: what raises, deadlocks, ends a claim; the refinement of `JobQueue`, and what it hands down. |
| `SequenceLemmas` | Lemmas on sequences and their elements, for the three of them. |
| `RowLocks` | PostgreSQL's row locks and which exclude each other, for the modules below. |
| `Mailbox` | The abstract specification of signaling: an offer is open, is written to at most once, and is closed. |
| `Signaling` | Offers, answers, claims, cleanup and the deletion of the task, statement by statement, with the polling page and the runners. It is checked to implement `Mailbox`. |
| `TaskEdit` | One task under overlapping edits, scripts, deletions and submissions. |
| `RunnerProtocol` | Runners over a network that loses, delays and repeats; responses before commits; keys that are deleted. |
| `Login` | Callbacks of GitHub, from its answers to the rows of users, organizations and memberships. |
| `AccessControl` | Admin lists, stored accounts, tokens, and the way of an offer through the checks of teleoperation. |
| `TurnCache` | The threads of a process over the cached credential, and the pages that carry it. |
| `KeyboardTeleop`, `WebXRSession` | The scripts of the two teleoperation pages. |
| `ResultPages` | The leaderboard and the lists of rollouts, paged while results are committed. |
| `Signaling_proofs`, `Login_proofs` | The inductive invariants of these; the refinement of `Mailbox`; both side by side. |
| `Services_proofs` | Access control, tasks, result pages and runners, and the components of `MCServices` side by side. |
| `Teleoperation_proofs` | The two teleoperation pages and the TURN credentials. |
| `MC...` | Instances for TLC. `MCParts`, `MCTransactions` and `MCServices` check several modules each, `MCConnections` signaling under fairness. |

### How `JobQueueTx` corresponds to the code

`tx[p]` is the transaction of a *process*: a request slot (`Requests`) or a
timeout worker (`Workers`). Its `pc` names the next statement; `key`, `job` and
`task` are the handler's locals; `got` lists the claimed rows that it will end
(one for complete and fail, several for a worker's pass or a released key);
`todo` the rows that a loop has still to visit; `held` its row locks.

* **Statements.** A step is a statement that locks, waits, or reads what is used
  later. Statements that only touch rows that the transaction has locked are
  merged with the next such point. A statement reads the rows committed when it
  runs. `Wants` gives the locks that it takes, `Granted` says that it need not
  wait.
* **Locks.** `FOR UPDATE` excludes everything on a row; the `FOR KEY SHARE` that
  PostgreSQL takes on the rows a new row refers to excludes only `FOR UPDATE`
  (and `DELETE`). A claim refers to its key and then its job, in the order in
  which the migration declares the foreign keys. `SKIP LOCKED` never waits.
* **Commit.** What a transaction writes becomes visible at its commit, so the
  `Commit...` actions carry the writes of the whole handler, the rollout or the
  failure record included. The failures that the database would raise are in
  them too: unique `job_id`s, foreign keys, and the rows that SQLAlchemy cannot
  detach from a deleted job. They go to `Raise`. For an exception the handler
  catches, the step ends the transaction directly.
* **Aborts.** `Rollback` (an exception leaves the handler), `Crash` (process or
  connection lost) and `DeadlockVictim` (PostgreSQL breaks a cycle of waits) drop
  the locks and write nothing.
* **Order of ready rows.** `ready` is in the order of commits. Row ids are drawn
  at the insert, a little earlier; two concurrent inserts may swap.
* **Time** is one action, `Expire(j)`: a claim has become older than
  `CLAIM_TIMEOUT`. The worker reads what is expired at that moment.
* **Failure counts** stop at `MaxFailures`; nothing reads them but properties.
* The owner check of a retry and the admin check of a deletion are left out: they
  only refuse. A task id that does not exist is a task with no ready job.
* **Variants.** Definitions under "a variant with a fault", here and in the other
  modules, are no part of any specification. Put in the place of the definition
  that follows them, each makes a property fail, which shows that the property
  depends on that code.

### How the other modules correspond to the code

**`Signaling`** models the rows of one task and one kind of teleoperation.
`offer[o]` and `answer[o]` are the rows, `tx[p]` the one request that a client has
in flight; statements, locks and commits are as in `JobQueueTx`. `StartPost` to
`CommitPost` are `create_webrtc_offer` with its cleanup
(`crud.delete_stale_webrtc_offers`). `Poll` is one turn of `fetchAnswer`: the
handler finds the offer, reads its task and the answer in later statements, and
goes on to delete both rows. `ListOffers` and the answer's statements are the two
runner handlers, and `StartDeleteTask` is what `delete_task_page` does to offers
and answers.

* *Order of rows.* A `DELETE` goes through its rows one by one, waiting at each for
  whoever has locked it, in an order that the SQL does not say: `NextRows` allows
  every order, and another one in each request.
* *Responses.* Each of the three `POST`s may be answered before its commit
  (`EarlyResponse`, `EarlyAnswer`, `EarlyCreated`; `deps.py:45`), and the commit may
  then fail with the process: `lost` are the 201s to which that has happened.
* *Time.* `Tick` lets offers grow older than `WEBRTC_OFFER_TTL` and pages wake up.
  A page counts its sleeps (`polls`), up to `Polls`, and not what its requests
  take; `late` is the time that passes during those. The offer's clock starts with
  the transaction of the post, the page's with its first sleep.

`accepted`, `taken`, `refused`, `created` and `lost` are history.

**`TaskEdit`** has the row of a task with the columns that matter, the ids of its
submissions and one transaction per slot. An edit reads the row, checks the lock
and writes; SQLAlchemy writes the columns that differ from what was *read*
(`Dirty`), the script those that it was given. The jobs of a submission are in
`JobQueueTx`, the offers of a task in `Signaling`.

**`RunnerProtocol`** sees a request as a message, then as a transaction that has
locked a job (`open`), then as a commit or abort. The response to a request comes
with the commit or before it (`RespondEarly`): `get_db` commits when the
dependency exits (`deps.py:45`), which the pinned FastAPI does after the response.
`DeleteKey` is the deletion of a runner's API key, which requeues its claims
(`routers/api_key.py:97-105`) and waits for claims by the key; requests that arrive
after it are answered with 401 (`InvalidApiKey`).
`ended` records claims that are over without their runner's knowledge.

**`Login`** begins where GitHub redirects to the callback. The user and the
organizations are two requests of GitHub, and GitHub may change between them. The
session then reads rows, and what it has found out is a set of statements of each
kind (`todo`: rows to update and to insert, memberships to remove and to add).
`Precedes` is the order in which it sends them, as SQLAlchemy's unit of work does:
changes of rows before new ones, removals before additions, organizations in the
order of the answer. It waits for rows that others have written. Assumed: GitHub
lists organizations in one order for everybody. Whether a session inserts
organizations before a new user is not fixed by the mapping, so it is a constant
unknown (`orgsFirst`).

**`AccessControl`** makes a login one step and adds what `Login` leaves out: time,
tokens, logouts, restarts with other lists, and teleoperation. A login stores all of
GitHub's answer, only the login name when the organizations request fails
(`login.py:117-137`: the old memberships stay), or nothing when its commit fails
after the response; it hands out a token in each case. `since[u]` says for how long
the stored name and organizations of `u` have differed from GitHub's. An offer is
posted, listed by a runner, which is told the task's runtime with it, answered, and
claimed in two steps: the check of user and task (`CheckClaim`), and the later
statement that reads the answer (`TakeAnswer`). `moved[u]` records that an admin has
changed the runtime since the listing or during the claim.

**`TurnCache`**: `now` is the clock that a request has read once, `cache` the pair
that threads read and replace without a lock. `Delay` bounds a request, `Setup`
how long a page needs to connect.

**`KeyboardTeleop`**: keys are pressed (`down`) and heard of (`held`) under names
that depend on Shift; `told` is what the robot knows, `slipped` the names whose keys
came up without the page hearing them go by those names. **`WebXRSession`**: `phase`
is how far the promises of a click have come, `link` the peer connection, which may
die at any time and whose close event comes later (`Noticed`); `session` is the
browser's, `running` the script's idea of it; `parted` is how the script lost its
last connection.

**`ResultPages`**: a walk opens the pages of a list one after the other; counting,
reading and the statistics are statements of their own. Ids of rollouts are drawn
at the insert and become visible at the commit, in any order. What a page shows is
said by rank: a row is on it if the number of rows before it is.

## Runs

All runs are exhaustive on their instance.

| Run | Instance | Question |
|---|---|---|
| `QueueCore` | 1 job, 2 keys, 2 requests, 1 worker | Consistency under all interleavings of three transactions on one job, with crashes; refinement of `JobQueue` |
| `QueueDeadlocks` | 2 jobs, 1 key, 2 requests, 1 worker | The inductive invariant with transactions that hold several rows; which lock cycles exist |
| `QueueTimeouts` | 2 jobs, 1 key, 1 request, 2 workers | Two workers over the same claims: every failed job has its record |
| `QueueLiveness` | 1 job, 1 key, 2 requests, 1 worker, fair | Claims end, transactions end |
| `QueueFairness` | 3 jobs, 2 tasks, 1 key, 1 request, fair | No ready job is starved |
| `QueueStaleTimeout` | 1 job, 1 key, 1 request, 1 worker | *violated*: a young claim can be timed out |
| `QueueRetryRace` | 1 job, 1 key, 2 requests | *violated*: a retry can raise |
| `FrozenView` | `WebXRSession`: 1 connection | *violated*: a session can start after its connection is lost |
| `Parts` | `JobQueue`: 3 jobs, 2 submissions, 2 keys. `WebXRSession`, fair: 2 connections | Does the promise itself keep jobs in one table and conserve results? Where does the WebXR page leave its operator, and does a dead node end the session? |
| `Transactions` | `Signaling`: 2 offers, 2 polls, three of 2 browsers and 2 runners, crashes. `Login`: 2 callbacks, 2 users, 2 organizations, 1 change | Is what a runner is told of its answer true? Is signaling a set of mailboxes? When do logins fail, and whose memberships are stored? |
| `Connections` | `Signaling`, fair: 2 offers, 2 polls, 1 browser, with 1 runner and 1 admin or with 2 admins | Are offers answered, do attempts end? Which deletions can block each other? |
| `Services` | `TaskEdit`: 2 slots, 1 submission, 2 names. `RunnerProtocol`: 1 job, 2 runners, 3 requests each, 2 on their way. `AccessControl`: 1 user, 2 names, 1 organization. `TurnCache`: 2 threads, 1 page. `KeyboardTeleop`: 4 keys (two Shifts, a letter, a digit), chords. `ResultPages`: 2 submissions, 3 rollouts, pages of 1 | The safety properties of each under its interleavings |

**Several components in one run.** `Parts`, `Transactions` and `Services` check
components that share no rows. A variable `part`, chosen initially, says which
component takes all the steps of a behaviour; the others stay in their initial
states, where no action for which fairness is asked is enabled. So the states of a
run are the sum of the components' states, and each component's behaviours are those
of its own specification.

**Bounds.** The hazards of one job need at most three transactions at once: two
that compete and one that uses what the first has left behind. A slot runs any
number of transactions, so a history is unbounded in length. Two keys are needed
for a claim to pass from one runner to another, two jobs for a transaction to
hold several rows and for the two halves of a lock cycle. `MaxFailures` is the
number of jobs, so the count tells whether every failed job has left a record.
Symmetry (over keys, slots, workers, clients) is used in safety runs only.

In the other modules, too, hazards are between two: two edits, two runners, two
threads, two logins with a deadlock over two organizations, an old and a new
connection. The second offer of `Signaling` lets a page post again while its first
offer is cleaned up. `Polls` is 2, so that a page polls again after a 204, and `Ttl`
is 1: a page's naps just fit the life of its offer, and one slow request makes it
stale. In a behaviour of `Transactions` three of the four clients make requests
(`active`): two browsers that clean up each other's offers with a runner, or two
runners that answer one offer. In `Connections` the instance with two
administrators, who delete two offers each, is for the safety property, since the
fairness of the absent runner leaves only behaviours in which the offers are
deleted. Three requests per runner (`Sends`) are a claim, its report, and a repeated
report that arrives in the next claim of the job, while one of the other runner is
on its way (`InFlight` is 2). `Browsers` is 2: a user may have a token of a login
that stored nothing beside one that did. `Day` is 1, the least that tells a token
that expires from one that does not; `HalfTtl` 4, `Delay` 2 and `Setup` 1 let a
credential be fresh, used and expired, and `MaxTime` ends the clock when the first
credential and its replacement have gone through that. One change at GitHub is a
rename or a change of membership between two logins; deadlocks of different users
need two, and are the theorem's. Two names and one organization are what a rename
and a membership need. Three rollouts are one that is seen, one that overtakes and
one that is pushed to the next page, each page holding one.

**Deadlock check.** It is off in the runs of `JobQueueTx`: a system whose keys
are all deleted and whose jobs are done has nothing left to do. Transactions that
wait for each other do not escape: `CyclesNeedDeleteOrTwoTimeouts` and
`TransactionsEnd` are about them. It is off in `Transactions`, `Connections` and
`Services` for the same reason: offers, requests, rollouts and the clock are used up
in the end. `CyclesNeedACause`, `AttemptsEnd` and `ErrorsNeedARace` are about
waiting. In `FrozenView` an operator may close the page.

**Fairness.** `Step(p)` is strongly fair: a waiting statement competes for its
lock with others, and PostgreSQL serves waiters in a queue. Breaking a deadlock
and the passing of time are weakly fair. A worker is weakly fair in beginning a
pass, being an endless loop (`scheduler.py:54-60`). Runners keep asking for jobs
of every task; that is an assumption on them, strongly fair since all slots can
be busy. Liveness is checked without crashes, which can undo any progress. Even
so `ClaimsEnd` needs that deletions stop: a deletion and a worker's pass can be
each other's deadlock victim again and again.

In `Signaling`, time is weakly fair, the requests of a client are strongly fair
(they compete for locks), and a page polls while it is open. A runner lists offers
in a loop and is assumed to get to each offer in turn: strong fairness for each
offer (`SignalingFairness`). No crashes, as above. In `WebXRSession` the browser
delivers the events that it owes: a lost connection is noticed and an ended session
is reported (`SessionFairness`). Nothing makes the user click.

## What the passing runs say about the last modules

* `RunnersAreToldTheTruth`: 201 means that the answer is there, or will be with a
  commit that only a crash can prevent; it then waits for the page as long as the
  page's naps and its slow requests together fit the time to live, or until the task
  is deleted. `settings.py:90-92` leaves 60 of 120 seconds for the requests; when
  they take longer, the answer is lost in the code too. 409 means that there is
  nothing to retry. The 409 also stands for a deleted offer, whose foreign key fails
  (`routers/api.py:357-362`).
* `ErrorsNeedARace`, `QuietMembershipsAreAnswers`: a login fails only if another one
  has committed one of its rows meanwhile, or if it deadlocks with a session to
  which that has happened. Sessions that nobody has raced lock in one order. One
  that was raced may not: an organization that it is to insert is there by now and
  has been renamed, so that a third session changes it, *before* it inserts one that
  the raced session has inserted. It takes two changes at GitHub, one more than the
  run has; the theorem covers it. If the logins of a user never overlap, the
  memberships are those of the last answer; if they do, a mixture may stay, or one
  of them fails to delete a membership that the other has deleted.
* `DeletionsAreOrderly`: deletions lock answers, offers and the task in that order,
  and nothing is left that refers to a deleted row. They wait in a circle in two
  ways. An answer is committed between the two `DELETE`s of a request that goes on
  to delete its offer, and fails on it. Or two cleanups or deletions of the task,
  which delete several rows each, have locked rows of each other in one table: the
  statements (`crud.py:225-226`, `crud.py:379-382`) have no order. PostgreSQL aborts
  one of them, and its client gets an error. A claim, and whoever answers, is never
  the cause.
* `LockedEditsKeepFields`, `RuleBreaksOnlyByOverlap`: an edit that saw submissions
  writes no locked field. The check is not held (`routers/task.py:156-159`), so an
  edit that saw none may still commit after the first submission. Two overlapping
  edits can together leave an OpenArm Cell task without `reset_docker_tag`
  (`models.py:123-124` checks the form, `crud.py:198` writes columns), and nothing
  else can.
* `OnlyEndedClaimsGoWrong`, `OneResultForEachClaim`: early responses are harmless to
  the queue, since a report waits for the commit of its claim. Only a claim that
  was aborted after its response, timed out, released with its key or ended by a
  lost report goes wrong. A claim ends with one rollout or failure, or goes back to
  the queue with its key without either. That claims do end is `ClaimsEnd`.
* `ReleasedKeysAreUp`: the robot can be left holding a key that is up. Press 1, then
  Shift, release 1: the robot hears that `!` is up while 1 stays held
  (`keyboard/teleoperation.js:42-46`); or release a key while Ctrl is pressed. The
  property says that this happens in these two ways only, and lasts until the next
  blur, the loss of the connection or the next press of that name; reconnecting,
  two Shifts and keys pressed in other windows leave nothing behind.
  `UnfocusedPageHoldsNothing` holds in any case: leaving the page releases everything.
* `OperatorsAreSeldomStuck`: a session that started with a connection never runs on
  without one. One that started without (`FrozenView`) did so because the loss came
  while the browser was asked for the mode or the session, or because "Start" stays
  enabled after a session's end, which closes the connection (`ar.js:114-124`). The
  same end is the only way to a page on which no click leads to a connection:
  "Connect" stays disabled.
* `PromptPagesAreSetUp` is about pages that connect while the credential has its
  guaranteed half left. A page that idles longer than that (`turn.py:45-47`) may
  hold an expired one.
* `AccessIsADayOldAtMost`: who has a token is checked by a name and organizations
  that are out of date by a day at most, if the login of the token has stored them.
  A login that gets no organizations from GitHub hands out a token all the same
  (`login.py:133-137`), so that a user whose organizations request fails day after
  day keeps the rights of an organization that he has left.
* `OnlyAdminsReachRobots`: the offer that anybody may post for a simulation is
  checked again when its answer is claimed, so that nobody gets to a robot by having
  posted early. The check looks at the task as it is at the claim and not at what the
  runner started for the offer; an admin who moves the task after the runner has
  listed the offer, or between the check and the answer, opens a way around it
  (`teleoperation.py:137-150`).
* `PagesShowWhatWasThere`: a walk misses a rollout only if one with a smaller id
  was committed late, and a submission only if results arrived meanwhile.

## What the violated runs say

* `QueueStaleTimeout`. The worker reads an expired claim; the runner fails the
  job, the owner retries it and the same runner claims it again; the worker locks
  the job, finds a claim by the same key and fails it, though it is new
  (`scheduler.py:28-37`; promise in `routers/api.py:86-87`).
* `QueueRetryRace`. Between the unlocked `find_job` of the page and the locked one
  in `retry_job` the job is completed, and gone. `JobNotFoundError` is not caught
  (`routers/job.py:40-42`).
* `FrozenView`. The operator clicks "Start"; while the browser asks for permission the
  node is lost; the session starts and nothing reaches the robot. The close handler
  has no running session to end, and `onSessionStart` does not look at the
  connection (`ar.js:277`; promise in `ar.js:86-87`).

## Proofs

TLAPS proves every safety invariant and action property that a passing run checks,
and both refinements, for all values of the constants that satisfy the modules'
assumptions. Each proof rests on an inductive invariant, which says what the
property leaves unsaid: which locks an operation holds at which statement, and
that what was read under them is still true.

### The queue

For any sets of jobs, submissions, tasks, keys, requests and workers that satisfy
`JobQueueTxAssumption` (batches partition the jobs, null values are no ids, slots
of requests and workers are distinct):

| Theorem | States |
|---|---|
| `TypeCorrect` | `Spec => []TypeOK`. Besides types, `WellFormed` says that each transaction is at a statement of its operation with its locals set. |
| `LocksAreExclusive` | `Spec => []LocksExclusive`. A statement adds only locks that are free (`StepLocks`), every other step leaves locks or drops them. |
| `InvariantHolds` | `Spec => []Inv` |
| `JobsInOneTable`, `ClaimsOutliveNoKey`, `ReadsStayTrue` | `Spec => []Exclusive`, `[]ClaimsHaveLiveKeys`, `[]LockedRowsStayAsRead` |
| `OnlyClaimAndRetryMayRaise` | `Spec => []OnlyClaimAndRetryRaise` |
| `CyclesOfDeletesOrTimeouts` | `Spec => []CyclesNeedDeleteOrTwoTimeouts` |
| `ClaimsEndByTheirOwnKey`, `DeletedKeysDoNothing` | `Spec => ClaimsEndByTheirKey`, `Spec => DeletedKeysChangeNothing` |
| `QueueIsAtomic` | `Spec => ImplementsJobQueue` |
| `ResultsAreConserved`, `FailuresAreRecorded` | `Spec => []ResultsConserved`, `Spec => []FailuresRecorded` |
| `OneTableForEachJob`, `NoResultIsLost`, `NoFailureIsForgotten` | of the atomic queue: `[]Exclusive`, `[]ResultsConserved`, `[]FailuresRecorded` |

**Rows and reads.** `Exclusive` is not inductive: a claim commits by moving a job
out of `ready`, and nothing in the rows says that the job is still there or that
nobody else has moved it. What says it are the locks and what was read under them,
so `Inv` adds to the rows the exclusion of locks and `LockedRowsStayAsRead`: the
transaction that is about to commit holds the lock and what it has read is still
true. The argument has three parts.

1. `Undisturbed`: a step destroys only rows that its transaction has locked for
   update (`Protected`). Locks exclude each other, so what any other transaction
   relies on stays true.
2. `StepHolds`: what a transaction begins to rely on, it has just locked and read.
3. The lemmas `...Writes`: a commit writes to rows that its transaction relies on,
   so it keeps a job in one table and a claim with a live key. An enqueued job is
   new because jobs belong to existing submissions (`JobsOfSubmissions`).

**Steps.** A second invariant, `StepInv`, says which locks each operation has at
which statement, and that a deletion has found every claim of its key: a new claim
would have to refer to the key, which the deletion has locked. So a deletion
leaves no claim that would raise. For deadlocks, `WaitsForJob` says that without
deletions whoever waits waits for a job, and `OnlyTimeoutsBetween` that whoever
both waits and is waited for is a worker's pass, the only one to hold one job and
want the next. Two of them, or a deletion, are in every circle.

**Refinement.** Under `Inv` and `StepInv` each commit is a step of `JobQueue`
(`CommitMaps`), and all other steps leave its variables alone. What is proved of the
atomic queue then holds of the transactions: `JobQueueTxSteps_proofs` instantiates
`JobQueue_proofs`, shows that both copies of the library's operators are the same
(`SameNext`), and cites `NoResultIsLost` and `NoFailureIsForgotten`. Those count by
submission: a job completes once because its claim is then gone, and a batch is
submitted once.

The proofs go from operators to steps: lemmas on sequences (`SequenceLemmas`), on
`Wants` case by case, one lemma for each way in which a step writes a transaction's
record (`Become`, `End`, `Goto`, `Raise`, `Lock`), then one case or lemma for each
action.

### Signaling

`Invariance` (`SignalingSpec => []SInv`), `TypeCorrect`, `RunnersToldTheTruth`,
`OrderlyDeletions` and `RowsAreMailboxes` (`SignalingSpec => ImplementsMailbox`), for
any offers, browsers, runners, administrators, numbers of polls and times to live.
`SInv` has a part for each kind of request: a runner that is about to commit holds
the answer's row and the offer's key share, so that its answer is the only one and
its offer is there, and a 201 that it is given early will hold (`RunnerFormed`,
`InsertsFirst`); a deletion that has checked the foreign key deletes an answer with
each answered offer and no other (`DeletesBoth`); a claim is of the answer that was
accepted. `PageFits` ties a page to its request, which may outlive the response, and
bounds the age of its offer by its naps and slow requests; so a cleanup cannot take
the answer before (`AcceptedAnswersStay`). `CyclesHaveACause`: if no member of a
circle fails for a late answer, each is at one of its `DELETE`s; one that deletes a
single row waits between two others that hold rows of the tables it wants, and those
delete several. For `Mailbox`, statements are stutters, and commits and early
responses its steps.

### Logins

`LoginInvariant` (`LoginSpec => [](LInv /\ LoginTypeOK)`), `ErrorsNeedARaceAlways`,
`QuietMembershipsAreAnswersAlways`, for any callbacks, users, finite sets of
organizations and numbers of changes. `LInv` says of each session what it has sent
and has to send (`Stage`), what of the rows that it has read is still so as long as
nobody has raced it (`ReadRows`, `ReadMemberships`), and that it has written what
comes first (`Ordered`).

* A statement breaks a constraint only in a raced session (`BrokenNeedsARace`):
  otherwise the row to insert is not there and the memberships are as read.
* No circle of waiting consists of unraced sessions (`CirclesNeedARace`). Kind by
  kind, nobody in it waits to send a statement of that kind: additions, removals,
  a new user's row, organizations to insert, organizations to update, a user's own
  row. If somebody waited for an organization, one would wait for the largest
  (`LastOrg`); whoever has written that waits for a larger one, or to send a kind
  that is already excluded.
* `QuietMembershipsAreAnswers` needs that a user without overlapping logins has one
  session (`OneLoginIfQuiet`), and that its membership difference is still right.

The first form of `ErrorsNeedARace` said that a deadlock's victim was raced itself
by a login of the same user. The proof did not go through: sessions of different
users can deadlock, as described above, and the statement is now the true one.

### Tasks, result pages, access, runners

| Theorem | States | Assumptions |
|---|---|---|
| `DeletionsAreCleanAlways` | `TaskSpec => []DeletionsAreClean` | any requests, submissions, columns' values |
| `LockedEditsKeepFieldsAlways`, `RuleBreaksOnlyByOverlapAlways` | `TaskSpec => LockedEditsKeepFields`, `TaskSpec => RuleBreaksOnlyByOverlap` | the same |
| `PagesShowWhatWasThereAlways` | `ResultsSpec => []PagesShowWhatWasThere` | any numbers of rollouts, sizes of pages |
| `ResultsMoveTheRankingAlways` | `ResultsSpec => ResultsMoveTheRanking` | the same |
| `AccessIsADayOldAtMostAlways` | `AccessSpec => []AccessIsADayOldAtMost` | `Day \in Nat` |
| `OnlyAdminsReachRobotsAlways` | `AccessSpec => []OnlyAdminsReachRobots` | any users, lists |
| `OneResultForEachClaimAlways`, `OnlyEndedClaimsGoWrongAlways` | `RunnerSpec => []OneResultForEachClaim`, `RunnerSpec => []OnlyEndedClaimsGoWrong` | any jobs, runners, `Sends` |

* Tasks (`TaskInvariant`): a transaction holds the lock of its operation at its
  commit and none before (`Shaped`); locks that do not exclude each other are those
  of an edit and of submissions, so a deletion commits alone and with no submission
  (`CommitsAgree`, `Knows`). An edit writes what differs between the row that it has
  read and a valid form (`EditsWhatDiffers`): if what it has read is still there, the
  result is the form, which obeys the rule.
* Result pages (`PagesInvariant`): a rollout that was there has been seen, has been
  overtaken by a smaller id, or has as many rows before it as the pages that were
  read hold, so it is still to come (`RolloutsSoFar`). What was
  counted is no less than what was there, so the last page is not missed. For the
  leaderboard the same holds as long as no result has come in.
* Access control: `YoungerThanTokens` bounds the age of an account by the age of
  *every* token that its login has stored something with, which is what survives
  both time and logins; the property itself says nothing of a token's age and is not
  inductive. For robots (`RobotInv`): what a runner serves is the task's runtime
  unless that was moved, and a claim under way at a robot found an admin.
* Runner protocol: `OneResultForEachClaim` alone does not say that a result is
  committed for a job that is still claimed, which `JobsLockedOnce` and
  `FoundStaysTrue` do, as in `JobQueueTx`: what was found under a lock stays true.
  `OnlyEndedClaimsGoWrong` needs in addition that who is busy with a job has a
  claim, is about to have one, or its claim is over (`BusyWithAClaim`), and that a
  response that somebody waits for is about that job (`AwaitedIsLast`); and, for the
  deletion of keys, that claims and requests under way have a key (`ClaimsHaveAKey`,
  `RequestsHaveAKey`).

### Teleoperation

| Theorem | States | Assumptions |
|---|---|---|
| `UnfocusedPageHoldsNothingAlways` | `KeyboardSpec => []UnfocusedPageHoldsNothing` | none on names or chords |
| `PageShowsWhatIsToldAlways` | what the robot holds is among what the page shows | none |
| `ReleasedKeysAreUpAlways` | `KeyboardSpec => []ReleasedKeysAreUp` | none |
| `FrozenViewsHaveACauseAlways`, `PagesLeadOnAlways`, `OperatorsAreSeldomStuckAlways` | `SessionSpec => []OperatorsAreSeldomStuck` | any number of connections |
| `ServedLastAlways`, `PromptPagesAreSetUpAlways` | `TurnSpec => []PromptPagesAreSetUp` | `Delay < HalfTtl` |

* Keyboard: what the robot was told is a subset of what the script holds, which is
  empty without the focus. For `ReleasedKeysAreUp` the invariant is that each told
  name is one that a pressed key was heard by, or has slipped (`ToldWasHeard`).
* WebXR: `FrozenInv` says that without a connection nothing leads to a session
  (a running one, an enabled "Start", a question to the browser) unless a loss has
  overtaken an answer or a session has ended; `LeadsInv` that whatever ends a click
  or disables a button enables one.
* TURN: `ServedLast` says of every credential, wherever it is (minted, cached,
  about to be served), that it lives for half a lifetime from when its request has
  read the clock. Threads may overwrite each other's caches in any order.

### Components side by side

`PartsAreComponents` and `TransactionsAreComponents`: the specifications of
`MCServices` and `MCTransactions` imply those of each of their components, so what
is proved of a component holds of the instance that TLC checks, its `TypeOK`
included (`ServicesTypesCorrect`, `TransactionsTypesCorrect`).

### Only model-checked

All liveness properties (`ClaimsEnd`, `TransactionsEnd`, `ReadyJobsAreClaimed`,
`OffersAreAnswered`, `AttemptsEnd`, `FrozenViewsEnd`): liveness under fairness and
`ENABLED` are out of the prover's reach. The three violated properties are
counterexamples, which TLC finds. Nothing is proved by
induction over data, which the provers cannot do: what needs an order or a
count is said with cardinalities and well-founded relations instead of recursion.

## Not modelled

* API keys: the uniqueness of names (one insert against one index, its error caught
  in the same handler) and the list of keys.
* WebXR: frames, panels, calibration and stereo rendering. They are sent or drawn
  once and change nothing that another handler reads.
* `is_submission_allowed`, a check of the form of `is_admin` with lists of its own
  (empty lists mean everybody), and the lower case of names, which `settings.py`
  and `deps.py` both apply: neither depends on any order of events.
* The user pages, in the way of the lists of `ResultPages`.
* Upload URLs: a pure function of its arguments and the configuration.
* Start-up (wiring; the worker that it starts is in `JobQueueTx`), running
  migrations (what they create is modelled where it acts), command line scripts
  other than `create_tasks.py` and `update_tasks.py`, Terraform and proxies.

## Plan

1. `Login` against `AccessControl`: that overlapping callbacks implement its atomic
   login, as far as they do.
2. Proofs: the refinement that `Login` would give, and the action properties of
   signaling that follow from `Invariance` (no answer is overwritten).
