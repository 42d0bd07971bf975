----------------------------- MODULE Signaling -----------------------------
(***************************************************************************)
(* WebRTC signaling for the teleoperation pages of one task and kind.      *)
(* Browsers post an offer and poll for its answer, runners list the offers *)
(* without an answer and answer them, administrators delete the task. The  *)
(* rows webrtc_offer and webrtc_answer are all they share.                 *)
(*                                                                         *)
(* Each client has one request in flight, a transaction as in JobQueueTx:  *)
(* a step is a statement that locks, waits or reads what is used later;    *)
(* writes take effect at the commit.                                       *)
(***************************************************************************)
EXTENDS Naturals, FiniteSets, FiniteSetsExt, RowLocks

CONSTANTS Offers,    \* ids of webrtc_offer rows, drawn in this order
          Browsers,
          Runners,
          Admins,
          NoOffer,   \* no offer
          NoRunner,  \* no webrtc_answer row; an sdp is named by its runner
          Polls,     \* polls of fetchAnswer, one unit of time apart
          Ttl        \* WEBRTC_OFFER_TTL in the same unit

ASSUME SignalingAssumption ==
  /\ Offers \subseteq Nat
  /\ NoOffer \notin Offers
  /\ NoRunner \notin Runners
  /\ Polls \in Nat \ {0}
  /\ Ttl \in Nat \ {0}
  /\ Browsers \cap Runners = {}
  /\ (Browsers \cup Runners) \cap Admins = {}

VARIABLES task,      \* is the task row there?
          offer,     \* offer[o]: has the row been created, deleted?
          age,       \* age[o]: time since created_at, up to Ttl + 1
          answer,    \* answer[o]: the runner whose answer row o has
          browser,   \* browser[b]: where the page's connect() is
          tx,        \* tx[p]: the request of client p
          accepted,  \* accepted[o]: the runner whose answer was committed
          taken,     \* taken[o]: the answers that a response has carried
          refused,   \* the offers for which a runner was told 409
          created,   \* <<o, r>>: runner r was told 201 for its answer to o
          lost       \* <<o, r>>: ... and the process died before its commit

db == <<task, offer, age, answer, accepted, taken, refused, created, lost>>
signalingVars ==
  <<task, offer, age, answer, browser, tx, accepted, taken, refused, created, lost>>

Clients == Browsers \cup Runners \cup Admins
Live == {o \in Offers : offer[o] = "live"}
Stale == {o \in Live : age[o] > Ttl}
Answered == {o \in Offers : answer[o] # NoRunner}
-----------------------------------------------------------------------------
(***************************************************************************)
(* Row locks and transactions                                              *)
(***************************************************************************)
Locks == {"task", "offer", "answer"} \X (Offers \cup {NoOffer})
           \X {"update", "key share"}

Ops == {"none", "post", "claim", "answer", "delete task"}

PCs == {"idle", "find offer", "delete answers", "delete offers",
        "check answers", "reference task", "insert answer", "reference offer",
        "load offers", "lock task", "commit", "raise"}

Requests ==
  [op : Ops, pc : PCs, offer : Offers \cup {NoOffer},
   sdp : Runners \cup {NoRunner}, doomed : SUBSET Offers,
   todo : SUBSET Offers, row : Offers \cup {NoOffer}, held : SUBSET Locks]

Idle == [op |-> "none", pc |-> "idle", offer |-> NoOffer, sdp |-> NoRunner,
         doomed |-> {}, todo |-> {}, row |-> NoOffer, held |-> {}]

At(p, pc) == tx[p].pc = pc
Become(p, t) == tx' = [tx EXCEPT ![p] = t]
End(p) == Become(p, Idle)
Goto(p, pc) == Become(p, [tx[p] EXCEPT !.pc = pc])

\* The task row has the id NoOffer in its locks: there is only one.
TaskRow == NoOffer

\* The rows of a table that p has locked to delete them.
Deleted(p, table) == {o \in Offers : ForUpdate(table, o) \in tx[p].held}

\* Answers that the deletion of their offers by p would leave behind.
Orphans(p) == (Answered \cap Deleted(p, "offer")) \ Deleted(p, "answer")

\* The rows that a DELETE which has todo left may visit next: it says nothing
\* of their order, and two of them need not go through a table alike.
NextRows(todo) == IF todo = {} THEN {NoOffer} ELSE todo

AnswerLock(o) == {ForUpdate("answer", i) : i \in Answered \cap {o}}
OfferLock(o) == {ForUpdate("offer", i) : i \in Live \cap {o}}

\* A variant with a fault: claim_webrtc_answer locks its offer to begin with.
RowLockOfferFirst(p) ==
  IF At(p, "delete answers") = (tx[p].op = "claim")
  THEN OfferLock(tx[p].row) ELSE AnswerLock(tx[p].row)

RowLock(p) ==
  IF At(p, "delete answers") THEN AnswerLock(tx[p].row) ELSE OfferLock(tx[p].row)

\* The locks that the next statement of p takes; none when the row is gone.
Wants(p) ==
  CASE At(p, "delete answers") \/ At(p, "delete offers") ->
         RowLock(p)
    [] At(p, "check answers") /\ Orphans(p) # {} ->
         {KeyShare("answer", Min(Orphans(p)))}
    [] At(p, "reference task") /\ task = "live" -> {KeyShare("task", TaskRow)}
    [] At(p, "lock task") /\ task = "live" -> {ForUpdate("task", TaskRow)}
    [] At(p, "insert answer") -> {ForUpdate("answer", tx[p].offer)}
    [] At(p, "reference offer") ->
         {KeyShare("offer", o) : o \in Live \cap {tx[p].offer}}
    [] OTHER -> {}

Waits(p, q) == p # q /\ \E l \in Wants(p) : \E m \in tx[q].held : Conflicts(l, m)

Granted(p) == \A q \in Clients : ~Waits(p, q)

Lock(p, pc) == Become(p, [tx[p] EXCEPT !.pc = pc, !.held = @ \cup Wants(p)])
-----------------------------------------------------------------------------
\* A page that does not connect, as it has not begun or has failed.
Off == [state |-> "idle", offer |-> NoOffer, polls |-> 0, late |-> 0]

SignalingInit ==
  /\ task = "live"
  /\ offer = [o \in Offers |-> "none"]
  /\ age = [o \in Offers |-> 0]
  /\ answer = [o \in Offers |-> NoRunner]
  /\ browser = [b \in Browsers |-> Off]
  /\ tx = [p \in Clients |-> Idle]
  /\ accepted = [o \in Offers |-> NoRunner]
  /\ taken = [o \in Offers |-> {}]
  /\ refused = {}
  /\ created = {}
  /\ lost = {}

\* One unit of time more, as far as it matters.
Older(n) == IF n <= Ttl THEN n + 1 ELSE n

\* Ids that a page was told before the row was committed.
Promised == {tx[b].offer : b \in {c \in Browsers : tx[c].op = "post"}}

OlderOffers ==
  [o \in Offers |-> IF o \in Live \cup Promised THEN Older(age[o]) ELSE age[o]]

\* The pages after a unit of time: one that sleeps between two polls wakes up or
\* gives up, as more says of the number of times it has slept, and one that
\* waits for a response is late.
LaterPages(more(_)) ==
  [b \in Browsers |->
     LET s == browser[b] IN
     CASE s.state = "asleep" /\ more(s.polls + 1) ->
            [s EXCEPT !.state = "awake", !.polls = @ + 1]
       [] s.state = "asleep" /\ ~more(s.polls + 1) -> Off
       [] s.state \in {"posting", "awake", "asking", "claiming"} ->
            [s EXCEPT !.late = Older(@)]
       [] OTHER -> s]

\* A variant with a fault: the page polls once more than it should.
TickPollsOnceMore ==
  /\ age' = OlderOffers
  /\ browser' = LaterPages(LAMBDA n : n <= Polls)
  /\ age' # age \/ browser' # browser
  /\ UNCHANGED <<task, offer, answer, tx, accepted, taken, refused, created, lost>>

\* Time passes. A page gives up once it has slept Polls times: it does not look
\* at a clock, and the time that its requests take comes on top of that.
Tick ==
  /\ age' = OlderOffers
  /\ browser' = LaterPages(LAMBDA n : n < Polls)
  /\ age' # age \/ browser' # browser
  /\ UNCHANGED <<task, offer, answer, tx, accepted, taken, refused, created, lost>>

\* The page of b is in state s from now on.
Page(b, s) == browser' = [browser EXCEPT ![b].state = s]

Fail(b) == browser' = [browser EXCEPT ![b] = Off]
-----------------------------------------------------------------------------
(***************************************************************************)
(* Deleting offers: the statements that create_webrtc_offer (of the stale  *)
(* offers), claim_webrtc_answer (of the offer) and delete_task_page (of    *)
(* all offers) have in common.                                             *)
(***************************************************************************)
\* The first DELETE begins: it sees the answers that are committed now.
BeginDelete(p, op, o, doomed) ==
  /\ At(p, "idle")
  /\ \E row \in NextRows(Answered \cap doomed) :
       Become(p, [Idle EXCEPT !.op = op, !.pc = "delete answers", !.offer = o,
                              !.sdp = IF op = "claim" THEN answer[o] ELSE NoRunner,
                              !.doomed = doomed, !.todo = Answered \cap doomed,
                              !.row = row])

\* A DELETE is done with a row, having waited for whoever had locked it.
DeleteRow(p) ==
  /\ At(p, "delete answers") \/ At(p, "delete offers")
  /\ tx[p].todo # {}
  /\ Granted(p)
  /\ \E row \in NextRows(tx[p].todo \ {tx[p].row}) :
       Become(p, [tx[p] EXCEPT !.held = @ \cup Wants(p), !.row = row,
                               !.todo = @ \ {tx[p].row}])
  /\ UNCHANGED <<db, browser>>

\* The DELETE of the offers begins: it has a snapshot of its own.
DeleteOffers(p) ==
  /\ At(p, "delete answers")
  /\ tx[p].todo = {}
  /\ \E row \in NextRows(tx[p].doomed \cap Live) :
       Become(p, [tx[p] EXCEPT !.pc = "delete offers", !.row = row,
                               !.todo = tx[p].doomed \cap Live])
  /\ UNCHANGED <<db, browser>>

OffersDeleted(p) ==
  /\ At(p, "delete offers")
  /\ tx[p].todo = {}
  /\ Goto(p, "check answers")
  /\ UNCHANGED <<db, browser>>

\* What each request does after its deletions.
Proceed(p) ==
  Goto(p, IF tx[p].op = "post" THEN "reference task"
          ELSE IF tx[p].op = "delete task" THEN "load offers" ELSE "commit")

\* A variant with a fault: webrtc_answer.offer_id is no foreign key.
CheckNothing(p) ==
  /\ At(p, "check answers")
  /\ Proceed(p)
  /\ UNCHANGED <<db, browser>>

\* The foreign key of webrtc_answer: no deleted offer has an answer ...
CheckAnswers(p) ==
  /\ At(p, "check answers")
  /\ Orphans(p) = {}
  /\ Proceed(p)
  /\ UNCHANGED <<db, browser>>

\* ... or the statement fails, once an answer that is being deleted has stayed.
AnswerLeft(p) ==
  /\ At(p, "check answers")
  /\ Orphans(p) # {}
  /\ Granted(p)
  /\ Goto(p, "raise")
  /\ UNCHANGED <<db, browser>>

\* What the commit of p does to the two tables; new is the offer it has added.
DeleteRows(p, new) ==
  /\ offer' = [o \in Offers |-> IF o \in Deleted(p, "offer") THEN "gone"
                                ELSE IF o \in new THEN "live" ELSE offer[o]]
  /\ answer' = [o \in Offers |-> IF o \in Deleted(p, "answer") THEN NoRunner
                                 ELSE answer[o]]
-----------------------------------------------------------------------------
(***************************************************************************)
(* The browser: postOffer, fetchAnswer                                     *)
(***************************************************************************)
\* Ids of the sequence that no row, no request and no page has.
FreeIds == {o \in Offers : offer[o] = "none"}
             \ (Promised \cup {browser[b].offer : b \in Browsers})

NextId == Min(FreeIds)

\* The bound of the model: there is an id left for another offer, and so there
\* is one for each page that is posting.
IdLeft ==
  Cardinality({b \in Browsers : browser[b].state = "posting"}) < Cardinality(FreeIds)

\* A variant with a fault: the cleanup does not look at the age of an offer.
StartPostDeletesAll(b) ==
  /\ IdLeft
  /\ browser[b].state = "idle"
  /\ task = "live"
  /\ BeginDelete(b, "post", NoOffer, Live)
  /\ Page(b, "posting")
  /\ UNCHANGED db

\* connect(), again after it has failed. The handler has found the task.
StartPost(b) ==
  /\ IdLeft
  /\ browser[b].state = "idle"
  /\ task = "live"
  /\ BeginDelete(b, "post", NoOffer, Stale)
  /\ Page(b, "posting")
  /\ UNCHANGED db

\* INSERT INTO webrtc_offer and its foreign key to the task.
ReferenceTask(b) ==
  /\ At(b, "reference task")
  /\ Granted(b)
  /\ IF task = "live" THEN Lock(b, "commit") ELSE Goto(b, "raise")
  /\ UNCHANGED <<db, browser>>

\* The page is told the id, for which created_at is the time at which its
\* transaction began: the page has been waiting since then.
Promise(b) ==
  /\ FreeIds # {}
  /\ age' = [age EXCEPT ![NextId] = browser[b].late]
  /\ browser' = [browser EXCEPT ![b].state = "awake", ![b].offer = NextId]

\* get_db commits when the request is over, and the response may arrive first.
EarlyResponse(b) ==
  /\ At(b, "commit")
  /\ tx[b].op = "post"
  /\ tx[b].offer = NoOffer
  /\ Promise(b)
  /\ Become(b, [tx[b] EXCEPT !.offer = NextId])
  /\ UNCHANGED <<task, offer, answer, accepted, taken, refused, created, lost>>

\* The response can get lost: the page fails, the offer stays.
CommitPost(b) ==
  /\ At(b, "commit")
  /\ tx[b].op = "post"
  /\ IF tx[b].offer = NoOffer
     THEN /\ DeleteRows(b, {NextId})
          /\ \/ Promise(b)
             \/ /\ FreeIds # {}
                /\ age' = [age EXCEPT ![NextId] = browser[b].late]
                /\ Fail(b)
     ELSE DeleteRows(b, {tx[b].offer}) /\ UNCHANGED <<age, browser>>
  /\ End(b)
  /\ UNCHANGED <<task, accepted, taken, refused, created, lost>>

\* A variant with a fault: the page takes a 404 for "not yet" and asks again.
OfferGoneIgnored(b) ==
  /\ browser[b].state = "awake"
  /\ browser[b].offer \notin Live
  /\ Page(b, "awake")
  /\ UNCHANGED <<db, tx>>

\* claim_webrtc_answer finds no offer: 404, and the page fails.
OfferGone(b) ==
  /\ browser[b].state = "awake"
  /\ browser[b].offer \notin Live
  /\ Fail(b)
  /\ UNCHANGED <<db, tx>>

\* It finds the offer, and reads the task and the answer in later statements.
FindItsOffer(b) ==
  /\ browser[b].state = "awake"
  /\ browser[b].offer \in Live
  /\ Page(b, "asking")
  /\ UNCHANGED <<db, tx>>

\* The offer has lost its task since: an error.
TaskGone(b) ==
  /\ browser[b].state = "asking"
  /\ task = "gone"
  /\ Fail(b)
  /\ UNCHANGED <<db, tx>>

\* 204: no answer yet, or no more, as the offer may be gone by now.
NoAnswer(b) ==
  /\ browser[b].state = "asking"
  /\ browser[b].offer \notin Answered
  /\ Page(b, "asleep")
  /\ UNCHANGED <<db, tx>>

\* There is an answer: the handler goes on to delete both rows.
StartClaim(b) ==
  /\ browser[b].state = "asking"
  /\ browser[b].offer \in Answered
  /\ BeginDelete(b, "claim", browser[b].offer, {browser[b].offer})
  /\ Page(b, "claiming")
  /\ UNCHANGED db

\* The response carries the answer to the page.
GiveAnswer(b) ==
  /\ taken' = [taken EXCEPT ![tx[b].offer] = @ \cup {tx[b].sdp}]
  /\ browser' = [browser EXCEPT ![b] = [Off EXCEPT !.state = "connected"]]

\* It may do so while the deletions have yet to be committed.
EarlyAnswer(b) ==
  /\ At(b, "commit")
  /\ browser[b].state = "claiming"
  /\ GiveAnswer(b)
  /\ UNCHANGED <<task, offer, age, answer, accepted, refused, created, lost, tx>>

\* The rows are gone, whether the response arrives or gets lost.
CommitClaim(b) ==
  /\ At(b, "commit")
  /\ tx[b].op = "claim"
  /\ DeleteRows(b, {})
  /\ \/ browser[b].state = "claiming" /\ GiveAnswer(b)
     \/ browser[b].state = "claiming" /\ Fail(b) /\ UNCHANGED taken
     \/ browser[b].state = "connected" /\ UNCHANGED <<browser, taken>>
  /\ End(b)
  /\ UNCHANGED <<task, age, accepted, refused, created, lost>>
-----------------------------------------------------------------------------
(***************************************************************************)
(* The runner: api_get_pending_webrtc_offers, api_create_webrtc_answer     *)
(***************************************************************************)
\* The runner lists the offers without an answer and begins to answer one.
ListOffers(r) ==
  /\ At(r, "idle")
  /\ \E o \in Live \ Answered :
       Become(r, [Idle EXCEPT !.op = "answer", !.pc = "find offer",
                              !.offer = o, !.sdp = r])
  /\ UNCHANGED <<db, browser>>

\* Its answer arrives: 404 unless the offer is there.
FindOffer(r) ==
  /\ At(r, "find offer")
  /\ IF tx[r].offer \in Live THEN Goto(r, "insert answer") ELSE End(r)
  /\ UNCHANGED <<db, browser>>

\* A variant with a fault: no unique index, the first answer is overwritten.
InsertSecondAnswer(r) ==
  /\ At(r, "insert answer")
  /\ Goto(r, "reference offer")
  /\ UNCHANGED <<db, browser>>

\* INSERT INTO webrtc_answer: the unique index on offer_id waits for whoever
\* is inserting or deleting the answer of this offer.
InsertAnswer(r) ==
  /\ At(r, "insert answer")
  /\ Granted(r)
  /\ tx[r].offer \notin Answered
  /\ Lock(r, "reference offer")
  /\ UNCHANGED <<db, browser>>

\* Any IntegrityError is answered with 409.
Refuse(r) ==
  /\ refused' = refused \cup {tx[r].offer}
  /\ End(r)
  /\ UNCHANGED <<task, offer, age, answer, accepted, taken, created, lost, browser>>

\* A variant with a fault: an answer that is being inserted counts as one.
AlreadyAnsweredUncommitted(r) ==
  /\ At(r, "insert answer")
  /\ ~Granted(r)
  /\ Refuse(r)

AlreadyAnswered(r) ==
  /\ At(r, "insert answer")
  /\ Granted(r)
  /\ tx[r].offer \in Answered
  /\ Refuse(r)

\* The foreign key to the offer, which another request may have deleted.
ReferenceOffer(r) ==
  /\ At(r, "reference offer")
  /\ Granted(r)
  /\ tx[r].offer \in Live
  /\ Lock(r, "commit")
  /\ UNCHANGED <<db, browser>>

\* A variant with a fault: only the unique index's error is caught.
OfferDeletedRaises(r) ==
  /\ At(r, "reference offer")
  /\ Granted(r)
  /\ tx[r].offer \notin Live
  /\ Goto(r, "raise")
  /\ UNCHANGED <<db, browser>>

OfferDeleted(r) ==
  /\ At(r, "reference offer")
  /\ Granted(r)
  /\ tx[r].offer \notin Live
  /\ Refuse(r)

\* A variant with a fault: the answer is not committed.
CommitNoAnswer(r) ==
  /\ At(r, "commit")
  /\ tx[r].op = "answer"
  /\ End(r)
  /\ UNCHANGED <<db, browser>>

\* 201, which may arrive before the commit.
EarlyCreated(r) ==
  /\ At(r, "commit")
  /\ tx[r].op = "answer"
  /\ created' = created \cup {<<tx[r].offer, r>>}
  /\ UNCHANGED <<task, offer, age, answer, accepted, taken, refused, lost, browser, tx>>

CommitAnswer(r) ==
  /\ At(r, "commit")
  /\ tx[r].op = "answer"
  /\ answer' = [answer EXCEPT ![tx[r].offer] = r]
  /\ accepted' = [accepted EXCEPT ![tx[r].offer] = r]
  /\ created' = created \cup {<<tx[r].offer, r>>}
  /\ End(r)
  /\ UNCHANGED <<task, offer, age, taken, refused, lost, browser>>
-----------------------------------------------------------------------------
(***************************************************************************)
(* delete_task_page of a task without submissions                          *)
(***************************************************************************)
StartDeleteTask(a) ==
  /\ task = "live"
  /\ BeginDelete(a, "delete task", NoOffer, Live)
  /\ UNCHANGED <<db, browser>>

\* session.delete(task) loads the offers that are there by now, to set their
\* task_id to NULL, which the column does not allow.
LoadOffers(a) ==
  /\ At(a, "load offers")
  /\ Goto(a, IF Live \subseteq Deleted(a, "offer") THEN "lock task" ELSE "raise")
  /\ UNCHANGED <<db, browser>>

\* DELETE FROM task: the foreign keys of offers are checked.
LockTask(a) ==
  /\ At(a, "lock task")
  /\ Granted(a)
  /\ IF Live \subseteq Deleted(a, "offer") THEN Lock(a, "commit")
     ELSE Goto(a, "raise")
  /\ UNCHANGED <<db, browser>>

CommitDeleteTask(a) ==
  /\ At(a, "commit")
  /\ tx[a].op = "delete task"
  /\ DeleteRows(a, {})
  /\ task' = "gone"
  /\ End(a)
  /\ UNCHANGED <<age, browser, accepted, taken, refused, created, lost>>
-----------------------------------------------------------------------------
\* The request of p ends with an error, and the page that waits for it fails.
Abort(p) ==
  /\ End(p)
  /\ IF p \in Browsers /\ browser[p].state \in {"posting", "claiming"}
     THEN Fail(p) ELSE UNCHANGED browser
  /\ UNCHANGED <<task, offer, age, answer, accepted, taken, refused, created>>

Rollback(p) == At(p, "raise") /\ Abort(p) /\ UNCHANGED lost

\* The process or its connection to the database is lost. Nothing takes back
\* a response that has arrived.
Crash(p) ==
  /\ tx[p].pc \notin {"idle", "raise"}
  /\ Abort(p)
  /\ lost' = lost \cup (IF At(p, "commit") THEN created \cap {<<tx[p].offer, p>>} ELSE {})

\* So it may be while the handler only reads.
PollFails(b) ==
  /\ browser[b].state = "asking"
  /\ Fail(b)
  /\ UNCHANGED <<db, tx>>

Cycles == WaitCycles(Clients, {e \in Clients \X Clients : Waits(e[1], e[2])})

\* PostgreSQL's deadlock detector aborts a request of a cycle.
DeadlockVictim(p) ==
  /\ ~Granted(p)
  /\ \E C \in Cycles : p \in C
  /\ Goto(p, "raise")
  /\ UNCHANGED <<db, browser>>

Delete(p) ==
  \/ DeleteRow(p) \/ DeleteOffers(p) \/ OffersDeleted(p)
  \/ CheckAnswers(p) \/ AnswerLeft(p)

Respond(p) ==
  \/ Delete(p) \/ Rollback(p) \/ DeadlockVictim(p)
  \/ /\ p \in Browsers
     /\ \/ ReferenceTask(p) \/ EarlyResponse(p) \/ CommitPost(p)
        \/ EarlyAnswer(p) \/ CommitClaim(p)
  \/ /\ p \in Runners
     /\ \/ FindOffer(p) \/ InsertAnswer(p) \/ AlreadyAnswered(p)
        \/ ReferenceOffer(p) \/ OfferDeleted(p) \/ EarlyCreated(p) \/ CommitAnswer(p)
  \/ /\ p \in Admins
     /\ LoadOffers(p) \/ LockTask(p) \/ CommitDeleteTask(p)

Poll(b) ==
  OfferGone(b) \/ FindItsOffer(b) \/ TaskGone(b) \/ NoAnswer(b) \/ StartClaim(b)

SignalingNext ==
  \/ Tick
  \/ \E b \in Browsers : StartPost(b) \/ Poll(b) \/ PollFails(b)
  \/ \E r \in Runners : ListOffers(r)
  \/ \E a \in Admins : StartDeleteTask(a)
  \/ \E p \in Clients : Respond(p) \/ Crash(p)

SignalingSpec == SignalingInit /\ [][SignalingNext]_signalingVars
-----------------------------------------------------------------------------
(***************************************************************************)
(* Properties                                                              *)
(***************************************************************************)
SignalingTypeOK ==
  /\ task \in {"live", "gone"}
  /\ offer \in [Offers -> {"none", "live", "gone"}]
  /\ age \in [Offers -> 0..(Ttl + 1)]
  /\ answer \in [Offers -> Runners \cup {NoRunner}]
  /\ browser \in [Browsers ->
       [state : {"idle", "posting", "awake", "asking", "asleep", "claiming",
                 "connected"},
        offer : Offers \cup {NoOffer}, polls : 0..Polls, late : 0..(Ttl + 1)]]
  /\ tx \in [Clients -> Requests]
  /\ accepted \in [Offers -> Runners \cup {NoRunner}]
  /\ taken \in [Offers -> SUBSET Runners]
  /\ refused \subseteq Offers
  /\ created \subseteq Offers \X Runners
  /\ lost \subseteq created

\* The page waits for an answer to its offer (fetchAnswer).
Waiting(b) == browser[b].state \in {"awake", "asking", "asleep", "claiming"}

\* An answer that was accepted stays until the page that waits for it claims
\* it, whatever other pages and runners do meanwhile, for as long as the page
\* polls. WEBRTC_OFFER_TTL counts from the beginning of the request that posts
\* the offer, so that all of the page's requests together may take what the
\* time to live leaves over the Polls - 1 naps before its last poll. Only the
\* deletion of the task takes the answer away before.
AcceptedAnswersStay ==
  \A b \in Browsers :
    LET o == browser[b].offer IN
    /\ Waiting(b) /\ accepted[o] # NoRunner /\ task = "live"
    /\ Polls - 1 + browser[b].late <= Ttl
    => answer[o] = accepted[o]

\* A runner that was told 201 has answered the offer, or is about to with its
\* commit, which nothing but a crash of the process prevents: the rows, the
\* unique index and the foreign key are settled when the response leaves.
CreatedAnswersAreAccepted ==
  \A o \in Offers, r \in Runners :
    <<o, r>> \in created \ lost =>
      \/ accepted[o] = r
      \/ At(r, "commit") /\ tx[r].op = "answer" /\ tx[r].offer = o

\* Rows refer to rows that exist, and nothing of a claimed or cleaned offer is
\* left behind, though each deletion is several statements that others
\* interleave with.
RowsReferToRows ==
  /\ Answered \subseteq Live
  /\ Live # {} => task = "live"

\* A runner that is refused with 409 has missed its chance for good: the offer
\* has an answer or is gone, so it need not try again.
RefusedOffersAreOver ==
  \A o \in refused : accepted[o] # NoRunner \/ offer[o] = "gone"

\* A runner is never answered with a 500, nor is it in a deadlock, whatever
\* happens to the offer under its answer.
RunnersNeverRaise == \A r \in Runners : ~At(r, "raise")

\* What a runner is told of its answer holds: 201, it waits for the page; 409,
\* there is nothing to retry; and it is told one of these, or 404.
RunnersAreToldTheTruth ==
  /\ CreatedAnswersAreAccepted /\ AcceptedAnswersStay
  /\ RefusedOffersAreOver /\ RunnersNeverRaise

\* p deletes several rows with one statement.
DeletesSeveral(p) == \E i, j \in tx[p].doomed : i # j

\* Deletions lock answers before offers before the task. They wait in a circle
\* in two ways only: over an answer that was committed between a cleanup's or
\* a task deletion's two DELETEs; or because two of those, for a DELETE without
\* an order, have locked rows of each other in one table. A claim deletes one
\* answer and one offer, and is not the cause of a deadlock.
CyclesNeedACause ==
  \A C \in Cycles :
    \/ \E p \in C : At(p, "check answers") /\ Orphans(p) # {}
    \/ \E p, q \in C : p # q /\ DeletesSeveral(p) /\ DeletesSeveral(q)

\* The deletions, which are several statements each, leave no row without the
\* one it refers to and block each other in known ways only.
DeletionsAreOrderly == RowsReferToRows /\ CyclesNeedACause

\* Every step on the rows is a step of the mailboxes.
Boxes == INSTANCE Mailbox WITH
           box <- [o \in Offers |-> IF offer[o] = "none" THEN "none"
                                    ELSE IF o \in Live THEN "open" ELSE "closed"],
           writer <- accepted

ImplementsMailbox == Boxes!Spec
-----------------------------------------------------------------------------
(***************************************************************************)
(* Liveness, without crashes                                               *)
(***************************************************************************)
FaultFree ==
  \/ Tick
  \/ \E b \in Browsers : StartPost(b) \/ Poll(b)
  \/ \E r \in Runners : ListOffers(r)
  \/ \E a \in Admins : StartDeleteTask(a)
  \/ \E p \in Clients : Respond(p)

\* Requests run on and deadlocks are broken, time passes, an open page
\* polls; a runner keeps listing the offers and gets to each of them in turn.
SignalingFairness ==
  /\ WF_signalingVars(Tick)
  /\ \A b \in Browsers : SF_signalingVars(Respond(b))
  /\ \A p \in Runners \cup Admins : WF_signalingVars(Respond(p))
  /\ \A b \in Browsers : WF_signalingVars(Poll(b))
  /\ \A r \in Runners, o \in Offers : SF_signalingVars(ListOffers(r) /\ tx'[r].offer = o)

SignalingFairSpec == SignalingInit /\ [][FaultFree]_signalingVars /\ SignalingFairness

\* Every offer gets its answer, unless it is deleted first.
OffersAreAnswered ==
  \A o \in Offers :
    offer[o] = "live" ~> (accepted[o] # NoRunner \/ offer[o] = "gone")

\* Every attempt to connect comes to an end: neither waits for locks nor the
\* polling keep a page waiting forever.
AttemptsEnd ==
  \A b \in Browsers :
    browser[b].state = "posting" ~> browser[b].state \in {"connected", "idle"}
=============================================================================
