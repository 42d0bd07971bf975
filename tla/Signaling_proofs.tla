-------------------------- MODULE Signaling_proofs --------------------------
(***************************************************************************)
(* Proofs about Signaling for any offers, browsers, runners, admins and    *)
(* polls: what runners are told holds, deletions leave no row behind and   *)
(* deadlock in known ways only, and the rows implement Mailbox.            *)
(***************************************************************************)
EXTENDS Signaling, WellFoundedInduction, TLAPS

\* The rows of a table that a request t has locked to delete, or insert, them.
Has(t, table) == {o \in Offers : ForUpdate(table, o) \in t.held}

\* A request of client p by itself: which ops reach which statements, with
\* which locks.
Formed(p, t) ==
  /\ t.op = "none" <=> t.pc = "idle"
  /\ t.op = "none" => t.held = {} /\ t.offer = NoOffer
  /\ t.op \in {"post", "claim"} => p \in Browsers
  /\ t.op = "delete task" => p \in Admins
  /\ t.pc \in {"find offer", "insert answer", "reference offer"} => t.op = "answer"
  /\ t.pc = "reference task" => t.op = "post"
  /\ t.pc \in {"load offers", "lock task"} => t.op = "delete task"
  /\ t.op = "claim" => /\ t.offer \in Offers /\ t.doomed = {t.offer}
                       /\ t.sdp \in Runners

\* The request of a runner: it holds the answer that it has inserted and, in
\* the end, the offer that the answer refers to.
RunnerFormed(p, t) ==
  t.op = "answer" =>
    /\ p \in Runners /\ t.sdp = p /\ t.offer \in Offers
    /\ t.pc \in {"find offer", "insert answer", "reference offer", "commit"}
    /\ t.pc \in {"find offer", "insert answer"} => t.held = {}
    /\ t.pc = "reference offer" => t.held = {ForUpdate("answer", t.offer)}
    /\ t.pc = "commit" => t.held = {ForUpdate("answer", t.offer),
                                    KeyShare("offer", t.offer)}

\* The request of a browser or an administrator, which deletes: its locks are
\* of doomed rows, and of the task in the end. A DELETE is at one of the rows
\* that it has to do.
DeleterFormed(t) ==
  t.op # "answer" =>
    /\ t.todo \subseteq t.doomed
    /\ \A l \in t.held :
         \/ \E o \in t.doomed : l = ForUpdate("answer", o)
         \/ \E o \in t.doomed : l = ForUpdate("offer", o) /\ t.pc # "delete answers"
         \/ l = KeyShare("task", TaskRow) /\ t.op = "post" /\ t.pc = "commit"
         \/ l = ForUpdate("task", TaskRow) /\ t.op = "delete task" /\ t.pc = "commit"
    /\ t.pc \in {"delete answers", "delete offers"} => t.row \in NextRows(t.todo)

RequestsFormed ==
  \A p \in Clients : /\ Formed(p, tx[p])
                     /\ RunnerFormed(p, tx[p])
                     /\ DeleterFormed(tx[p])

\* The statements after the check of the foreign key of answers.
Checked == {"reference task", "load offers", "lock task", "commit"}

\* What a deletion has locked is there, and an answer's deletion comes with
\* that of its offer, and the other way round once that has been checked.
DeletesBoth(t) ==
  t.op # "answer" =>
    /\ Has(t, "offer") \subseteq Live
    /\ Has(t, "answer") \subseteq Answered
    /\ t.pc = "delete offers" => Has(t, "answer") \subseteq Has(t, "offer") \cup t.todo
    /\ t.pc \in {"check answers"} \cup Checked => Has(t, "answer") \subseteq Has(t, "offer")
    /\ t.pc \in Checked => Answered \cap Has(t, "offer") \subseteq Has(t, "answer")

\* An inserted answer is the only one of its offer.
InsertsFirst(t) ==
  t.op = "answer" =>
    /\ offer[t.offer] # "none"
    /\ t.pc \in {"reference offer", "commit"} => t.offer \notin Answered
    /\ t.pc = "commit" => t.offer \in Live

\* A cleanup deletes what is too old, and the task it posts to stays.
PostsToTask(t) ==
  t.op = "post" =>
    /\ \A o \in t.doomed : offer[o] # "none" /\ age[o] > Ttl
    /\ t.pc = "commit" => task = "live" /\ KeyShare("task", TaskRow) \in t.held

\* The answer that is claimed is the one that was accepted, and its offer will
\* be deleted by the claim unless another request has deleted it.
ClaimsAccepted(t) ==
  t.op = "claim" =>
    /\ offer[t.offer] # "none"
    /\ accepted[t.offer] = t.sdp
    /\ \/ t.pc = "delete answers"
       \/ t.pc = "delete offers" /\ t.offer \in t.todo
       \/ t.pc = "raise"
       \/ t.offer \in Has(t, "offer")
       \/ offer[t.offer] = "gone"

\* A task is deleted with all its offers.
DeletesAll(t) ==
  t.op = "delete task" /\ t.pc = "commit" =>
    /\ Live \subseteq Has(t, "offer")
    /\ task = "gone" \/ ForUpdate("task", TaskRow) \in t.held

RequestFits(t) ==
  /\ DeletesBoth(t)
  /\ InsertsFirst(t)
  /\ PostsToTask(t)
  /\ ClaimsAccepted(t)
  /\ DeletesAll(t)

RequestsFit == \A p \in Clients : RequestFits(tx[p])

\* Whoever holds a row keeps others from locking it in a way that conflicts.
LocksExclude ==
  \A p, q \in Clients : p # q =>
    \A l \in tx[p].held, m \in tx[q].held : ~Conflicts(l, m)

\* The ids that the page of b, and its request, know of.
HasId(b, o) == browser[b].offer = o \/ tx[b].offer = o

\* The page of b goes with its request, which may outlive the response. What the
\* page waits for is no older than the page has been waiting, and is deleted when
\* it is too old or with the task.
PageFits(b) ==
  /\ browser[b].polls < Polls
  /\ Waiting(b) => browser[b].offer \in Offers
  /\ browser[b].state = "posting" => tx[b].op = "post" /\ tx[b].offer = NoOffer
  /\ browser[b].state = "claiming" =>
       tx[b].op = "claim" /\ tx[b].offer = browser[b].offer
  /\ tx[b].op = "claim" =>
       \/ browser[b].state = "claiming"
       \/ browser[b].state = "connected" /\ tx[b].pc = "commit"
  /\ tx[b].op = "post" =>
       \/ tx[b].offer = NoOffer /\ browser[b].state = "posting"
       \/ /\ tx[b].pc = "commit" /\ browser[b].state \in {"awake", "idle"}
          /\ tx[b].offer \in Offers /\ offer[tx[b].offer] = "none"
          /\ browser[b].state = "awake" => browser[b].offer = tx[b].offer
  /\ Waiting(b) =>
       /\ age[browser[b].offer] <= browser[b].polls + browser[b].late
       /\ offer[browser[b].offer] = "gone" =>
            browser[b].polls + browser[b].late > Ttl \/ task = "gone"

PagesFit == \A b \in Browsers : PageFits(b)

PagesApart ==
  \A b, c \in Browsers : b # c => \A o \in Offers : ~ (HasId(b, o) /\ HasId(c, o))

\* An offer that is there has the answer that was accepted, if any.
RowsFit ==
  \A o \in Offers :
    /\ offer[o] = "none" => accepted[o] = NoRunner
    /\ offer[o] = "live" => accepted[o] = answer[o]

\* What has been told to whom.
HistoryFits ==
  /\ taken \in [Offers -> SUBSET Runners]
  /\ refused \subseteq Offers
  /\ created \subseteq Offers \X Runners
  /\ lost \subseteq created
  /\ RefusedOffersAreOver
  /\ CreatedAnswersAreAccepted

SInv ==
  /\ SignalingTypeOK
  /\ RequestsFormed
  /\ RequestsFit
  /\ LocksExclude
  /\ PagesFit
  /\ PagesApart
  /\ RowsFit
  /\ RowsReferToRows
  /\ HistoryFits
-----------------------------------------------------------------------------
(***************************************************************************)
(* Least elements, requests and locks                                      *)
(***************************************************************************)
LEMMA LeastExists ==
  ASSUME NEW S, S \subseteq Nat, S # {}
  PROVE  \E m \in S : \A n \in S : m <= n
<1> DEFINE R == {e \in Nat \X Nat : e[1] < e[2]}
<1>1. IsWellFoundedOn(R, Nat)
  BY NatLessThanWellFounded DEF OpToRel
<1>2. PICK m \in S : \A n \in S : <<n, m>> \notin R
  BY <1>1, WFMin
<1>3. \A n \in S : ~ n < m
  <2> SUFFICES ASSUME NEW n \in S, n < m
               PROVE  FALSE
    OBVIOUS
  <2>1. <<n, m>> \in Nat \X Nat
    OBVIOUS
  <2> QED
    BY <2>1, <1>2
<1> QED
  BY <1>3

LEMMA MinIsLeast ==
  ASSUME NEW S, S \subseteq Nat, S # {}
  PROVE  Min(S) \in S /\ \A n \in S : Min(S) <= n
BY LeastExists DEF Min

\* Types, one client and one page at a time.
LEMMA RequestType ==
  ASSUME SignalingTypeOK, NEW p \in Clients
  PROVE  /\ tx[p] \in Requests
         /\ tx[p].op \in Ops /\ tx[p].pc \in PCs
         /\ tx[p].offer \in Offers \cup {NoOffer}
         /\ tx[p].sdp \in Runners \cup {NoRunner}
         /\ tx[p].doomed \subseteq Offers /\ tx[p].todo \subseteq Offers
         /\ tx[p].row \in Offers \cup {NoOffer}
         /\ tx[p].held \subseteq Locks
BY DEF SignalingTypeOK, Requests

LEMMA PageType ==
  ASSUME SignalingTypeOK, NEW b \in Browsers
  PROVE  /\ browser[b].state \in {"idle", "posting", "awake", "asking", "asleep",
                                  "claiming", "connected"}
         /\ browser[b].offer \in Offers \cup {NoOffer}
         /\ browser[b].polls \in 0..Polls /\ browser[b].late \in 0..(Ttl + 1)
         /\ browser[b].polls \in Nat /\ browser[b].late \in Nat
<1>1. /\ browser[b].state \in {"idle", "posting", "awake", "asking", "asleep",
                               "claiming", "connected"}
      /\ browser[b].offer \in Offers \cup {NoOffer}
      /\ browser[b].polls \in 0..Polls /\ browser[b].late \in 0..(Ttl + 1)
  BY DEF SignalingTypeOK
<1> QED
  BY <1>1, SignalingAssumption

\* The clients are of one kind each.
LEMMA KindsOfClients ==
  /\ \A b \in Browsers : b \in Clients /\ b \notin Runners /\ b \notin Admins
  /\ \A r \in Runners : r \in Clients /\ r \notin Browsers /\ r \notin Admins
  /\ \A a \in Admins : a \in Clients /\ a \notin Browsers /\ a \notin Runners
BY SignalingAssumption DEF Clients

LEMMA LocksExist ==
  /\ \A o \in Offers : /\ ForUpdate("answer", o) \in Locks
                       /\ ForUpdate("offer", o) \in Locks
                       /\ KeyShare("answer", o) \in Locks
                       /\ KeyShare("offer", o) \in Locks
  /\ ForUpdate("task", TaskRow) \in Locks
  /\ KeyShare("task", TaskRow) \in Locks
BY DEF Locks, ForUpdate, KeyShare, TaskRow

\* Locks that are written differently are different.
LEMMA LockNames ==
  ASSUME NEW a, NEW b, NEW i, NEW j
  PROVE  /\ ForUpdate(a, i) = ForUpdate(b, j) <=> a = b /\ i = j
         /\ KeyShare(a, i) = KeyShare(b, j) <=> a = b /\ i = j
         /\ ForUpdate(a, i) # KeyShare(b, j)
         /\ KeyShare(a, i) # ForUpdate(b, j)
         /\ Conflicts(ForUpdate(a, i), ForUpdate(b, j)) <=> a = b /\ i = j
         /\ Conflicts(ForUpdate(a, i), KeyShare(b, j)) <=> a = b /\ i = j
         /\ Conflicts(KeyShare(a, i), ForUpdate(b, j)) <=> a = b /\ i = j
         /\ ~ Conflicts(KeyShare(a, i), KeyShare(b, j))
BY DEF ForUpdate, KeyShare, Conflicts

\* The table and the row of a lock.
TableOf(l) == l[1]
RowOf(l) == l[2]

LEMMA LockParts ==
  ASSUME NEW table, NEW row
  PROVE  /\ TableOf(ForUpdate(table, row)) = table
         /\ RowOf(ForUpdate(table, row)) = row
         /\ TableOf(KeyShare(table, row)) = table
         /\ RowOf(KeyShare(table, row)) = row
BY DEF ForUpdate, KeyShare, TableOf, RowOf

LEMMA ConflictParts ==
  ASSUME NEW l, NEW m, Conflicts(l, m)
  PROVE  TableOf(l) = TableOf(m) /\ RowOf(l) = RowOf(m)
BY Zenon DEF Conflicts, TableOf, RowOf

LEMMA ConflictsSymmetric ==
  ASSUME NEW l, NEW m
  PROVE  Conflicts(l, m) <=> Conflicts(m, l)
BY DEF Conflicts

\* The cases of Wants, one by one.
LEMMA WantsCases ==
  ASSUME NEW p
  PROVE
  /\ At(p, "delete answers") =>
       Wants(p) = RowLock(p)
  /\ At(p, "delete offers") =>
       Wants(p) = RowLock(p)
  /\ At(p, "check answers") =>
       Wants(p) = IF Orphans(p) # {} THEN {KeyShare("answer", Min(Orphans(p)))} ELSE {}
  /\ At(p, "reference task") =>
       Wants(p) = IF task = "live" THEN {KeyShare("task", TaskRow)} ELSE {}
  /\ At(p, "lock task") =>
       Wants(p) = IF task = "live" THEN {ForUpdate("task", TaskRow)} ELSE {}
  /\ At(p, "insert answer") => Wants(p) = {ForUpdate("answer", tx[p].offer)}
  /\ At(p, "reference offer") =>
       Wants(p) = {KeyShare("offer", o) : o \in Live \cap {tx[p].offer}}
  /\ tx[p].pc \in {"idle", "find offer", "load offers", "commit", "raise"} =>
       Wants(p) = {}
<1>1. At(p, "delete answers") =>
        Wants(p) = RowLock(p)
  BY Zenon DEF Wants, At
<1>2. At(p, "delete offers") =>
        Wants(p) = RowLock(p)
  BY Zenon DEF Wants, At
<1>3. At(p, "check answers") =>
        Wants(p) = IF Orphans(p) # {} THEN {KeyShare("answer", Min(Orphans(p)))} ELSE {}
  BY Zenon DEF Wants, At
<1>4. At(p, "reference task") =>
        Wants(p) = IF task = "live" THEN {KeyShare("task", TaskRow)} ELSE {}
  BY Zenon DEF Wants, At
<1>5. At(p, "lock task") =>
        Wants(p) = IF task = "live" THEN {ForUpdate("task", TaskRow)} ELSE {}
  BY Zenon DEF Wants, At
<1>6. At(p, "insert answer") => Wants(p) = {ForUpdate("answer", tx[p].offer)}
  BY Zenon DEF Wants, At
<1>7. At(p, "reference offer") =>
        Wants(p) = {KeyShare("offer", o) : o \in Live \cap {tx[p].offer}}
  BY Zenon DEF Wants, At
<1>8. tx[p].pc \in {"idle", "find offer", "load offers", "commit", "raise"} =>
        Wants(p) = {}
  BY Zenon DEF Wants, At
<1> QED
  BY <1>1, <1>2, <1>3, <1>4, <1>5, <1>6, <1>7, <1>8

\* A DELETE wants the lock of its next row, if that is still there.
LEMMA WantsRow ==
  ASSUME SignalingTypeOK, NEW p \in Clients
  PROVE  /\ At(p, "delete answers") =>
              Wants(p) = {ForUpdate("answer", i) : i \in Answered \cap {tx[p].row}}
         /\ At(p, "delete offers") =>
              Wants(p) = {ForUpdate("offer", i) : i \in Live \cap {tx[p].row}}
<1>1. At(p, "delete answers") =>
        Wants(p) = {ForUpdate("answer", i) : i \in Answered \cap {tx[p].row}}
  BY WantsCases DEF RowLock, AnswerLock
<1>2. At(p, "delete offers") =>
        Wants(p) = {ForUpdate("offer", i) : i \in Live \cap {tx[p].row}}
  <2>1. At(p, "delete offers") => ~ At(p, "delete answers")
    BY DEF At
  <2> QED
    BY <2>1, WantsCases DEF RowLock, OfferLock
<1> QED
  BY <1>1, <1>2

-----------------------------------------------------------------------------
(***************************************************************************)
(* Steps of one client that leave the rows alone                           *)
(***************************************************************************)
\* A record that the step of p gives to p, with all that is said about it.
Fits(p, t) ==
  /\ t \in Requests
  /\ Formed(p, t) /\ RunnerFormed(p, t) /\ DeleterFormed(t)
  /\ RequestFits(t)

LEMMA InvFits ==
  ASSUME SInv, NEW p \in Clients
  PROVE  Fits(p, tx[p])
BY RequestType DEF SInv, RequestsFormed, RequestsFit, Fits

LEMMA IdleFits ==
  ASSUME NEW p
  PROVE  Fits(p, Idle)
BY DEF Fits, Idle, Requests, Ops, PCs, Formed, RunnerFormed, DeleterFormed,
       RequestFits, DeletesBoth, InsertsFirst, PostsToTask, ClaimsAccepted,
       DeletesAll, Has, Checked

Pages == [state : {"idle", "posting", "awake", "asking", "asleep", "claiming",
                   "connected"},
          offer : Offers \cup {NoOffer}, polls : 0..Polls, late : 0..(Ttl + 1)]

\* Only p's record and page change.
OnlyStepOf(p) ==
  /\ tx' \in [Clients -> Requests]
  /\ \A q \in Clients \ {p} : tx'[q] = tx[q]
  /\ browser' \in [Browsers -> Pages]
  /\ \A b \in Browsers \ {p} : browser'[b] = browser[b]

LEMMA BecomeStep ==
  ASSUME SignalingTypeOK, NEW p \in Clients, NEW t \in Requests, Become(p, t)
  PROVE  /\ tx' \in [Clients -> Requests]
         /\ tx'[p] = t
         /\ \A q \in Clients \ {p} : tx'[q] = tx[q]
BY DEF SignalingTypeOK, Become

\* The locks of p afterwards are in nobody's way.
NobodysWay(p, t) ==
  \A q \in Clients \ {p} : \A l \in t.held, m \in tx[q].held : ~Conflicts(l, m)

LEMMA ExcludeKept ==
  ASSUME LocksExclude, NEW p \in Clients,
         \A q \in Clients \ {p} : tx'[q] = tx[q], NobodysWay(p, tx'[p])
  PROVE  LocksExclude'
<1> SUFFICES ASSUME NEW q \in Clients, NEW r \in Clients, q # r,
                    NEW l \in tx'[q].held, NEW m \in tx'[r].held
             PROVE  ~Conflicts(l, m)
  BY DEF LocksExclude
<1>1. CASE q = p
  <2>1. tx'[r] = tx[r]
    BY <1>1
  <2> QED
    BY <1>1, <2>1 DEF NobodysWay
<1>2. CASE r = p
  <2>1. tx'[q] = tx[q]
    BY <1>2
  <2>2. ~Conflicts(m, l)
    BY <1>2, <2>1 DEF NobodysWay
  <2> QED
    BY <2>2, ConflictsSymmetric
<1>3. CASE q # p /\ r # p
  <2>1. tx'[q] = tx[q] /\ tx'[r] = tx[r]
    BY <1>3
  <2> QED
    BY <2>1 DEF LocksExclude
<1> QED
  BY <1>1, <1>2, <1>3

\* The locks that p has are in nobody's way, and what it is granted neither.
LEMMA HeldExcludes ==
  ASSUME SInv, NEW p \in Clients, NEW t, t.held \subseteq tx[p].held
  PROVE  NobodysWay(p, t)
BY DEF SInv, LocksExclude, NobodysWay

LEMMA GrantedExcludes ==
  ASSUME SInv, NEW p \in Clients, NEW t, t.held \subseteq tx[p].held \cup Wants(p),
         Granted(p)
  PROVE  NobodysWay(p, t)
<1> SUFFICES ASSUME NEW q \in Clients \ {p}, NEW l \in t.held, NEW m \in tx[q].held
             PROVE  ~Conflicts(l, m)
  BY DEF NobodysWay
<1>1. CASE l \in tx[p].held
  BY <1>1 DEF SInv, LocksExclude
<1>2. CASE l \in Wants(p)
  BY <1>2 DEF Granted, Waits
<1> QED
  BY <1>1, <1>2

\* Ages change for nobody's offers only, or for those of p's page.
AgesKept(p) ==
  /\ age' \in [Offers -> 0..(Ttl + 1)]
  /\ \A o \in Offers :
       offer[o] # "none" \/ (\E c \in Browsers \ {p} : HasId(c, o)) => age'[o] = age[o]

\* The page of b learns of no id that another page has.
IdsKept(b) ==
  \A o \in Offers : HasId(b, o)' => HasId(b, o) \/ \A c \in Browsers \ {b} : ~ HasId(c, o)

LEMMA ApartKept ==
  ASSUME PagesApart, NEW p \in Clients,
         \A q \in Clients \ {p} : tx'[q] = tx[q],
         \A b \in Browsers \ {p} : browser'[b] = browser[b],
         p \in Browsers => IdsKept(p)
  PROVE  PagesApart'
<1> SUFFICES ASSUME NEW b \in Browsers, NEW c \in Browsers, b # c, NEW o \in Offers,
                    HasId(b, o)', HasId(c, o)'
             PROVE  FALSE
  BY DEF PagesApart
<1>1. \A d \in Browsers : d # p => (HasId(d, o)' <=> HasId(d, o))
  BY KindsOfClients DEF HasId
<1>2. CASE b # p /\ c # p
  BY <1>1, <1>2 DEF PagesApart
<1>3. CASE b = p
  <2>1. HasId(c, o)
    BY <1>1, <1>3
  <2>2. HasId(b, o)
    BY <1>3, <2>1 DEF IdsKept
  <2> QED
    BY <2>1, <2>2 DEF PagesApart
<1>4. CASE c = p
  <2>1. HasId(b, o)
    BY <1>1, <1>4
  <2>2. HasId(c, o)
    BY <1>4, <2>1 DEF IdsKept
  <2> QED
    BY <2>1, <2>2 DEF PagesApart
<1> QED
  BY <1>2, <1>3, <1>4

\* Nobody is told anything, and no answer is about to be committed or given up.
LEMMA HistoryKept ==
  ASSUME SInv, NEW p \in Clients, UNCHANGED <<offer, accepted, taken, refused, created, lost>>,
         \A q \in Clients \ {p} : tx'[q] = tx[q],
         ~ (tx[p].pc = "commit" /\ tx[p].op = "answer")
  PROVE  HistoryFits'
<1>1. HistoryFits
  BY DEF SInv
<1>2. CreatedAnswersAreAccepted'
  <2> SUFFICES ASSUME NEW o \in Offers, NEW r \in Runners, <<o, r>> \in created \ lost
               PROVE  \/ accepted[o] = r
                      \/ tx'[r].pc = "commit" /\ tx'[r].op = "answer" /\ tx'[r].offer = o
    BY DEF CreatedAnswersAreAccepted, At
  <2>1. \/ accepted[o] = r
        \/ tx[r].pc = "commit" /\ tx[r].op = "answer" /\ tx[r].offer = o
    BY <1>1 DEF HistoryFits, CreatedAnswersAreAccepted, At
  <2>2. r \in Clients
    BY KindsOfClients
  <2> QED
    BY <2>1, <2>2
<1>3. RefusedOffersAreOver'
  BY <1>1 DEF HistoryFits, RefusedOffersAreOver
<1> QED
  BY <1>1, <1>2, <1>3 DEF HistoryFits

LEMMA StepOfHolds ==
  ASSUME SInv, NEW p \in Clients,
         UNCHANGED <<task, offer, answer, accepted>>,
         HistoryFits', AgesKept(p),
         OnlyStepOf(p), Fits(p, tx'[p]), NobodysWay(p, tx'[p]),
         p \in Browsers => PageFits(p)' /\ IdsKept(p)
  PROVE  SInv'
<1>1. SignalingTypeOK'
  BY DEF SInv, SignalingTypeOK, OnlyStepOf, Pages, HistoryFits, AgesKept
<1>2. \A q \in Clients : Fits(q, tx'[q])
  BY InvFits DEF OnlyStepOf
<1>3. RequestsFormed'
  BY <1>2 DEF RequestsFormed, Fits
<1>4. RequestsFit'
  <2>1. Live' = Live /\ Answered' = Answered
    BY DEF Live, Answered
  <2> SUFFICES ASSUME NEW q \in Clients
               PROVE  RequestFits(tx[q])'
    BY DEF RequestsFit
  <2>2. RequestFits(tx'[q]) /\ tx'[q].doomed \subseteq Offers
    BY <1>2 DEF Fits, Requests
  <2>3. PostsToTask(tx[q])'
    BY <2>2 DEF RequestFits, PostsToTask, AgesKept
  <2>4. /\ DeletesBoth(tx[q])' /\ InsertsFirst(tx[q])' /\ ClaimsAccepted(tx[q])'
        /\ DeletesAll(tx[q])'
    BY <2>1, <2>2 DEF RequestFits, DeletesBoth, InsertsFirst, ClaimsAccepted, DeletesAll, Has
  <2> QED
    BY <2>3, <2>4 DEF RequestFits
<1>5. LocksExclude'
  BY ExcludeKept DEF SInv, OnlyStepOf
<1>6. PagesFit'
  <2> SUFFICES ASSUME NEW b \in Browsers, b # p
               PROVE  PageFits(b)'
    BY DEF PagesFit
  <2>1. tx'[b] = tx[b] /\ browser'[b] = browser[b]
    BY KindsOfClients DEF OnlyStepOf
  <2>2. PageFits(b)
    BY DEF SInv, PagesFit
  <2>3. Waiting(b) => age'[browser[b].offer] = age[browser[b].offer]
    BY <2>2 DEF PageFits, AgesKept, HasId
  <2> QED
    BY <2>1, <2>2, <2>3 DEF PageFits, Waiting
<1>7. RowsFit' /\ RowsReferToRows'
  BY DEF SInv, RowsFit, RowsReferToRows, Live, Answered
<1>8. PagesApart'
  BY ApartKept DEF SInv, OnlyStepOf
<1> QED
  BY <1>1, <1>3, <1>4, <1>5, <1>6, <1>7, <1>8 DEF SInv

LEMMA SameAges ==
  ASSUME SInv, NEW p, age' = age
  PROVE  AgesKept(p)
BY DEF SInv, SignalingTypeOK, AgesKept

\* A statement of p: only its record changes, and its page has no part in it.
LEMMA StatementHolds ==
  ASSUME SInv, NEW p \in Clients, NEW t, Become(p, t), UNCHANGED <<db, browser>>,
         Fits(p, t), NobodysWay(p, t), tx[p].pc # "commit",
         p \in Browsers => t.op = tx[p].op /\ t.offer = tx[p].offer
  PROVE  SInv'
<1>1. /\ tx' \in [Clients -> Requests]
      /\ tx'[p] = t
      /\ \A q \in Clients \ {p} : tx'[q] = tx[q]
  BY BecomeStep DEF SInv, Fits
<1>2. OnlyStepOf(p)
  BY <1>1 DEF OnlyStepOf, SInv, SignalingTypeOK, Pages
<1>3. /\ UNCHANGED <<task, offer, age, answer, accepted, taken, refused, created, lost>>
      /\ browser' = browser
  BY DEF db
<1>4. HistoryFits'
  BY <1>1, <1>3, HistoryKept
<1>5. p \in Browsers => PageFits(p)' /\ IdsKept(p)
  <2> SUFFICES ASSUME p \in Browsers
               PROVE  PageFits(p)' /\ IdsKept(p)
    OBVIOUS
  <2>1. PageFits(p)
    BY DEF SInv, PagesFit
  <2>2. PageFits(p)'
    BY <1>1, <1>3, <2>1 DEF PageFits, Waiting
  <2>3. IdsKept(p)
    BY <1>1, <1>3 DEF IdsKept, HasId
  <2> QED
    BY <2>2, <2>3
<1> QED
  BY <1>1, <1>2, <1>3, <1>4, <1>5, SameAges, StepOfHolds

\* A request goes on to its next statement and locks nothing.
LEMMA GotoHolds ==
  ASSUME SInv, NEW p \in Clients, NEW pc \in PCs, Goto(p, pc), UNCHANGED <<db, browser>>,
         Fits(p, [tx[p] EXCEPT !.pc = pc]), tx[p].pc # "commit"
  PROVE  SInv'
<1> DEFINE t == [tx[p] EXCEPT !.pc = pc]
<1>1. t.op = tx[p].op /\ t.offer = tx[p].offer /\ t.held = tx[p].held
  BY RequestType DEF SInv, Requests
<1>2. NobodysWay(p, t)
  BY <1>1, HeldExcludes
<1>3. Become(p, t)
  BY DEF Goto
<1> QED
  BY <1>1, <1>2, <1>3, StatementHolds
-----------------------------------------------------------------------------
(***************************************************************************)
(* Deleting offers                                                         *)
(***************************************************************************)
LEMMA DeletersAreNoRunners ==
  ASSUME SInv, NEW p \in Clients
  PROVE  /\ tx[p].pc \in {"delete answers", "delete offers", "check answers",
                          "reference task", "load offers", "lock task", "raise"}
              => tx[p].op \in {"post", "claim", "delete task"}
         /\ tx[p].op \in {"post", "claim"} => p \in Browsers
         /\ tx[p].op = "delete task" => p \in Admins
<1>1. Fits(p, tx[p])
  BY InvFits
<1>2. tx[p].op \in Ops
  BY RequestType DEF SInv
<1> QED
  BY <1>1, <1>2 DEF Fits, Formed, RunnerFormed, Ops

\* Which locks such a request can have.
LEMMA DeleterLocks ==
  ASSUME NEW t, DeleterFormed(t), t.op # "answer"
  PROVE  /\ Has(t, "answer") \subseteq t.doomed
         /\ Has(t, "offer") \subseteq t.doomed
         /\ t.pc = "delete answers" => Has(t, "offer") = {}
         /\ \A o : /\ KeyShare("answer", o) \notin t.held
                   /\ KeyShare("offer", o) \notin t.held
                   /\ ForUpdate("task", o) \in t.held =>
                        t.op = "delete task" /\ t.pc = "commit"
                   /\ KeyShare("task", o) \in t.held => t.op = "post" /\ t.pc = "commit"
<1>1. ASSUME NEW l \in t.held
      PROVE  \/ \E o \in t.doomed : l = ForUpdate("answer", o)
             \/ \E o \in t.doomed : l = ForUpdate("offer", o) /\ t.pc # "delete answers"
             \/ l = KeyShare("task", TaskRow) /\ t.op = "post" /\ t.pc = "commit"
             \/ l = ForUpdate("task", TaskRow) /\ t.op = "delete task" /\ t.pc = "commit"
  BY DEF DeleterFormed
<1>2. ASSUME NEW o \in Offers, ForUpdate("answer", o) \in t.held
      PROVE  o \in t.doomed
  BY <1>1, <1>2 DEF ForUpdate, KeyShare
<1>3. ASSUME NEW o \in Offers, ForUpdate("offer", o) \in t.held
      PROVE  o \in t.doomed /\ t.pc # "delete answers"
  BY <1>1, <1>3 DEF ForUpdate, KeyShare
<1>4. ASSUME NEW o
      PROVE  /\ KeyShare("answer", o) \notin t.held
             /\ KeyShare("offer", o) \notin t.held
             /\ ForUpdate("task", o) \in t.held => t.op = "delete task" /\ t.pc = "commit"
             /\ KeyShare("task", o) \in t.held => t.op = "post" /\ t.pc = "commit"
  BY <1>1 DEF ForUpdate, KeyShare
<1> QED
  BY <1>2, <1>3, <1>4 DEF Has

LEMMA DeleteOffersHolds ==
  ASSUME SInv, NEW p \in Clients, DeleteOffers(p)
  PROVE  SInv'
<1>0. PICK next \in NextRows(tx[p].doomed \cap Live) :
        Become(p, [tx[p] EXCEPT !.pc = "delete offers", !.row = next,
                                !.todo = tx[p].doomed \cap Live])
  BY DEF DeleteOffers
<1> DEFINE t == [tx[p] EXCEPT !.pc = "delete offers", !.row = next,
                              !.todo = tx[p].doomed \cap Live]
<1>1. tx[p].pc = "delete answers" /\ tx[p].todo = {} /\ Become(p, t)
      /\ UNCHANGED <<db, browser>>
  BY <1>0 DEF DeleteOffers, At
<1>2. tx[p].op \in {"post", "claim", "delete task"}
  BY <1>1, DeletersAreNoRunners
<1>a. next \in Offers \cup {NoOffer}
  BY DEF NextRows, Live
<1>3. /\ t \in Requests /\ t.op = tx[p].op /\ t.offer = tx[p].offer
      /\ t.held = tx[p].held /\ t.doomed = tx[p].doomed /\ t.sdp = tx[p].sdp
      /\ t.pc = "delete offers" /\ t.todo = tx[p].doomed \cap Live /\ t.row = next
  BY <1>a, RequestType DEF SInv, Requests, PCs
<1> HIDE DEF t
<1>4. Fits(p, tx[p])
  BY InvFits
<1>5. Formed(p, t) /\ RunnerFormed(p, t)
  BY <1>1, <1>2, <1>3, <1>4 DEF Fits, Formed, RunnerFormed
<1>6. Has(t, "offer") = {} /\ Has(t, "answer") = Has(tx[p], "answer")
  BY <1>1, <1>2, <1>3, <1>4, DeleterLocks DEF Fits, Has
<1>7. DeleterFormed(t)
  BY <1>1, <1>2, <1>3, <1>4, <1>6 DEF Fits, DeleterFormed
<1>8. Has(t, "answer") \subseteq Answered \cap tx[p].doomed
  BY <1>2, <1>4, <1>6, DeleterLocks DEF Fits, RequestFits, DeletesBoth
<1>9. Has(t, "answer") \subseteq t.todo
  BY <1>3, <1>8 DEF SInv, RowsReferToRows
<1>10. DeletesBoth(t) /\ InsertsFirst(t) /\ PostsToTask(t) /\ DeletesAll(t)
  BY <1>2, <1>3, <1>4, <1>6, <1>8, <1>9
     DEF Fits, RequestFits, DeletesBoth, InsertsFirst, PostsToTask, DeletesAll, Checked
<1>11. ClaimsAccepted(t)
  <2> SUFFICES ASSUME t.op = "claim"
               PROVE  ClaimsAccepted(t)
    BY DEF ClaimsAccepted
  <2>1. /\ tx[p].offer \in Offers /\ tx[p].doomed = {tx[p].offer}
        /\ offer[tx[p].offer] # "none" /\ accepted[tx[p].offer] = tx[p].sdp
    BY <1>3, <1>4 DEF Fits, Formed, RequestFits, ClaimsAccepted
  <2>2. tx[p].offer \in Live \/ offer[tx[p].offer] = "gone"
    BY <2>1 DEF SInv, SignalingTypeOK, Live
  <2> QED
    BY <1>3, <2>1, <2>2 DEF ClaimsAccepted
<1>12. Fits(p, t)
  BY <1>3, <1>5, <1>7, <1>10, <1>11 DEF Fits, RequestFits
<1>13. NobodysWay(p, t)
  BY <1>3, HeldExcludes
<1> QED
  BY <1>1, <1>3, <1>12, <1>13, StatementHolds

LEMMA DeleteRowHolds ==
  ASSUME SInv, NEW p \in Clients, DeleteRow(p)
  PROVE  SInv'
<1>0. PICK next \in NextRows(tx[p].todo \ {tx[p].row}) :
        Become(p, [tx[p] EXCEPT !.held = @ \cup Wants(p), !.row = next,
                                !.todo = @ \ {tx[p].row}])
  BY DEF DeleteRow
<1> DEFINE t == [tx[p] EXCEPT !.held = @ \cup Wants(p), !.row = next,
                              !.todo = @ \ {tx[p].row}]
<1>1. /\ tx[p].pc \in {"delete answers", "delete offers"}
      /\ tx[p].todo # {} /\ Granted(p) /\ Become(p, t) /\ UNCHANGED <<db, browser>>
  BY <1>0 DEF DeleteRow, At
<1>2. tx[p].op \in {"post", "claim", "delete task"}
  BY <1>1, DeletersAreNoRunners
<1>b. Fits(p, tx[p])
  BY InvFits
<1>c. tx[p].row \in tx[p].todo /\ tx[p].row \in Offers
  <2>1. tx[p].row \in NextRows(tx[p].todo)
    BY <1>1, <1>2, <1>b DEF Fits, DeleterFormed
  <2> QED
    BY <1>1, <2>1, RequestType DEF SInv, NextRows
<1>3. /\ tx[p].row \in tx[p].todo /\ tx[p].row \in Offers
      /\ tx[p].pc = "delete answers" =>
           Wants(p) = {ForUpdate("answer", i) : i \in Answered \cap {tx[p].row}}
      /\ tx[p].pc = "delete offers" =>
           Wants(p) = {ForUpdate("offer", i) : i \in Live \cap {tx[p].row}}
  BY <1>1, <1>c, WantsRow DEF SInv, At
<1>4. Wants(p) \subseteq Locks
  BY <1>1, <1>3, LocksExist
<1>a. next \in Offers \cup {NoOffer}
  BY RequestType DEF SInv, NextRows
<1>5. /\ t \in Requests /\ t.op = tx[p].op /\ t.offer = tx[p].offer
      /\ t.held = tx[p].held \cup Wants(p) /\ t.doomed = tx[p].doomed
      /\ t.sdp = tx[p].sdp /\ t.pc = tx[p].pc /\ t.todo = tx[p].todo \ {tx[p].row}
      /\ t.row = next
  BY <1>4, <1>a, RequestType DEF SInv, Requests
<1> HIDE DEF t
<1>6. Fits(p, tx[p])
  BY InvFits
<1>7. /\ tx[p].pc = "delete answers" =>
           /\ Has(t, "answer") = Has(tx[p], "answer") \cup (Answered \cap {tx[p].row})
           /\ Has(t, "offer") = Has(tx[p], "offer")
      /\ tx[p].pc = "delete offers" =>
           /\ Has(t, "answer") = Has(tx[p], "answer")
           /\ Has(t, "offer") = Has(tx[p], "offer") \cup (Live \cap {tx[p].row})
  <2>1. ASSUME tx[p].pc = "delete answers"
        PROVE  /\ Has(t, "answer") = Has(tx[p], "answer") \cup (Answered \cap {tx[p].row})
               /\ Has(t, "offer") = Has(tx[p], "offer")
    <3>1. t.held = tx[p].held \cup {ForUpdate("answer", i) : i \in Answered \cap {tx[p].row}}
      BY <2>1, <1>3, <1>5
    <3>2. Answered \subseteq Offers
      BY DEF Answered
    <3> QED
      BY <3>1, <3>2 DEF Has, ForUpdate
  <2>2. ASSUME tx[p].pc = "delete offers"
        PROVE  /\ Has(t, "answer") = Has(tx[p], "answer")
               /\ Has(t, "offer") = Has(tx[p], "offer") \cup (Live \cap {tx[p].row})
    <3>1. t.held = tx[p].held \cup {ForUpdate("offer", i) : i \in Live \cap {tx[p].row}}
      BY <2>2, <1>3, <1>5
    <3>2. Live \subseteq Offers
      BY DEF Live
    <3> QED
      BY <3>1, <3>2 DEF Has, ForUpdate
  <2> QED
    BY <2>1, <2>2
<1>8. Formed(p, t) /\ RunnerFormed(p, t)
  BY <1>1, <1>2, <1>5, <1>6 DEF Fits, Formed, RunnerFormed
<1>9. DeleterFormed(t)
  <2>1. DeleterFormed(tx[p])
    BY <1>6 DEF Fits
  <2>2. \A l \in Wants(p) :
          \/ l = ForUpdate("answer", tx[p].row)
          \/ l = ForUpdate("offer", tx[p].row) /\ t.pc # "delete answers"
    <3>1. CASE tx[p].pc = "delete answers"
      BY <3>1, <1>3
    <3>2. CASE tx[p].pc = "delete offers"
      <4>1. Wants(p) = {ForUpdate("offer", i) : i \in Live \cap {tx[p].row}}
        BY <3>2, <1>3
      <4>2. t.pc # "delete answers"
        BY <3>2, <1>5
      <4> QED
        BY <4>1, <4>2
    <3> QED
      BY <3>1, <3>2, <1>1
  <2>3. tx[p].row \in t.doomed /\ t.todo \subseteq t.doomed
    BY <1>2, <1>3, <1>5, <2>1 DEF DeleterFormed
  <2>4. ASSUME NEW l \in t.held
        PROVE  \/ \E o \in t.doomed : l = ForUpdate("answer", o)
               \/ \E o \in t.doomed : l = ForUpdate("offer", o) /\ t.pc # "delete answers"
               \/ l = KeyShare("task", TaskRow) /\ t.op = "post" /\ t.pc = "commit"
               \/ l = ForUpdate("task", TaskRow) /\ t.op = "delete task" /\ t.pc = "commit"
    <3>1. CASE l \in Wants(p)
      BY <3>1, <2>2, <2>3
    <3>2. CASE l \in tx[p].held
      BY <3>2, <1>2, <1>5, <2>1 DEF DeleterFormed
    <3> QED
      BY <3>1, <3>2, <1>5
  <2>5. t.row \in NextRows(t.todo)
    BY <1>5
  <2> QED
    BY <2>3, <2>4, <2>5 DEF DeleterFormed
<1>10. DeletesBoth(t)
  <2>1. DeletesBoth(tx[p])
    BY <1>6 DEF Fits, RequestFits
  <2>2. Has(t, "offer") \subseteq Live /\ Has(t, "answer") \subseteq Answered
    BY <1>1, <1>2, <1>7, <2>1 DEF DeletesBoth
  <2>3. t.pc = "delete offers" => Has(t, "answer") \subseteq Has(t, "offer") \cup t.todo
    BY <1>2, <1>5, <1>7, <2>1, <2>2 DEF DeletesBoth, SInv, RowsReferToRows
  <2> QED
    BY <1>1, <1>5, <2>2, <2>3 DEF DeletesBoth, Checked
<1>11. InsertsFirst(t) /\ PostsToTask(t) /\ DeletesAll(t)
  BY <1>1, <1>2, <1>5, <1>6
     DEF Fits, RequestFits, InsertsFirst, PostsToTask, DeletesAll
<1>12. ClaimsAccepted(t)
  <2> SUFFICES ASSUME t.op = "claim"
               PROVE  ClaimsAccepted(t)
    BY DEF ClaimsAccepted
  <2>1. tx[p].offer \in Offers /\ ClaimsAccepted(tx[p]) /\ offer[tx[p].offer] # "none"
    BY <1>5, <1>6 DEF Fits, Formed, RequestFits, ClaimsAccepted
  <2>2. tx[p].offer \in Live \/ offer[tx[p].offer] = "gone"
    BY <2>1 DEF SInv, SignalingTypeOK, Live
  <2> QED
    BY <1>1, <1>5, <1>7, <2>1, <2>2 DEF ClaimsAccepted
<1>13. Fits(p, t)
  BY <1>5, <1>8, <1>9, <1>10, <1>11, <1>12 DEF Fits, RequestFits
<1>14. NobodysWay(p, t)
  BY <1>1, <1>5, GrantedExcludes
<1> QED
  BY <1>1, <1>5, <1>13, <1>14, StatementHolds

LEMMA OffersDeletedHolds ==
  ASSUME SInv, NEW p \in Clients, OffersDeleted(p)
  PROVE  SInv'
<1> DEFINE t == [tx[p] EXCEPT !.pc = "check answers"]
<1>1. /\ tx[p].pc = "delete offers" /\ tx[p].todo = {}
      /\ Goto(p, "check answers") /\ UNCHANGED <<db, browser>>
  BY DEF OffersDeleted, At
<1>2. tx[p].op \in {"post", "claim", "delete task"}
  BY <1>1, DeletersAreNoRunners
<1>3. /\ t \in Requests /\ t.op = tx[p].op /\ t.offer = tx[p].offer
      /\ t.held = tx[p].held /\ t.doomed = tx[p].doomed /\ t.sdp = tx[p].sdp
      /\ t.pc = "check answers" /\ t.todo = tx[p].todo
  BY RequestType DEF SInv, Requests, PCs
<1> HIDE DEF t
<1>4. Fits(p, tx[p])
  BY InvFits
<1>5. Has(t, "offer") = Has(tx[p], "offer") /\ Has(t, "answer") = Has(tx[p], "answer")
  BY <1>3 DEF Has
<1>6. Formed(p, t) /\ RunnerFormed(p, t) /\ DeleterFormed(t)
  BY <1>1, <1>2, <1>3, <1>4 DEF Fits, Formed, RunnerFormed, DeleterFormed
<1>7. RequestFits(t)
  BY <1>1, <1>2, <1>3, <1>4, <1>5
     DEF Fits, RequestFits, DeletesBoth, InsertsFirst, PostsToTask, DeletesAll,
         ClaimsAccepted, Checked
<1>8. Fits(p, t)
  BY <1>3, <1>6, <1>7 DEF Fits
<1> QED
  BY <1>1, <1>8, GotoHolds DEF t, PCs

\* The request fails: it keeps its locks until the rollback.
LEMMA RaiseHolds ==
  ASSUME SInv, NEW p \in Clients, tx[p].op \in {"post", "claim", "delete task"},
         tx[p].pc # "commit", Goto(p, "raise"), UNCHANGED <<db, browser>>
  PROVE  SInv'
<1> DEFINE t == [tx[p] EXCEPT !.pc = "raise"]
<1>3. /\ t \in Requests /\ t.op = tx[p].op /\ t.offer = tx[p].offer
      /\ t.held = tx[p].held /\ t.doomed = tx[p].doomed /\ t.sdp = tx[p].sdp
      /\ t.pc = "raise" /\ t.todo = tx[p].todo
  BY RequestType DEF SInv, Requests, PCs
<1> HIDE DEF t
<1>4. Fits(p, tx[p])
  BY InvFits
<1>5. Has(t, "offer") = Has(tx[p], "offer") /\ Has(t, "answer") = Has(tx[p], "answer")
  BY <1>3 DEF Has
<1>6. Formed(p, t) /\ RunnerFormed(p, t) /\ DeleterFormed(t)
  BY <1>3, <1>4 DEF Fits, Formed, RunnerFormed, DeleterFormed
<1>7. RequestFits(t)
  BY <1>3, <1>4, <1>5
     DEF Fits, RequestFits, DeletesBoth, InsertsFirst, PostsToTask, DeletesAll,
         ClaimsAccepted, Checked
<1>8. Fits(p, t)
  BY <1>3, <1>6, <1>7 DEF Fits
<1> QED
  BY <1>8, GotoHolds DEF t, PCs

LEMMA CheckAnswersHolds ==
  ASSUME SInv, NEW p \in Clients, CheckAnswers(p)
  PROVE  SInv'
<1>1. PICK pc \in {"reference task", "load offers", "commit"} :
        /\ tx[p].pc = "check answers" /\ Orphans(p) = {}
        /\ Goto(p, pc) /\ UNCHANGED <<db, browser>>
        /\ pc = "reference task" <=> tx[p].op = "post"
        /\ pc = "load offers" <=> tx[p].op = "delete task"
  BY DEF CheckAnswers, Proceed, At
<1> DEFINE t == [tx[p] EXCEPT !.pc = pc]
<1>2. tx[p].op \in {"post", "claim", "delete task"}
  BY <1>1, DeletersAreNoRunners
<1>3. /\ t \in Requests /\ t.op = tx[p].op /\ t.offer = tx[p].offer
      /\ t.held = tx[p].held /\ t.doomed = tx[p].doomed /\ t.sdp = tx[p].sdp
      /\ t.pc = pc /\ t.todo = tx[p].todo
  BY RequestType DEF SInv, Requests, PCs
<1> HIDE DEF t
<1>4. Fits(p, tx[p])
  BY InvFits
<1>5. Has(t, "offer") = Has(tx[p], "offer") /\ Has(t, "answer") = Has(tx[p], "answer")
  BY <1>3 DEF Has
<1>6. Formed(p, t) /\ RunnerFormed(p, t) /\ DeleterFormed(t)
  BY <1>1, <1>2, <1>3, <1>4 DEF Fits, Formed, RunnerFormed, DeleterFormed
<1>7. DeletesBoth(t)
  <2>1. Answered \cap Has(t, "offer") \subseteq Has(t, "answer")
    BY <1>1, <1>5 DEF Orphans, Deleted, Has
  <2> QED
    BY <2>1, <1>1, <1>2, <1>3, <1>4, <1>5 DEF Fits, RequestFits, DeletesBoth
<1>8. RequestFits(t)
  BY <1>1, <1>2, <1>3, <1>4, <1>5, <1>7
     DEF Fits, RequestFits, InsertsFirst, PostsToTask, DeletesAll, ClaimsAccepted
<1>9. Fits(p, t)
  BY <1>3, <1>6, <1>8 DEF Fits
<1> QED
  BY <1>1, <1>9, GotoHolds DEF t, PCs

LEMMA AnswerLeftHolds ==
  ASSUME SInv, NEW p \in Clients, AnswerLeft(p)
  PROVE  SInv'
<1>1. tx[p].pc = "check answers" /\ Goto(p, "raise") /\ UNCHANGED <<db, browser>>
  BY DEF AnswerLeft, At
<1> QED
  BY <1>1, DeletersAreNoRunners, RaiseHolds
-----------------------------------------------------------------------------
(***************************************************************************)
(* The steps of browsers and administrators                                *)
(***************************************************************************)
LEMMA BeginFits ==
  ASSUME SInv, NEW p \in Clients, NEW op \in {"post", "claim", "delete task"},
         NEW o \in Offers \cup {NoOffer}, NEW doomed, doomed \subseteq Live,
         BeginDelete(p, op, o, doomed),
         op \in {"post", "claim"} => p \in Browsers,
         op = "delete task" => p \in Admins,
         op = "post" => doomed \subseteq Stale,
         op = "claim" => o \in Live \cap Answered /\ doomed = {o},
         op # "claim" => o = NoOffer
  PROVE  /\ tx[p].op = "none" /\ tx[p].offer = NoOffer /\ tx[p].pc = "idle"
         /\ tx'[p].op = op /\ tx'[p].offer = o
         /\ tx' \in [Clients -> Requests]
         /\ \A q \in Clients \ {p} : tx'[q] = tx[q]
         /\ Fits(p, tx'[p])
         /\ NobodysWay(p, tx'[p])
         /\ Become(p, tx'[p])
<1>0. PICK next \in NextRows(Answered \cap doomed) :
        Become(p, [Idle EXCEPT !.op = op, !.pc = "delete answers", !.offer = o,
                               !.sdp = IF op = "claim" THEN answer[o] ELSE NoRunner,
                               !.doomed = doomed, !.todo = Answered \cap doomed,
                               !.row = next])
  BY DEF BeginDelete
<1> DEFINE t == [Idle EXCEPT !.op = op, !.pc = "delete answers", !.offer = o,
                             !.sdp = IF op = "claim" THEN answer[o] ELSE NoRunner,
                             !.doomed = doomed, !.todo = Answered \cap doomed,
                             !.row = next]
<1>1. tx[p].pc = "idle" /\ Become(p, t)
  BY <1>0 DEF BeginDelete, At
<1>2. op = "claim" => answer[o] \in Runners /\ accepted[o] = answer[o] /\ o \in Offers
  BY DEF SInv, SignalingTypeOK, RowsFit, Live, Answered
<1>3. doomed \subseteq Offers /\ next \in Offers \cup {NoOffer}
  BY DEF Live, NextRows
<1>4. /\ t.op = op /\ t.pc = "delete answers" /\ t.offer = o
      /\ t.sdp = (IF op = "claim" THEN answer[o] ELSE NoRunner)
      /\ t.doomed = doomed /\ t.todo = Answered \cap doomed /\ t.held = {}
      /\ t.row = next
      /\ t \in Requests
  BY <1>2, <1>3 DEF Idle, Requests, Ops, PCs
<1> HIDE DEF t
<1>5. Has(t, "answer") = {} /\ Has(t, "offer") = {}
  BY <1>4 DEF Has
<1>6. Formed(p, t) /\ RunnerFormed(p, t) /\ DeleterFormed(t)
  BY <1>2, <1>4, <1>5 DEF Formed, RunnerFormed, DeleterFormed
<1>7. DeletesBoth(t) /\ InsertsFirst(t) /\ ClaimsAccepted(t) /\ DeletesAll(t)
  BY <1>2, <1>4, <1>5
     DEF DeletesBoth, InsertsFirst, ClaimsAccepted, DeletesAll, Checked, Live
<1>8. PostsToTask(t)
  BY <1>4 DEF PostsToTask, Stale, Live
<1>9. Fits(p, t)
  BY <1>4, <1>6, <1>7, <1>8 DEF Fits, RequestFits
<1>10. tx[p].op = "none" /\ tx[p].offer = NoOffer
  BY <1>1, InvFits DEF Fits, Formed
<1>11. NobodysWay(p, t)
  BY <1>4 DEF NobodysWay
<1> QED
  BY <1>1, <1>4, <1>9, <1>10, <1>11, BecomeStep DEF SInv

\* The page of b, and its request, learn of no id.
LEMMA LearnsNothing ==
  ASSUME NEW b \in Browsers,
         browser'[b].offer \in {NoOffer, browser[b].offer},
         tx'[b].offer \in {NoOffer, tx[b].offer, browser[b].offer}
  PROVE  IdsKept(b)
BY SignalingAssumption DEF IdsKept, HasId

LEMMA StartPostHolds ==
  ASSUME SInv, NEW b \in Browsers, StartPost(b)
  PROVE  SInv'
<1>1. /\ BeginDelete(b, "post", NoOffer, Stale) /\ UNCHANGED db
      /\ browser[b].state = "idle"
      /\ browser' = [browser EXCEPT ![b].state = "posting"]
  BY DEF StartPost, Page
<1>2. b \in Clients /\ Stale \subseteq Live
  BY KindsOfClients DEF Stale
<1>3. /\ tx'[b].op = "post" /\ tx'[b].offer = NoOffer /\ tx[b].pc = "idle"
      /\ tx' \in [Clients -> Requests]
      /\ \A q \in Clients \ {b} : tx'[q] = tx[q]
      /\ Fits(b, tx'[b])
      /\ NobodysWay(b, tx'[b])
  BY <1>1, <1>2, BeginFits
<1>4. /\ browser' \in [Browsers -> Pages]
      /\ browser'[b].state = "posting" /\ browser'[b].offer = browser[b].offer
      /\ browser'[b].polls = browser[b].polls
      /\ \A c \in Browsers \ {b} : browser'[c] = browser[c]
  BY <1>1 DEF SInv, SignalingTypeOK, Pages
<1>5. OnlyStepOf(b)
  BY <1>3, <1>4 DEF OnlyStepOf
<1>6. PageFits(b)'
  <2>1. PageFits(b)
    BY DEF SInv, PagesFit
  <2> QED
    BY <1>3, <1>4, <2>1 DEF PageFits, Waiting
<1>7. IdsKept(b)
  BY <1>3, <1>4, LearnsNothing
<1>8. UNCHANGED <<task, offer, age, answer, accepted, taken, refused, created, lost>>
  BY <1>1 DEF db
<1>9. HistoryFits'
  BY <1>2, <1>3, <1>8, HistoryKept
<1> QED
  BY <1>2, <1>3, <1>5, <1>6, <1>7, <1>8, <1>9, SameAges, StepOfHolds

LEMMA StartClaimHolds ==
  ASSUME SInv, NEW b \in Browsers, StartClaim(b)
  PROVE  SInv'
<1>1. /\ browser[b].state = "asking" /\ browser[b].offer \in Answered
      /\ BeginDelete(b, "claim", browser[b].offer, {browser[b].offer}) /\ UNCHANGED db
      /\ browser' = [browser EXCEPT ![b].state = "claiming"]
  BY DEF StartClaim, Page
<1>2. PICK o \in Offers, doomed \in SUBSET Live :
        o = browser[b].offer /\ o \in Live \cap Answered /\ doomed = {o}
  <2>1. browser[b].offer \in Live /\ browser[b].offer \in Offers
    BY <1>1 DEF SInv, RowsReferToRows, Live
  <2> QED
    BY <1>1, <2>1
<1>3. b \in Clients /\ doomed \subseteq Live /\ BeginDelete(b, "claim", o, doomed)
  BY <1>1, <1>2, KindsOfClients
<1>4. /\ tx'[b].op = "claim" /\ tx'[b].offer = o /\ tx[b].pc = "idle"
      /\ tx' \in [Clients -> Requests]
      /\ \A q \in Clients \ {b} : tx'[q] = tx[q]
      /\ Fits(b, tx'[b])
      /\ NobodysWay(b, tx'[b])
  BY <1>2, <1>3, BeginFits
<1>5. /\ browser'[b].state = "claiming" /\ browser'[b].offer = o
      /\ browser'[b].polls = browser[b].polls /\ browser'[b].late = browser[b].late
      /\ browser' \in [Browsers -> Pages]
      /\ \A c \in Browsers \ {b} : browser'[c] = browser[c]
  BY <1>1, <1>2 DEF SInv, SignalingTypeOK, Pages
<1>6. OnlyStepOf(b)
  BY <1>4, <1>5 DEF OnlyStepOf
<1>7. UNCHANGED <<task, offer, age, answer, accepted, taken, refused, created, lost>>
  BY <1>1 DEF db
<1>8. PageFits(b)'
  <2>1. PageFits(b) /\ Waiting(b)
    BY <1>1 DEF SInv, PagesFit, Waiting
  <2> QED
    BY <1>2, <1>4, <1>5, <1>7, <2>1 DEF PageFits, Waiting
<1>9. IdsKept(b)
  BY <1>2, <1>4, <1>5, LearnsNothing
<1>10. HistoryFits'
  BY <1>3, <1>4, <1>7, HistoryKept
<1> QED
  BY <1>3, <1>4, <1>6, <1>7, <1>8, <1>9, <1>10, SameAges, StepOfHolds

\* The page learns something and its request, if any, goes on.
LEMMA PageHolds ==
  ASSUME SInv, NEW b \in Browsers, tx' = tx,
         UNCHANGED <<task, offer, answer, accepted>>, HistoryFits', AgesKept(b),
         browser' \in [Browsers -> Pages],
         \A c \in Browsers \ {b} : browser'[c] = browser[c],
         PageFits(b)', IdsKept(b)
  PROVE  SInv'
<1>1. b \in Clients
  BY KindsOfClients
<1>2. OnlyStepOf(b)
  BY DEF OnlyStepOf, SInv, SignalingTypeOK
<1>3. Fits(b, tx'[b]) /\ NobodysWay(b, tx'[b])
  BY <1>1, InvFits, HeldExcludes
<1> QED
  BY <1>1, <1>2, <1>3, StepOfHolds

\* Nothing changes but what the page of b does.
LEMMA SameHistory ==
  ASSUME SInv, UNCHANGED <<offer, accepted, taken, refused, created, lost, tx>>
  PROVE  HistoryFits'
<1>1. HistoryFits
  BY DEF SInv
<1>2. RefusedOffersAreOver' /\ CreatedAnswersAreAccepted'
  BY <1>1 DEF HistoryFits, RefusedOffersAreOver, CreatedAnswersAreAccepted, At
<1> QED
  BY <1>1, <1>2 DEF HistoryFits

\* A page fails, between two requests, or while its post has yet to be committed.
LEMMA FailHolds ==
  ASSUME SInv, NEW b \in Browsers, browser[b].state \in {"awake", "asking"},
         Fail(b), UNCHANGED <<db, tx>>
  PROVE  SInv'
<1>1. /\ browser' \in [Browsers -> Pages] /\ browser'[b] = Off
      /\ \A c \in Browsers \ {b} : browser'[c] = browser[c]
  <2>1. Off \in Pages
    BY SignalingAssumption DEF Off, Pages
  <2> QED
    BY <2>1 DEF Fail, SInv, SignalingTypeOK, Pages
<1>2. UNCHANGED <<task, offer, age, answer, accepted, taken, refused, created, lost, tx>>
  BY DEF db
<1>3. PageFits(b)'
  <2>1. PageFits(b)
    BY DEF SInv, PagesFit
  <2>2. browser'[b].state = "idle" /\ browser'[b].polls = 0
    BY <1>1 DEF Off
  <2>3. tx[b].op # "claim"
    BY <2>1 DEF PageFits
  <2> QED
    BY <1>2, <2>1, <2>2, <2>3, SignalingAssumption DEF PageFits, Waiting
<1>4. IdsKept(b)
  BY <1>1, <1>2, LearnsNothing DEF Off
<1> QED
  BY <1>1, <1>2, <1>3, <1>4, SameHistory, SameAges, PageHolds

LEMMA PollHolds ==
  ASSUME SInv, NEW b \in Browsers,
         OfferGone(b) \/ FindItsOffer(b) \/ TaskGone(b) \/ NoAnswer(b) \/ PollFails(b)
  PROVE  SInv'
<1>1. CASE OfferGone(b) \/ TaskGone(b) \/ PollFails(b)
  BY <1>1, FailHolds DEF OfferGone, TaskGone, PollFails
<1>2. CASE FindItsOffer(b) \/ NoAnswer(b)
  <2>1. PICK n \in {"asking", "asleep"} :
          /\ browser[b].state \in {"awake", "asking"} /\ Page(b, n) /\ UNCHANGED <<db, tx>>
          /\ browser[b].state = "awake" => browser[b].offer \in Live
    BY <1>2 DEF FindItsOffer, NoAnswer
  <2>2. /\ browser' \in [Browsers -> Pages]
        /\ \A c \in Browsers \ {b} : browser'[c] = browser[c]
        /\ browser'[b].state = n /\ browser'[b].offer = browser[b].offer
        /\ browser'[b].polls = browser[b].polls /\ browser'[b].late = browser[b].late
    BY <2>1 DEF Page, Pages, SInv, SignalingTypeOK
  <2>3. UNCHANGED <<task, offer, age, answer, accepted, taken, refused, created, lost, tx>>
    BY <2>1 DEF db
  <2>4. PageFits(b)'
    <3>1. PageFits(b) /\ Waiting(b)
      BY <2>1 DEF SInv, PagesFit, Waiting
    <3>2. tx[b].op # "claim"
      BY <2>1, <3>1 DEF PageFits
    <3>3. tx[b].op # "post"
      <4>1. CASE tx[b].op = "post"
        <5>1. /\ browser[b].state = "awake" /\ browser[b].offer \in Live
              /\ tx[b].offer \in Offers /\ offer[tx[b].offer] = "none"
          BY <2>1, <3>1, <4>1 DEF PageFits
        <5>2. browser[b].offer = tx[b].offer
          BY <3>1, <4>1, <5>1 DEF PageFits
        <5> QED
          BY <5>1, <5>2 DEF Live
      <4> QED
        BY <4>1
    <3> QED
      BY <2>2, <2>3, <3>1, <3>2, <3>3 DEF PageFits, Waiting
  <2>5. IdsKept(b)
    BY <2>2, <2>3, LearnsNothing
  <2> QED
    BY <2>2, <2>3, <2>4, <2>5, SameHistory, SameAges, PageHolds
<1> QED
  BY <1>1, <1>2

\* The next id is an offer's, not yet posted, and nobody has it.
LEMMA NextIdIsFree ==
  ASSUME SInv, FreeIds # {}
  PROVE  /\ NextId \in Offers /\ offer[NextId] = "none"
         /\ \A c \in Browsers : ~ HasId(c, NextId)
<1>1. FreeIds \subseteq Nat
  BY SignalingAssumption DEF FreeIds
<1>2. NextId \in FreeIds
  BY <1>1, MinIsLeast DEF NextId
<1>3. NextId \in Offers /\ offer[NextId] = "none" /\ NextId # NoOffer
  BY <1>2, SignalingAssumption DEF FreeIds
<1>4. ASSUME NEW c \in Browsers
      PROVE  ~ HasId(c, NextId)
  <2>1. browser[c].offer # NextId /\ NextId \notin Promised
    BY <1>2 DEF FreeIds
  <2>2. tx[c].op = "post" => tx[c].offer \in Promised
    BY DEF Promised
  <2>3. Fits(c, tx[c]) /\ tx[c].op \in Ops
    BY KindsOfClients, InvFits, RequestType DEF SInv
  <2>4. tx[c].op \in {"none", "post", "claim"}
    BY <2>3, KindsOfClients DEF Fits, Formed, RunnerFormed, Ops
  <2>5. tx[c].op = "claim" => offer[tx[c].offer] # "none"
    BY <2>3 DEF Fits, RequestFits, ClaimsAccepted
  <2>6. tx[c].op = "none" => tx[c].offer = NoOffer
    BY <2>3 DEF Fits, Formed
  <2> QED
    BY <1>3, <2>1, <2>2, <2>4, <2>5, <2>6 DEF HasId
<1> QED
  BY <1>3, <1>4

\* The age that an offer starts with is in nobody's way.
LEMMA NewAge ==
  ASSUME SInv, NEW b \in Browsers, NEW o \in Offers, offer[o] = "none",
         \A c \in Browsers : ~ HasId(c, o),
         age' = [age EXCEPT ![o] = browser[b].late]
  PROVE  AgesKept(b) /\ age'[o] = browser[b].late
<1>1. browser[b].late \in 0..(Ttl + 1)
  BY PageType DEF SInv
<1>2. age \in [Offers -> 0..(Ttl + 1)]
  BY DEF SInv, SignalingTypeOK
<1> QED
  BY <1>1, <1>2 DEF AgesKept

LEMMA EarlyResponseHolds ==
  ASSUME SInv, NEW b \in Browsers, EarlyResponse(b)
  PROVE  SInv'
<1> DEFINE t == [tx[b] EXCEPT !.offer = NextId]
<1>1. /\ tx[b].pc = "commit" /\ tx[b].op = "post" /\ tx[b].offer = NoOffer /\ FreeIds # {}
      /\ age' = [age EXCEPT ![NextId] = browser[b].late]
      /\ browser' = [browser EXCEPT ![b].state = "awake", ![b].offer = NextId]
      /\ Become(b, t)
      /\ UNCHANGED <<task, offer, answer, accepted, taken, refused, created, lost>>
  BY DEF EarlyResponse, Promise, At
<1>2. PICK o \in Offers : o = NextId /\ offer[o] = "none" /\ \A c \in Browsers : ~ HasId(c, o)
  BY <1>1, NextIdIsFree
<1>3. /\ browser' \in [Browsers -> Pages]
      /\ \A c \in Browsers \ {b} : browser'[c] = browser[c]
      /\ browser'[b].state = "awake" /\ browser'[b].offer = o
      /\ browser'[b].polls = browser[b].polls /\ browser'[b].late = browser[b].late
  BY <1>1, <1>2 DEF Pages, SInv, SignalingTypeOK
<1>4. b \in Clients /\ Fits(b, tx[b])
  BY KindsOfClients, InvFits
<1>5. /\ t \in Requests /\ t.op = tx[b].op /\ t.pc = tx[b].pc /\ t.offer = o
      /\ t.held = tx[b].held /\ t.doomed = tx[b].doomed /\ t.sdp = tx[b].sdp
      /\ t.todo = tx[b].todo /\ t.row = tx[b].row
  BY <1>2, <1>4, RequestType DEF SInv, Requests
<1> HIDE DEF t
<1>6. Fits(b, t)
  <2>1. Has(t, "offer") = Has(tx[b], "offer") /\ Has(t, "answer") = Has(tx[b], "answer")
    BY <1>5 DEF Has
  <2>2. Formed(b, t) /\ RunnerFormed(b, t) /\ DeleterFormed(t)
    BY <1>1, <1>4, <1>5 DEF Fits, Formed, RunnerFormed, DeleterFormed
  <2>3. RequestFits(t)
    BY <1>1, <1>4, <1>5, <2>1
       DEF Fits, RequestFits, DeletesBoth, InsertsFirst, PostsToTask, ClaimsAccepted,
           DeletesAll
  <2> QED
    BY <1>5, <2>2, <2>3 DEF Fits
<1>7. /\ tx' \in [Clients -> Requests] /\ tx'[b] = t
      /\ \A q \in Clients \ {b} : tx'[q] = tx[q]
  BY <1>1, <1>4, <1>5, BecomeStep DEF SInv
<1>8. AgesKept(b) /\ age'[o] = browser[b].late
  BY <1>1, <1>2, NewAge
<1>9. PageFits(b)'
  <2>1. PageFits(b) /\ browser[b].polls \in Nat /\ browser[b].late \in Nat
    BY PageType DEF SInv, PagesFit
  <2>2. age'[o] <= browser'[b].polls + browser'[b].late
    BY <1>3, <1>8, <2>1
  <2> QED
    BY <1>1, <1>2, <1>3, <1>5, <1>7, <2>1, <2>2 DEF PageFits, Waiting
<1>10. IdsKept(b)
  BY <1>1, <1>2, <1>3, <1>5, <1>7 DEF IdsKept, HasId
<1>11. OnlyStepOf(b) /\ NobodysWay(b, t)
  BY <1>3, <1>4, <1>5, <1>7, HeldExcludes DEF OnlyStepOf
<1>12. HistoryFits'
  BY <1>1, <1>4, <1>7, HistoryKept
<1> QED
  BY <1>1, <1>4, <1>6, <1>7, <1>8, <1>9, <1>10, <1>11, <1>12, StepOfHolds

\* The response of a claim, before its commit.
LEMMA EarlyAnswerHolds ==
  ASSUME SInv, NEW b \in Browsers, EarlyAnswer(b)
  PROVE  SInv'
<1>1. /\ tx[b].pc = "commit" /\ browser[b].state = "claiming"
      /\ taken' = [taken EXCEPT ![tx[b].offer] = @ \cup {tx[b].sdp}]
      /\ browser' = [browser EXCEPT ![b] = [Off EXCEPT !.state = "connected"]]
      /\ UNCHANGED <<task, offer, age, answer, accepted, refused, created, lost, tx>>
  BY DEF EarlyAnswer, GiveAnswer, At
<1>2. tx[b].op = "claim" /\ tx[b].sdp \in Runners
  <2>1. tx[b].op = "claim"
    BY <1>1 DEF SInv, PagesFit, PageFits
  <2> QED
    BY <2>1, KindsOfClients, InvFits DEF Fits, Formed
<1>3. /\ browser' \in [Browsers -> Pages]
      /\ \A c \in Browsers \ {b} : browser'[c] = browser[c]
      /\ browser'[b].state = "connected" /\ browser'[b].offer = NoOffer
      /\ browser'[b].polls = 0
  <2>1. [Off EXCEPT !.state = "connected"] \in Pages
    BY SignalingAssumption DEF Off, Pages
  <2> QED
    BY <1>1, <2>1 DEF Off, SInv, SignalingTypeOK, Pages
<1>4. PageFits(b)'
  BY <1>1, <1>2, <1>3, SignalingAssumption DEF PageFits, Waiting
<1>5. IdsKept(b)
  BY <1>1, <1>3, LearnsNothing
<1>6. HistoryFits'
  <2>1. HistoryFits
    BY DEF SInv
  <2>2. taken' \in [Offers -> SUBSET Runners]
    BY <1>1, <1>2, <2>1 DEF HistoryFits
  <2>3. RefusedOffersAreOver' /\ CreatedAnswersAreAccepted'
    BY <1>1, <2>1 DEF HistoryFits, RefusedOffersAreOver, CreatedAnswersAreAccepted, At
  <2> QED
    BY <1>1, <2>1, <2>2, <2>3 DEF HistoryFits
<1> QED
  BY <1>1, <1>3, <1>4, <1>5, <1>6, SameAges, PageHolds

\* A request ends without a commit.
LEMMA AbortHolds ==
  ASSUME SInv, NEW p \in Clients, Abort(p), HistoryFits'
  PROVE  SInv'
<1>1. /\ tx' \in [Clients -> Requests] /\ tx'[p] = Idle
      /\ \A q \in Clients \ {p} : tx'[q] = tx[q]
  BY IdleFits, BecomeStep DEF Abort, End, Fits, SInv
<1>2. UNCHANGED <<task, offer, age, answer, accepted>>
  BY DEF Abort
<1>3. Fits(p, tx'[p]) /\ NobodysWay(p, tx'[p])
  BY <1>1, IdleFits DEF NobodysWay, Idle
<1>4. /\ browser' \in [Browsers -> Pages]
      /\ \A c \in Browsers \ {p} : browser'[c] = browser[c]
      /\ p \in Browsers => \/ browser'[p] = Off
                           \/ /\ browser'[p] = browser[p]
                              /\ browser[p].state \notin {"posting", "claiming"}
  <2>1. CASE p \in Browsers /\ browser[p].state \in {"posting", "claiming"}
    <3>1. Off \in Pages
      BY SignalingAssumption DEF Off, Pages
    <3> QED
      BY <2>1, <3>1 DEF Abort, Fail, Pages, SInv, SignalingTypeOK
  <2>2. CASE ~ (p \in Browsers /\ browser[p].state \in {"posting", "claiming"})
    BY <2>2 DEF Abort, Pages, SInv, SignalingTypeOK
  <2> QED
    BY <2>1, <2>2
<1>5. OnlyStepOf(p)
  BY <1>1, <1>4 DEF OnlyStepOf
<1>6. p \in Browsers => PageFits(p)' /\ IdsKept(p)
  <2> SUFFICES ASSUME p \in Browsers
               PROVE  PageFits(p)' /\ IdsKept(p)
    OBVIOUS
  <2>1. PageFits(p)
    BY DEF SInv, PagesFit
  <2>2. tx'[p].op = "none" /\ tx'[p].offer = NoOffer
    BY <1>1 DEF Idle
  <2>3. CASE browser'[p] = Off
    <3>1. /\ browser'[p].state = "idle" /\ browser'[p].offer = NoOffer
          /\ browser'[p].polls = 0
      BY <2>3 DEF Off
    <3>2. PageFits(p)'
      BY <2>2, <3>1, SignalingAssumption DEF PageFits, Waiting
    <3> QED
      BY <2>2, <3>1, <3>2, LearnsNothing
  <2>4. CASE browser'[p] = browser[p] /\ browser[p].state \notin {"posting", "claiming"}
    <3>1. PageFits(p)'
      BY <1>2, <2>1, <2>2, <2>4 DEF PageFits, Waiting
    <3> QED
      BY <2>2, <2>4, <3>1, LearnsNothing
  <2> QED
    BY <1>4, <2>3, <2>4
<1> QED
  BY <1>2, <1>3, <1>5, <1>6, SameAges, StepOfHolds

\* An error is rolled back. Runners have none.
LEMMA RollbackHolds ==
  ASSUME SInv, NEW p \in Clients, Rollback(p)
  PROVE  SInv'
<1>1. tx[p].pc = "raise" /\ Abort(p) /\ UNCHANGED lost
  BY DEF Rollback, At
<1>2. \A q \in Clients \ {p} : tx'[q] = tx[q]
  BY <1>1, IdleFits, BecomeStep DEF Abort, End, Fits, SInv
<1>3. HistoryFits'
  BY <1>1, <1>2, HistoryKept DEF Abort
<1> QED
  BY <1>1, <1>3, AbortHolds

\* A crash loses an answer whose response has arrived before its commit.
LEMMA CrashHolds ==
  ASSUME SInv, NEW p \in Clients, Crash(p)
  PROVE  SInv'
<1>1. /\ Abort(p) /\ UNCHANGED <<offer, accepted, taken, refused, created>>
      /\ lost' = lost \cup (IF tx[p].pc = "commit" THEN created \cap {<<tx[p].offer, p>>}
                            ELSE {})
  BY DEF Crash, Abort, At
<1>2. \A q \in Clients \ {p} : tx'[q] = tx[q]
  BY <1>1, IdleFits, BecomeStep DEF Abort, End, Fits, SInv
<1>3. HistoryFits
  BY DEF SInv
<1>4. lost' \subseteq created' /\ lost \subseteq lost'
  BY <1>1, <1>3 DEF HistoryFits
<1>5. CreatedAnswersAreAccepted'
  <2> SUFFICES ASSUME NEW o \in Offers, NEW r \in Runners, <<o, r>> \in created \ lost'
               PROVE  \/ accepted[o] = r
                      \/ tx'[r].pc = "commit" /\ tx'[r].op = "answer" /\ tx'[r].offer = o
    BY <1>1 DEF CreatedAnswersAreAccepted, At
  <2>1. \/ accepted[o] = r
        \/ tx[r].pc = "commit" /\ tx[r].op = "answer" /\ tx[r].offer = o
    BY <1>3, <1>4 DEF HistoryFits, CreatedAnswersAreAccepted, At
  <2>2. r = p /\ tx[r].pc = "commit" => tx[r].offer # o
    BY <1>1
  <2>3. r \in Clients
    BY KindsOfClients
  <2> QED
    BY <1>2, <2>1, <2>2, <2>3
<1>6. RefusedOffersAreOver'
  BY <1>1, <1>3 DEF HistoryFits, RefusedOffersAreOver
<1>7. HistoryFits'
  BY <1>1, <1>3, <1>4, <1>5, <1>6 DEF HistoryFits
<1> QED
  BY <1>1, <1>7, AbortHolds

\* The last statement of a request that deletes: it locks the task, if it is
\* there, and the request can commit.
LEMMA LockTaskFits ==
  ASSUME SInv, NEW p \in Clients, NEW new,
         new \subseteq {KeyShare("task", TaskRow), ForUpdate("task", TaskRow)},
         tx[p].pc \in {"reference task", "lock task"},
         tx[p].pc = "reference task" => new = {KeyShare("task", TaskRow)} /\ task = "live",
         tx[p].pc = "lock task" =>
           /\ new \subseteq {ForUpdate("task", TaskRow)}
           /\ Live \subseteq Deleted(p, "offer")
           /\ task = "gone" \/ ForUpdate("task", TaskRow) \in new
  PROVE  Fits(p, [tx[p] EXCEPT !.pc = "commit", !.held = @ \cup new])
<1> DEFINE t == [tx[p] EXCEPT !.pc = "commit", !.held = @ \cup new]
<1>1. tx[p].op \in {"post", "delete task"} /\ tx[p].pc \in Checked
  BY DeletersAreNoRunners, InvFits DEF Fits, Formed, Checked
<1>2. /\ tx[p].pc = "reference task" => tx[p].op = "post"
      /\ tx[p].pc = "lock task" => tx[p].op = "delete task"
  BY InvFits DEF Fits, Formed
<1>3. /\ t \in Requests /\ t.op = tx[p].op /\ t.offer = tx[p].offer
      /\ t.held = tx[p].held \cup new /\ t.doomed = tx[p].doomed /\ t.sdp = tx[p].sdp
      /\ t.pc = "commit" /\ t.todo = tx[p].todo
  BY RequestType, LocksExist DEF SInv, Requests, PCs
<1> HIDE DEF t
<1>4. Fits(p, tx[p])
  BY InvFits
<1>5. Has(t, "offer") = Has(tx[p], "offer") /\ Has(t, "answer") = Has(tx[p], "answer")
  <2>1. \A o \in Offers : ForUpdate("offer", o) \notin new /\ ForUpdate("answer", o) \notin new
    BY DEF ForUpdate, KeyShare
  <2> QED
    BY <2>1, <1>3 DEF Has
<1>6. Formed(p, t) /\ RunnerFormed(p, t)
  BY <1>1, <1>2, <1>3, <1>4 DEF Fits, Formed, RunnerFormed
<1>7. DeleterFormed(t)
  <2>1. DeleterFormed(tx[p])
    BY <1>4 DEF Fits
  <2>2. \A k \in new :
          \/ k = KeyShare("task", TaskRow) /\ t.op = "post" /\ t.pc = "commit"
          \/ k = ForUpdate("task", TaskRow) /\ t.op = "delete task" /\ t.pc = "commit"
    BY <1>2, <1>3
  <2>3. ASSUME NEW k \in tx[p].held
        PROVE  \/ \E o \in t.doomed : k = ForUpdate("answer", o)
               \/ \E o \in t.doomed : k = ForUpdate("offer", o) /\ t.pc # "delete answers"
    <3>1. tx[p].pc # "commit" /\ tx[p].op # "answer"
      BY <1>1
    <3> QED
      BY <2>1, <3>1, <1>3 DEF DeleterFormed
  <2> QED
    BY <2>1, <2>2, <2>3, <1>1, <1>3 DEF DeleterFormed
<1>8. DeletesBoth(t) /\ InsertsFirst(t) /\ PostsToTask(t) /\ ClaimsAccepted(t)
  BY <1>1, <1>2, <1>3, <1>4, <1>5
     DEF Fits, RequestFits, DeletesBoth, InsertsFirst, PostsToTask, ClaimsAccepted,
         Checked
<1>9. DeletesAll(t)
  <2>1. Deleted(p, "offer") = Has(tx[p], "offer")
    BY DEF Deleted, Has
  <2> QED
    BY <2>1, <1>2, <1>3, <1>5 DEF DeletesAll
<1>10. Fits(p, t)
  BY <1>3, <1>6, <1>7, <1>8, <1>9 DEF Fits, RequestFits
<1> QED
  BY <1>10 DEF t

LEMMA ReferenceTaskHolds ==
  ASSUME SInv, NEW p \in Clients, ReferenceTask(p)
  PROVE  SInv'
<1>1. /\ tx[p].pc = "reference task" /\ Granted(p) /\ UNCHANGED <<db, browser>>
      /\ IF task = "live" THEN Lock(p, "commit") ELSE Goto(p, "raise")
  BY DEF ReferenceTask, At
<1>2. CASE task = "live"
  <2> DEFINE t == [tx[p] EXCEPT !.pc = "commit", !.held = @ \cup Wants(p)]
  <2>1. Wants(p) = {KeyShare("task", TaskRow)}
    BY <1>1, <1>2, WantsCases DEF At
  <2>2. Fits(p, t)
    BY <1>1, <1>2, <2>1, LockTaskFits
  <2>3. /\ t.op = tx[p].op /\ t.offer = tx[p].offer /\ t.held = tx[p].held \cup Wants(p)
    BY RequestType DEF SInv, Requests
  <2>4. NobodysWay(p, t)
    BY <1>1, <2>3, GrantedExcludes
  <2>5. Become(p, t)
    BY <1>1, <1>2 DEF Lock
  <2> HIDE DEF t
  <2> QED
    BY <1>1, <2>2, <2>3, <2>4, <2>5, StatementHolds
<1>3. CASE task # "live"
  BY <1>1, <1>3, DeletersAreNoRunners, RaiseHolds
<1> QED
  BY <1>2, <1>3

LEMMA StartDeleteTaskHolds ==
  ASSUME SInv, NEW a \in Admins, StartDeleteTask(a)
  PROVE  SInv'
<1>1. /\ BeginDelete(a, "delete task", NoOffer, Live) /\ UNCHANGED <<db, browser>>
      /\ a \in Clients /\ a \notin Browsers
  BY KindsOfClients DEF StartDeleteTask
<1>2. /\ Fits(a, tx'[a]) /\ NobodysWay(a, tx'[a]) /\ Become(a, tx'[a])
      /\ tx[a].pc = "idle"
  BY <1>1, BeginFits
<1> QED
  BY <1>1, <1>2, StatementHolds

LEMMA LoadOffersHolds ==
  ASSUME SInv, NEW a \in Clients, LoadOffers(a)
  PROVE  SInv'
<1>1. /\ tx[a].pc = "load offers" /\ UNCHANGED <<db, browser>>
      /\ Goto(a, "lock task") \/ Goto(a, "raise")
  BY DEF LoadOffers, At
<1>2. tx[a].op = "delete task" /\ Fits(a, tx[a])
  BY <1>1, InvFits DEF Fits, Formed
<1>3. CASE Goto(a, "lock task")
  <2> DEFINE t == [tx[a] EXCEPT !.pc = "lock task"]
  <2>1. /\ t \in Requests /\ t.op = tx[a].op /\ t.offer = tx[a].offer
        /\ t.held = tx[a].held /\ t.doomed = tx[a].doomed /\ t.sdp = tx[a].sdp
        /\ t.pc = "lock task" /\ t.todo = tx[a].todo
    BY RequestType DEF SInv, Requests, PCs
  <2> HIDE DEF t
  <2>2. Has(t, "offer") = Has(tx[a], "offer") /\ Has(t, "answer") = Has(tx[a], "answer")
    BY <2>1 DEF Has
  <2>3. Formed(a, t) /\ RunnerFormed(a, t) /\ DeleterFormed(t)
    BY <1>1, <1>2, <2>1 DEF Fits, Formed, RunnerFormed, DeleterFormed
  <2>4. RequestFits(t)
    BY <1>1, <1>2, <2>1, <2>2
       DEF Fits, RequestFits, DeletesBoth, InsertsFirst, PostsToTask,
           ClaimsAccepted, DeletesAll, Checked
  <2>5. Fits(a, t)
    BY <2>1, <2>3, <2>4 DEF Fits
  <2> QED
    BY <1>1, <1>3, <2>5, GotoHolds DEF t, PCs
<1>4. CASE Goto(a, "raise")
  BY <1>1, <1>2, <1>4, RaiseHolds
<1> QED
  BY <1>1, <1>3, <1>4

LEMMA LockTaskHolds ==
  ASSUME SInv, NEW a \in Clients, LockTask(a)
  PROVE  SInv'
<1>1. /\ tx[a].pc = "lock task" /\ Granted(a) /\ UNCHANGED <<db, browser>>
      /\ IF Live \subseteq Deleted(a, "offer") THEN Lock(a, "commit")
         ELSE Goto(a, "raise")
  BY DEF LockTask, At
<1>2. CASE Live \subseteq Deleted(a, "offer")
  <2> DEFINE t == [tx[a] EXCEPT !.pc = "commit", !.held = @ \cup Wants(a)]
  <2>1. Wants(a) = IF task = "live" THEN {ForUpdate("task", TaskRow)} ELSE {}
    BY <1>1, WantsCases DEF At
  <2>2. task \in {"live", "gone"}
    BY DEF SInv, SignalingTypeOK
  <2>3. Fits(a, t)
    BY <1>1, <1>2, <2>1, <2>2, LockTaskFits
  <2>4. /\ t.op = tx[a].op /\ t.offer = tx[a].offer /\ t.held = tx[a].held \cup Wants(a)
    BY RequestType DEF SInv, Requests
  <2>5. NobodysWay(a, t)
    BY <1>1, <2>4, GrantedExcludes
  <2>6. Become(a, t)
    BY <1>1, <1>2 DEF Lock
  <2> HIDE DEF t
  <2> QED
    BY <1>1, <2>3, <2>4, <2>5, <2>6, StatementHolds
<1>3. CASE ~ (Live \subseteq Deleted(a, "offer"))
  BY <1>1, <1>3, DeletersAreNoRunners, RaiseHolds
<1> QED
  BY <1>2, <1>3
-----------------------------------------------------------------------------
(***************************************************************************)
(* The steps of runners                                                    *)
(***************************************************************************)
\* What has to be shown of a runner's request.
LEMMA AnswerFits ==
  ASSUME NEW p, NEW t \in Requests, t.op = "answer",
         Formed(p, t), RunnerFormed(p, t), InsertsFirst(t)
  PROVE  Fits(p, t)
BY DEF Fits, DeleterFormed, RequestFits, DeletesBoth, PostsToTask, ClaimsAccepted,
       DeletesAll

LEMMA RunnerAt ==
  ASSUME SInv, NEW r \in Runners
  PROVE  /\ r \in Clients /\ r \notin Browsers
         /\ tx[r].op \in {"none", "answer"}
         /\ tx[r].op = "answer" => /\ tx[r].sdp = r /\ tx[r].offer \in Offers
                                   /\ offer[tx[r].offer] # "none"
BY KindsOfClients, InvFits, RequestType
   DEF SInv, Fits, Formed, RunnerFormed, RequestFits, InsertsFirst, Ops

LEMMA ListOffersHolds ==
  ASSUME SInv, NEW r \in Runners, ListOffers(r)
  PROVE  SInv'
<1>1. PICK o \in Live \ Answered :
        Become(r, [Idle EXCEPT !.op = "answer", !.pc = "find offer",
                               !.offer = o, !.sdp = r])
  BY DEF ListOffers
<1> DEFINE t == [Idle EXCEPT !.op = "answer", !.pc = "find offer",
                             !.offer = o, !.sdp = r]
<1>2. UNCHANGED <<db, browser>> /\ r \in Clients /\ r \notin Browsers /\ tx[r].pc = "idle"
  BY RunnerAt DEF ListOffers, At
<1>3. o \in Offers /\ offer[o] = "live"
  BY DEF Live
<1>4. /\ t \in Requests /\ t.op = "answer" /\ t.pc = "find offer" /\ t.offer = o
      /\ t.sdp = r /\ t.held = {}
  BY <1>3 DEF Idle, Requests, Ops, PCs
<1> HIDE DEF t
<1>5. Formed(r, t) /\ RunnerFormed(r, t) /\ InsertsFirst(t)
  BY <1>3, <1>4 DEF Formed, RunnerFormed, InsertsFirst
<1>6. Fits(r, t)
  BY <1>4, <1>5, AnswerFits
<1>7. NobodysWay(r, t)
  BY <1>4 DEF NobodysWay
<1>8. Become(r, t)
  BY <1>1 DEF t
<1> QED
  BY <1>2, <1>6, <1>7, <1>8, StatementHolds

\* A statement of a runner's request, which gets the locks it asked for.
LEMMA RunnerLocks ==
  ASSUME SInv, NEW r \in Runners, tx[r].op = "answer", tx[r].pc # "commit",
         NEW pc \in {"insert answer", "reference offer", "commit"},
         Lock(r, pc), Granted(r), UNCHANGED <<db, browser>>,
         pc = "insert answer" => tx[r].held \cup Wants(r) = {},
         pc = "reference offer" =>
           tx[r].held \cup Wants(r) = {ForUpdate("answer", tx[r].offer)},
         pc = "commit" =>
           /\ tx[r].held \cup Wants(r) = {ForUpdate("answer", tx[r].offer),
                                          KeyShare("offer", tx[r].offer)}
           /\ tx[r].offer \in Live,
         pc # "insert answer" => tx[r].offer \notin Answered
  PROVE  SInv'
<1> DEFINE t == [tx[r] EXCEPT !.pc = pc, !.held = @ \cup Wants(r)]
<1>1. /\ r \in Clients /\ r \notin Browsers /\ tx[r].sdp = r /\ tx[r].offer \in Offers
      /\ offer[tx[r].offer] # "none"
  BY RunnerAt
<1>2. tx[r].held \cup Wants(r) \subseteq Locks
  <2>1. CASE pc = "insert answer"
    <3>1. tx[r].held \cup Wants(r) = {}
      BY <2>1
    <3> QED
      BY <3>1
  <2>2. CASE pc = "reference offer"
    <3>1. tx[r].held \cup Wants(r) = {ForUpdate("answer", tx[r].offer)}
      BY <2>2
    <3>2. ForUpdate("answer", tx[r].offer) \in Locks
      BY <1>1, LocksExist
    <3> QED
      BY <3>1, <3>2
  <2>3. CASE pc = "commit"
    <3>1. tx[r].held \cup Wants(r) = {ForUpdate("answer", tx[r].offer),
                                      KeyShare("offer", tx[r].offer)}
      BY <2>3
    <3>2. /\ ForUpdate("answer", tx[r].offer) \in Locks
          /\ KeyShare("offer", tx[r].offer) \in Locks
      BY <1>1, LocksExist
    <3> QED
      BY <3>1, <3>2
  <2> QED
    BY <2>1, <2>2, <2>3
<1>3. /\ t \in Requests /\ t.op = "answer" /\ t.pc = pc /\ t.offer = tx[r].offer
      /\ t.sdp = tx[r].sdp /\ t.held = tx[r].held \cup Wants(r)
  BY <1>1, <1>2, RequestType DEF SInv, Requests, PCs
<1>4. Become(r, t)
  BY DEF Lock
<1> HIDE DEF t
<1>5. Formed(r, t) /\ InsertsFirst(t)
  BY <1>1, <1>3 DEF Formed, InsertsFirst
<1>6. RunnerFormed(r, t)
  BY <1>1, <1>3 DEF RunnerFormed
<1>7. Fits(r, t)
  BY <1>3, <1>5, <1>6, AnswerFits
<1>8. NobodysWay(r, t)
  BY <1>1, <1>3, GrantedExcludes
<1> QED
  BY <1>1, <1>4, <1>7, <1>8, StatementHolds

LEMMA InsertAnswerHolds ==
  ASSUME SInv, NEW r \in Runners, InsertAnswer(r)
  PROVE  SInv'
<1>1. /\ tx[r].pc = "insert answer" /\ Granted(r) /\ Lock(r, "reference offer")
      /\ tx[r].offer \notin Answered /\ UNCHANGED <<db, browser>>
  BY DEF InsertAnswer, At
<1>2. /\ tx[r].op = "answer" /\ tx[r].held = {}
  BY <1>1, RunnerAt, InvFits DEF Fits, Formed, RunnerFormed
<1>3. Wants(r) = {ForUpdate("answer", tx[r].offer)}
  BY <1>1, WantsCases DEF At
<1> QED
  BY <1>1, <1>2, <1>3, RunnerLocks

LEMMA ReferenceOfferHolds ==
  ASSUME SInv, NEW r \in Runners, ReferenceOffer(r)
  PROVE  SInv'
<1>1. /\ tx[r].pc = "reference offer" /\ Granted(r) /\ Lock(r, "commit")
      /\ tx[r].offer \in Live /\ UNCHANGED <<db, browser>>
  BY DEF ReferenceOffer, At
<1>2. /\ tx[r].op = "answer" /\ tx[r].held = {ForUpdate("answer", tx[r].offer)}
      /\ tx[r].offer \notin Answered
  BY <1>1, RunnerAt, InvFits DEF Fits, Formed, RunnerFormed, RequestFits, InsertsFirst
<1>3. Wants(r) = {KeyShare("offer", tx[r].offer)}
  <2>1. Wants(r) = {KeyShare("offer", o) : o \in Live \cap {tx[r].offer}}
    BY <1>1, WantsCases DEF At
  <2>2. Live \cap {tx[r].offer} = {tx[r].offer}
    BY <1>1
  <2> QED
    BY <2>1, <2>2
<1> QED
  BY <1>1, <1>2, <1>3, RunnerLocks

\* A runner's request ends, perhaps with 409.
LEMMA RunnerEnds ==
  ASSUME SInv, NEW r \in Runners, End(r),
         UNCHANGED <<task, offer, age, answer, accepted, browser>>, HistoryFits'
  PROVE  SInv'
<1>1. r \in Clients /\ r \notin Browsers
  BY RunnerAt
<1>2. /\ tx' \in [Clients -> Requests] /\ tx'[r] = Idle
      /\ \A q \in Clients \ {r} : tx'[q] = tx[q]
  BY <1>1, IdleFits, BecomeStep DEF End, Fits, SInv
<1>3. Fits(r, tx'[r]) /\ NobodysWay(r, tx'[r])
  <2>1. Fits(r, tx'[r])
    BY <1>2, IdleFits
  <2> QED
    BY <1>2, <2>1 DEF NobodysWay, Idle
<1>4. OnlyStepOf(r)
  BY <1>2 DEF OnlyStepOf, SInv, SignalingTypeOK, Pages
<1> QED
  BY <1>1, <1>3, <1>4, SameAges, StepOfHolds

LEMMA FindOfferHolds ==
  ASSUME SInv, NEW r \in Runners, FindOffer(r)
  PROVE  SInv'
<1>1. /\ tx[r].pc = "find offer" /\ UNCHANGED <<db, browser>>
      /\ Goto(r, "insert answer") \/ End(r)
  BY DEF FindOffer, At
<1>2. tx[r].op = "answer" /\ tx[r].held = {} /\ Fits(r, tx[r])
  BY <1>1, RunnerAt, InvFits DEF Fits, Formed, RunnerFormed
<1>3. CASE Goto(r, "insert answer")
  <2> DEFINE t == [tx[r] EXCEPT !.pc = "insert answer"]
  <2>1. /\ t \in Requests /\ t.op = tx[r].op /\ t.pc = "insert answer"
        /\ t.offer = tx[r].offer /\ t.sdp = tx[r].sdp /\ t.held = tx[r].held
    <3>1. r \in Clients /\ tx[r] \in Requests
      BY RunnerAt, RequestType DEF SInv
    <3> QED
      BY <3>1 DEF Requests, PCs
  <2> HIDE DEF t
  <2>2. Formed(r, t) /\ RunnerFormed(r, t) /\ InsertsFirst(t)
    BY <1>2, <2>1 DEF Fits, Formed, RunnerFormed, RequestFits, InsertsFirst
  <2>3. Fits(r, t)
    BY <1>2, <2>1, <2>2, AnswerFits
  <2> QED
    BY <1>1, <1>3, <2>3, RunnerAt, GotoHolds DEF t, PCs
<1>4. CASE End(r)
  <2>1. UNCHANGED <<task, offer, age, answer, accepted, taken, refused, created, lost, browser>>
    BY <1>1 DEF db
  <2>2. r \in Clients /\ \A q \in Clients \ {r} : tx'[q] = tx[q]
    BY <1>4, RunnerAt, IdleFits, BecomeStep DEF End, Fits, SInv
  <2>3. HistoryFits'
    BY <1>1, <2>1, <2>2, HistoryKept
  <2> QED
    BY <1>4, <2>1, <2>3, RunnerEnds
<1> QED
  BY <1>1, <1>3, <1>4

\* A runner is refused when the offer has an answer, or has been deleted.
LEMMA RefusalHolds ==
  ASSUME SInv, NEW r \in Runners, AlreadyAnswered(r) \/ OfferDeleted(r)
  PROVE  SInv'
<1> DEFINE o == tx[r].offer
<1>1. /\ tx[r].pc \in {"insert answer", "reference offer"} /\ Refuse(r)
      /\ o \in Answered \/ o \notin Live
  BY DEF AlreadyAnswered, OfferDeleted, At
<1>2. tx[r].op = "answer" /\ o \in Offers /\ offer[o] # "none"
  BY <1>1, RunnerAt, InvFits DEF Fits, Formed
<1>3. accepted[o] # NoRunner \/ offer[o] = "gone"
  <2>1. CASE o \in Answered
    <3>1. answer[o] # NoRunner /\ accepted[o] = answer[o]
      BY <1>2, <2>1 DEF SInv, RowsReferToRows, RowsFit, Live, Answered
    <3> QED
      BY <3>1
  <2>2. CASE o \notin Live
    BY <1>2, <2>2 DEF SInv, SignalingTypeOK, Live
  <2> QED
    BY <1>1, <2>1, <2>2
<1>4. /\ UNCHANGED <<task, offer, age, answer, accepted, taken, created, lost, browser>>
      /\ refused' = refused \cup {o} /\ End(r)
  BY <1>1 DEF Refuse
<1>5. r \in Clients /\ \A q \in Clients \ {r} : tx'[q] = tx[q]
  BY <1>4, RunnerAt, IdleFits, BecomeStep DEF End, Fits, SInv
<1>6. HistoryFits
  BY DEF SInv
<1>7. refused' \subseteq Offers /\ RefusedOffersAreOver'
  BY <1>2, <1>3, <1>4, <1>6 DEF HistoryFits, RefusedOffersAreOver
<1>8. CreatedAnswersAreAccepted'
  <2> SUFFICES ASSUME NEW i \in Offers, NEW q \in Runners, <<i, q>> \in created \ lost
               PROVE  \/ accepted[i] = q
                      \/ tx'[q].pc = "commit" /\ tx'[q].op = "answer" /\ tx'[q].offer = i
    BY <1>4 DEF CreatedAnswersAreAccepted, At
  <2>1. \/ accepted[i] = q
        \/ tx[q].pc = "commit" /\ tx[q].op = "answer" /\ tx[q].offer = i
    BY <1>6 DEF HistoryFits, CreatedAnswersAreAccepted, At
  <2>2. tx[r].pc # "commit"
    BY <1>1
  <2>3. q \in Clients
    BY KindsOfClients
  <2> QED
    BY <1>5, <2>1, <2>2, <2>3
<1>9. HistoryFits'
  BY <1>4, <1>6, <1>7, <1>8 DEF HistoryFits
<1> QED
  BY <1>4, <1>9, RunnerEnds

\* The response of an answer, before its commit.
LEMMA EarlyCreatedHolds ==
  ASSUME SInv, NEW r \in Runners, EarlyCreated(r)
  PROVE  SInv'
<1> DEFINE o == tx[r].offer
<1>1. /\ tx[r].pc = "commit" /\ tx[r].op = "answer" /\ created' = created \cup {<<o, r>>}
      /\ UNCHANGED <<task, offer, age, answer, accepted, taken, refused, lost, browser, tx>>
  BY DEF EarlyCreated, At
<1>2. o \in Offers /\ r \in Clients /\ r \notin Browsers
  BY <1>1, RunnerAt
<1>3. HistoryFits
  BY DEF SInv
<1>4. created' \subseteq Offers \X Runners /\ lost' \subseteq created'
  BY <1>1, <1>2, <1>3 DEF HistoryFits
<1>5. RefusedOffersAreOver'
  BY <1>1, <1>3 DEF HistoryFits, RefusedOffersAreOver
<1>6. CreatedAnswersAreAccepted'
  <2> SUFFICES ASSUME NEW i \in Offers, NEW q \in Runners, <<i, q>> \in created' \ lost
               PROVE  \/ accepted[i] = q
                      \/ tx[q].pc = "commit" /\ tx[q].op = "answer" /\ tx[q].offer = i
    BY <1>1 DEF CreatedAnswersAreAccepted, At
  <2>1. CASE <<i, q>> \in created
    BY <1>3, <2>1 DEF HistoryFits, CreatedAnswersAreAccepted, At
  <2>2. CASE i = o /\ q = r
    BY <1>1, <2>2
  <2> QED
    BY <1>1, <2>1, <2>2
<1>7. HistoryFits'
  BY <1>1, <1>3, <1>4, <1>5, <1>6 DEF HistoryFits
<1>8. OnlyStepOf(r) /\ Fits(r, tx'[r]) /\ NobodysWay(r, tx'[r])
  BY <1>1, <1>2, InvFits, HeldExcludes DEF OnlyStepOf, SInv, SignalingTypeOK, Pages
<1> QED
  BY <1>1, <1>2, <1>7, <1>8, SameAges, StepOfHolds
-----------------------------------------------------------------------------
\* Time passes: offers only get older, and sleeping pages wake up or give up.
LEMMA OlderIsOlder ==
  ASSUME NEW n \in 0..(Ttl + 1)
  PROVE  Older(n) \in 0..(Ttl + 1) /\ n <= Older(n) /\ Older(n) <= n + 1
         /\ (n <= Ttl => Older(n) = n + 1)
BY SignalingAssumption DEF Older

LEMMA TickHolds ==
  ASSUME SInv, Tick
  PROVE  SInv'
<1>1. /\ UNCHANGED <<task, offer, answer, tx, accepted, taken, refused, created, lost>>
      /\ age' = OlderOffers
  BY DEF Tick
<1>2. \A o \in Offers : /\ age[o] \in 0..(Ttl + 1)
                        /\ age'[o] = age[o] \/ age'[o] = Older(age[o])
  BY <1>1 DEF OlderOffers, SInv, SignalingTypeOK
<1>3. \A o \in Offers : /\ age'[o] \in 0..(Ttl + 1) /\ age[o] <= age'[o]
                        /\ age'[o] <= age[o] + 1
  BY <1>2, OlderIsOlder, SignalingAssumption
<1>4. ASSUME NEW b \in Browsers
      PROVE  /\ browser[b].state = "asleep" /\ browser[b].polls + 1 < Polls =>
                  browser'[b] = [browser[b] EXCEPT !.state = "awake", !.polls = @ + 1]
             /\ browser[b].state = "asleep" /\ ~ (browser[b].polls + 1 < Polls) =>
                  browser'[b] = Off
             /\ browser[b].state \in {"posting", "awake", "asking", "claiming"} =>
                  browser'[b] = [browser[b] EXCEPT !.late = Older(@)]
             /\ browser[b].state \notin {"asleep", "posting", "awake", "asking", "claiming"} =>
                  browser'[b] = browser[b]
  <2> DEFINE s == browser[b]
  <2>1. browser'[b] =
          CASE s.state = "asleep" /\ s.polls + 1 < Polls ->
                 [s EXCEPT !.state = "awake", !.polls = @ + 1]
            [] s.state = "asleep" /\ ~ (s.polls + 1 < Polls) -> Off
            [] s.state \in {"posting", "awake", "asking", "claiming"} ->
                 [s EXCEPT !.late = Older(@)]
            [] OTHER -> s
    BY Zenon DEF Tick, LaterPages
  <2> QED
    BY Zenon, <2>1
<1>5. ASSUME NEW b \in Browsers
      PROVE  /\ browser'[b] \in Pages
             /\ browser'[b].offer \in {NoOffer, browser[b].offer}
             /\ PageFits(b)'
  <2>1. /\ browser[b] \in Pages /\ browser[b].polls \in Nat /\ browser[b].late \in 0..(Ttl + 1)
        /\ PageFits(b) /\ Polls \in Nat \ {0} /\ Ttl \in Nat
    BY PageType, SignalingAssumption DEF SInv, SignalingTypeOK, Pages, PagesFit
  <2>2. CASE browser[b].state = "asleep" /\ browser[b].polls + 1 < Polls
    <3>1. /\ browser'[b].state = "awake" /\ browser'[b].offer = browser[b].offer
          /\ browser'[b].polls = browser[b].polls + 1 /\ browser'[b].late = browser[b].late
          /\ browser'[b] \in Pages
      <4>1. browser[b].polls + 1 \in 0..Polls
        BY <2>1, <2>2
      <4>2. browser'[b] = [browser[b] EXCEPT !.state = "awake", !.polls = @ + 1]
        BY <1>4, <2>2
      <4> QED
        BY <2>1, <4>1, <4>2 DEF Pages
    <3>2. Waiting(b) /\ browser[b].offer \in Offers
      BY <2>1, <2>2 DEF Waiting, PageFits
    <3>3. /\ tx[b].op # "claim" /\ tx[b].op # "post"
      BY <2>1, <2>2 DEF PageFits
    <3>4. /\ age[browser[b].offer] <= browser[b].polls + browser[b].late
          /\ offer[browser[b].offer] = "gone" =>
                browser[b].polls + browser[b].late > Ttl \/ task = "gone"
      BY <2>1, <3>2 DEF PageFits
    <3>5. /\ age'[browser[b].offer] <= browser'[b].polls + browser'[b].late
          /\ offer[browser[b].offer] = "gone" =>
                browser'[b].polls + browser'[b].late > Ttl \/ task = "gone"
      BY <1>2, <1>3, <2>1, <3>1, <3>2, <3>4
    <3> QED
      BY <1>1, <2>1, <2>2, <3>1, <3>2, <3>3, <3>5 DEF PageFits, Waiting
  <2>3. CASE browser[b].state = "asleep" /\ ~ (browser[b].polls + 1 < Polls)
    <3>1. /\ browser'[b].state = "idle" /\ browser'[b].offer = NoOffer
          /\ browser'[b].polls = 0 /\ browser'[b] \in Pages
      <4>1. browser'[b] = Off
        BY <1>4, <2>3
      <4> QED
        BY <2>1, <4>1 DEF Off, Pages
    <3>2. tx[b].op # "claim" /\ tx[b].op # "post"
      BY <2>1, <2>3 DEF PageFits
    <3> QED
      BY <1>1, <2>1, <3>1, <3>2 DEF PageFits, Waiting
  <2>4. CASE browser[b].state \in {"posting", "awake", "asking", "claiming"}
    <3>1. /\ Older(browser[b].late) \in 0..(Ttl + 1)
          /\ browser[b].late <= Older(browser[b].late)
          /\ browser[b].late <= Ttl => Older(browser[b].late) = browser[b].late + 1
      BY <2>1, OlderIsOlder
    <3>2. /\ browser'[b].state = browser[b].state /\ browser'[b].offer = browser[b].offer
          /\ browser'[b].polls = browser[b].polls /\ browser'[b].late = Older(browser[b].late)
          /\ browser'[b] \in Pages
      BY <1>4, <2>1, <2>4, <3>1 DEF Pages
    <3>3. Waiting(b)' <=> Waiting(b)
      BY <3>2 DEF Waiting
    <3>4. Waiting(b) =>
            /\ browser[b].offer \in Offers
            /\ age'[browser[b].offer] <= browser'[b].polls + browser'[b].late
            /\ offer[browser[b].offer] = "gone" =>
                  browser'[b].polls + browser'[b].late > Ttl \/ task = "gone"
      <4> SUFFICES ASSUME Waiting(b)
                   PROVE  /\ browser[b].offer \in Offers
                          /\ age'[browser[b].offer] <= browser'[b].polls + browser'[b].late
                          /\ offer[browser[b].offer] = "gone" =>
                                browser'[b].polls + browser'[b].late > Ttl \/ task = "gone"
        OBVIOUS
      <4>1. /\ browser[b].offer \in Offers
            /\ age[browser[b].offer] <= browser[b].polls + browser[b].late
            /\ offer[browser[b].offer] = "gone" =>
                  browser[b].polls + browser[b].late > Ttl \/ task = "gone"
        BY <2>1 DEF PageFits
      <4>2. PICK n \in 0..(Ttl + 1), m \in 0..(Ttl + 1) :
              n = age[browser[b].offer] /\ m = age'[browser[b].offer] /\ m <= n + 1
        BY <1>2, <1>3, <4>1
      <4>3. m <= browser[b].polls + Older(browser[b].late)
        <5>1. CASE browser[b].late <= Ttl
          BY <2>1, <3>1, <4>1, <4>2, <5>1
        <5>2. CASE ~ (browser[b].late <= Ttl)
          BY <2>1, <3>1, <4>2, <5>2
        <5> QED
          BY <5>1, <5>2
      <4>4. browser[b].polls + browser[b].late > Ttl =>
              browser[b].polls + Older(browser[b].late) > Ttl
        BY <2>1, <3>1
      <4> QED
        BY <3>2, <4>1, <4>2, <4>3, <4>4
    <3> QED
      BY <1>1, <2>1, <3>2, <3>3, <3>4 DEF PageFits
  <2>5. CASE browser[b].state \notin {"asleep", "posting", "awake", "asking", "claiming"}
    <3>1. browser'[b] = browser[b] /\ ~ Waiting(b)
      BY <1>4, <2>5 DEF Waiting
    <3> QED
      BY <1>1, <2>1, <3>1 DEF PageFits, Waiting
  <2> QED
    BY <2>2, <2>3, <2>4, <2>5
<1>6. browser' \in [Browsers -> Pages]
  <2>1. browser' = [b \in Browsers |-> browser'[b]]
    BY DEF Tick, LaterPages
  <2> QED
    BY <1>5, <2>1
<1>7. age' \in [Offers -> 0..(Ttl + 1)]
  <2>1. age' = [o \in Offers |-> age'[o]]
    BY <1>1 DEF OlderOffers
  <2> QED
    BY <1>3, <2>1
<1>8. SignalingTypeOK'
  BY <1>1, <1>6, <1>7 DEF SInv, SignalingTypeOK, Pages
<1>9. RequestsFormed' /\ LocksExclude'
  BY <1>1 DEF SInv, RequestsFormed, LocksExclude
<1>10. RequestsFit'
  <2> SUFFICES ASSUME NEW p \in Clients
               PROVE  RequestFits(tx[p])'
    BY DEF RequestsFit
  <2>1. RequestFits(tx[p]) /\ tx[p].doomed \subseteq Offers
    BY RequestType DEF SInv, RequestsFit
  <2>2. tx' = tx /\ Live' = Live /\ Answered' = Answered
    BY <1>1 DEF Live, Answered
  <2>3. PostsToTask(tx[p])'
    <3>1. \A o \in Offers : age[o] > Ttl => age'[o] > Ttl
      BY <1>2, <1>3, SignalingAssumption
    <3> QED
      BY <1>1, <2>1, <3>1 DEF RequestFits, PostsToTask
  <2> QED
    BY <1>1, <2>1, <2>2, <2>3
       DEF RequestFits, DeletesBoth, InsertsFirst, ClaimsAccepted, DeletesAll, Has
<1>11. PagesFit'
  BY <1>5 DEF PagesFit
<1>12. PagesApart'
  <2>1. \A b \in Browsers : \A o \in Offers : HasId(b, o)' => HasId(b, o)
    BY <1>1, <1>5, SignalingAssumption DEF HasId
  <2> QED
    BY <2>1 DEF SInv, PagesApart
<1>13. RowsFit' /\ RowsReferToRows'
  BY <1>1 DEF SInv, RowsFit, RowsReferToRows, Live, Answered
<1>14. HistoryFits'
  BY <1>1, SameHistory
<1> QED
  BY <1>8, <1>9, <1>10, <1>11, <1>12, <1>13, <1>14 DEF SInv
-----------------------------------------------------------------------------
(***************************************************************************)
(* Commits                                                                 *)
(***************************************************************************)
\* Two clients do not hold the same row in ways that conflict.
LEMMA Apart ==
  ASSUME SInv, NEW p \in Clients, NEW q \in Clients \ {p}, NEW table, NEW row
  PROVE  /\ ForUpdate(table, row) \in tx[p].held =>
              ForUpdate(table, row) \notin tx[q].held /\ KeyShare(table, row) \notin tx[q].held
         /\ KeyShare(table, row) \in tx[p].held => ForUpdate(table, row) \notin tx[q].held
<1>1. /\ Conflicts(ForUpdate(table, row), ForUpdate(table, row))
      /\ Conflicts(ForUpdate(table, row), KeyShare(table, row))
      /\ Conflicts(KeyShare(table, row), ForUpdate(table, row))
  BY DEF Conflicts, ForUpdate, KeyShare
<1> QED
  BY <1>1 DEF SInv, LocksExclude

LEMMA EndFits ==
  ASSUME SInv, NEW p \in Clients, End(p)
  PROVE  /\ tx' \in [Clients -> Requests] /\ tx'[p] = Idle
         /\ \A q \in Clients \ {p} : tx'[q] = tx[q]
         /\ RequestsFormed' /\ LocksExclude'
         /\ RequestFits(tx[p])'
<1>1. /\ tx' \in [Clients -> Requests] /\ tx'[p] = Idle
      /\ \A q \in Clients \ {p} : tx'[q] = tx[q]
  BY IdleFits, BecomeStep DEF End, Fits, SInv
<1>2. RequestsFormed'
  <2>1. Formed(p, Idle) /\ RunnerFormed(p, Idle) /\ DeleterFormed(Idle)
    BY IdleFits DEF Fits
  <2> QED
    BY <1>1, <2>1 DEF SInv, RequestsFormed
<1>3. LocksExclude'
  BY <1>1, ExcludeKept DEF SInv, NobodysWay, Idle
<1>4. RequestFits(tx[p])'
  BY <1>1 DEF Idle, RequestFits, DeletesBoth, InsertsFirst, PostsToTask,
              ClaimsAccepted, DeletesAll, Has, Checked
<1> QED
  BY <1>1, <1>2, <1>3, <1>4

LEMMA CommitAnswerHolds ==
  ASSUME SInv, NEW r \in Runners, CommitAnswer(r)
  PROVE  SInv'
<1> DEFINE o == tx[r].offer
<1>1. /\ tx[r].pc = "commit" /\ tx[r].op = "answer" /\ End(r)
      /\ answer' = [answer EXCEPT ![o] = r]
      /\ accepted' = [accepted EXCEPT ![o] = r]
      /\ created' = created \cup {<<o, r>>}
      /\ UNCHANGED <<task, offer, age, taken, refused, lost, browser>>
  BY DEF CommitAnswer, At
<1>2. /\ r \in Clients /\ r \notin Browsers /\ o \in Offers
      /\ r # NoRunner
  BY <1>1, RunnerAt, SignalingAssumption
<1>3. /\ o \in Live \ Answered
      /\ ForUpdate("answer", o) \in tx[r].held
      /\ KeyShare("offer", o) \in tx[r].held
  <2>1. RunnerFormed(r, tx[r]) /\ InsertsFirst(tx[r])
    BY <1>2, InvFits DEF Fits, RequestFits
  <2> QED
    BY <1>1, <2>1 DEF RunnerFormed, InsertsFirst
<1>4. /\ tx' \in [Clients -> Requests] /\ tx'[r] = Idle
      /\ \A q \in Clients \ {r} : tx'[q] = tx[q]
      /\ RequestsFormed' /\ LocksExclude' /\ RequestFits(tx[r])'
  BY <1>1, <1>2, EndFits
<1>5. Live' = Live /\ Answered' = Answered \cup {o}
  BY <1>1, <1>2 DEF Live, Answered, SInv, SignalingTypeOK
<1>6. \A i \in Offers \ {o} : accepted'[i] = accepted[i] /\ answer'[i] = answer[i]
  BY <1>1 DEF SInv, SignalingTypeOK
<1>7. accepted'[o] = r /\ answer'[o] = r /\ accepted[o] = NoRunner
  BY <1>1, <1>2, <1>3 DEF SInv, SignalingTypeOK, RowsFit, Live, Answered
<1>8. SignalingTypeOK'
  <2>1. created' \subseteq Offers \X Runners /\ lost' \subseteq created'
    BY <1>1, <1>2 DEF SInv, SignalingTypeOK
  <2> QED
    BY <1>1, <1>2, <1>4, <2>1 DEF SInv, SignalingTypeOK
<1>9. RequestsFit'
  <2> SUFFICES ASSUME NEW q \in Clients, q # r
               PROVE  RequestFits(tx[q])'
    BY <1>4 DEF RequestsFit
  <2>1. PICK t : t = tx[q] /\ tx'[q] = t /\ Fits(q, t)
    BY <1>4, InvFits
  <2>2. o \notin Has(t, "offer") /\ ForUpdate("answer", o) \notin t.held
    BY <1>2, <1>3, <2>1, Apart DEF Has
  <2>3. DeletesBoth(t)'
    BY <1>5, <2>1, <2>2 DEF Fits, RequestFits, DeletesBoth, Has
  <2>4. InsertsFirst(t)'
    <3>1. t.op = "answer" /\ t.pc \in {"reference offer", "commit"} =>
            ForUpdate("answer", t.offer) \in t.held
      BY <2>1 DEF Fits, RunnerFormed
    <3>2. t.op = "answer" /\ t.pc \in {"reference offer", "commit"} => t.offer # o
      BY <2>2, <3>1
    <3> QED
      BY <1>1, <1>5, <2>1, <3>2 DEF Fits, RequestFits, InsertsFirst
  <2>5. ClaimsAccepted(t)'
    <3>1. t.op = "claim" => t.offer \in Offers /\ t.sdp \in Runners /\ accepted[t.offer] = t.sdp
      BY <2>1 DEF Fits, Formed, RequestFits, ClaimsAccepted
    <3>2. t.op = "claim" => t.offer # o /\ accepted'[t.offer] = t.sdp
      BY <1>6, <1>7, <3>1, SignalingAssumption
    <3> QED
      BY <1>1, <2>1, <3>2 DEF Fits, RequestFits, ClaimsAccepted, Has
  <2>6. PostsToTask(t)' /\ DeletesAll(t)'
    BY <1>1, <1>5, <2>1 DEF Fits, RequestFits, PostsToTask, DeletesAll, Has
  <2>7. RequestFits(t)'
    BY <2>3, <2>4, <2>5, <2>6 DEF RequestFits
  <2> QED
    BY <2>1, <2>7 DEF RequestFits, DeletesBoth, InsertsFirst, PostsToTask,
                      ClaimsAccepted, DeletesAll, Has
<1>10. PagesFit'
  <2> SUFFICES ASSUME NEW b \in Browsers
               PROVE  PageFits(b)'
    BY DEF PagesFit
  <2>1. PageFits(b) /\ tx'[b] = tx[b]
    BY <1>2, <1>4, KindsOfClients DEF SInv, PagesFit
  <2> QED
    BY <1>1, <2>1 DEF PageFits, Waiting
<1>11. PagesApart'
  <2>1. \A b \in Browsers : tx'[b] = tx[b]
    BY <1>2, <1>4, KindsOfClients
  <2>2. \A b \in Browsers : \A i \in Offers : HasId(b, i)' <=> HasId(b, i)
    BY <1>1, <2>1 DEF HasId
  <2> QED
    BY <2>2 DEF SInv, PagesApart
<1>12. RowsFit'
  BY <1>1, <1>3, <1>6, <1>7 DEF SInv, RowsFit, Live
<1>13. RowsReferToRows'
  BY <1>1, <1>3, <1>5 DEF SInv, RowsReferToRows
<1>14. HistoryFits'
  <2>1. HistoryFits
    BY DEF SInv
  <2>2. RefusedOffersAreOver'
    BY <1>1, <1>2, <1>6, <1>7, <2>1 DEF HistoryFits, RefusedOffersAreOver
  <2>3. CreatedAnswersAreAccepted'
    <3> SUFFICES ASSUME NEW i \in Offers, NEW q \in Runners, <<i, q>> \in created' \ lost
                 PROVE  \/ accepted'[i] = q
                        \/ tx'[q].pc = "commit" /\ tx'[q].op = "answer" /\ tx'[q].offer = i
      BY <1>1 DEF CreatedAnswersAreAccepted, At
    <3>1. CASE i = o /\ q = r
      BY <1>7, <3>1
    <3>2. CASE ~ (i = o /\ q = r)
      <4>1. <<i, q>> \in created \ lost
        BY <1>1, <3>2
      <4>2. \/ accepted[i] = q
            \/ tx[q].pc = "commit" /\ tx[q].op = "answer" /\ tx[q].offer = i
        BY <2>1, <4>1 DEF HistoryFits, CreatedAnswersAreAccepted, At
      <4>3. accepted[i] = q => accepted'[i] = q
        BY <1>6, <1>7, SignalingAssumption
      <4>4. q # r => tx'[q] = tx[q]
        BY <1>4, KindsOfClients
      <4>5. q = r => i # o
        BY <3>2
      <4> QED
        BY <4>2, <4>3, <4>4, <4>5
    <3> QED
      BY <3>1, <3>2
  <2>4. created' \subseteq Offers \X Runners /\ lost' \subseteq created'
    BY <1>1, <1>2, <2>1 DEF HistoryFits
  <2> QED
    BY <1>1, <2>1, <2>2, <2>3, <2>4 DEF HistoryFits
<1> QED
  BY <1>4, <1>8, <1>9, <1>10, <1>11, <1>12, <1>13, <1>14 DEF SInv

\* What a page waits for is no older than the page has been waiting.
LEMMA PageAge ==
  ASSUME SInv, NEW b \in Browsers, Waiting(b)
  PROVE  /\ browser[b].offer \in Offers
         /\ age[browser[b].offer] > Ttl => browser[b].polls + browser[b].late > Ttl
<1>1. PageFits(b)
  BY DEF SInv, PagesFit
<1>2. browser[b].polls \in Nat /\ browser[b].late \in Nat
  BY PageType DEF SInv
<1>3. browser[b].offer \in Offers
  BY <1>1 DEF PageFits
<1>4. age[browser[b].offer] \in Nat /\ Ttl \in Nat
  <2>1. age[browser[b].offer] \in 0..(Ttl + 1)
    BY <1>3 DEF SInv, SignalingTypeOK
  <2> QED
    BY <2>1, SignalingAssumption
<1>5. age[browser[b].offer] <= browser[b].polls + browser[b].late
  BY <1>1 DEF PageFits
<1> QED
  BY <1>2, <1>3, <1>4, <1>5

\* The commit of a deletion, whoever has asked for it, and of the offer that it
\* makes room for. What the page of p does is shown for each kind of request.
LEMMA DeletionHolds ==
  ASSUME SInv, NEW p \in Clients, tx[p].pc = "commit",
         tx[p].op \in {"post", "claim", "delete task"}, End(p),
         NEW new \in SUBSET Offers, DeleteRows(p, new),
         new # {} => tx[p].op = "post",
         \A o \in new : offer[o] = "none",
         \A c \in Browsers \ {p} : \A o \in new : ~ HasId(c, o),
         task' = IF tx[p].op = "delete task" THEN "gone" ELSE task,
         UNCHANGED <<accepted, refused, created, lost>>, AgesKept(p),
         taken' \in [Offers -> SUBSET Runners],
         browser' \in [Browsers -> Pages],
         \A c \in Browsers \ {p} : browser'[c] = browser[c],
         p \in Browsers => PageFits(p)' /\ IdsKept(p)
  PROVE  SInv'
<1>1. PICK gone \in SUBSET Offers, emptied \in SUBSET Offers :
        gone = Has(tx[p], "offer") /\ emptied = Has(tx[p], "answer")
  BY DEF Has
<1>2. /\ Fits(p, tx[p]) /\ gone \subseteq tx[p].doomed
      /\ gone \subseteq Live /\ emptied \subseteq gone
      /\ Answered \cap gone \subseteq emptied
      /\ emptied \subseteq Answered
  <2>1. Fits(p, tx[p])
    BY InvFits
  <2> QED
    BY <1>1, <2>1, DeleterLocks DEF Fits, RequestFits, DeletesBoth, Checked
<1>3. /\ tx' \in [Clients -> Requests] /\ tx'[p] = Idle
      /\ \A q \in Clients \ {p} : tx'[q] = tx[q]
      /\ RequestsFormed' /\ LocksExclude' /\ RequestFits(tx[p])'
  BY EndFits
<1>4. /\ offer' = [o \in Offers |-> IF o \in gone THEN "gone"
                                    ELSE IF o \in new THEN "live" ELSE offer[o]]
      /\ answer' = [o \in Offers |-> IF o \in emptied THEN NoRunner ELSE answer[o]]
  BY <1>1 DEF DeleteRows, Deleted, Has
<1>5. new \cap gone = {} /\ new \cap Answered = {}
  BY <1>2 DEF SInv, RowsReferToRows, Live
<1>6. /\ Live' = (Live \ gone) \cup new
      /\ Answered' = Answered \ emptied
      /\ \A o \in Offers : /\ offer'[o] = "none" <=> offer[o] = "none" /\ o \notin new
                           /\ offer[o] = "gone" => offer'[o] = "gone"
                           /\ offer'[o] = "gone" => offer[o] = "gone" \/ o \in gone
      /\ \A o \in Offers \ emptied : answer'[o] = answer[o]
  BY <1>2, <1>4, <1>5 DEF Live, Answered, SInv, SignalingTypeOK
<1>7. SignalingTypeOK'
  <2>1. /\ offer' \in [Offers -> {"none", "live", "gone"}]
        /\ answer' \in [Offers -> Runners \cup {NoRunner}]
    BY <1>4 DEF SInv, SignalingTypeOK
  <2>2. age' \in [Offers -> 0..(Ttl + 1)]
    BY DEF AgesKept
  <2> QED
    BY <1>3, <2>1, <2>2 DEF SInv, SignalingTypeOK, Pages
\* The task is there as long as somebody posts to it.
<1>8. /\ tx[p].op = "post" => task = "live" /\ KeyShare("task", TaskRow) \in tx[p].held
      /\ tx[p].op = "delete task" =>
           /\ Live \subseteq gone
           /\ task = "gone" \/ ForUpdate("task", TaskRow) \in tx[p].held
  BY <1>1, <1>2 DEF Fits, RequestFits, PostsToTask, DeletesAll
<1>9. RequestsFit'
  <2> SUFFICES ASSUME NEW q \in Clients, q # p
               PROVE  RequestFits(tx[q])'
    BY <1>3 DEF RequestsFit
  <2>1. PICK t : t = tx[q] /\ tx'[q] = t /\ Fits(q, t)
    BY <1>3, InvFits
  <2>2. Has(t, "offer") \cap gone = {} /\ Has(t, "answer") \cap emptied = {}
    BY <1>1, <2>1, Apart DEF Has
  <2>3. DeletesBoth(t)'
    BY <1>6, <2>1, <2>2 DEF Fits, RequestFits, DeletesBoth, Has
  <2>4. InsertsFirst(t)'
    <3>1. t.op = "answer" => t.offer \in Offers
      BY <2>1 DEF Fits, RunnerFormed
    <3>2. t.op = "answer" /\ t.pc = "commit" => KeyShare("offer", t.offer) \in t.held
      BY <2>1 DEF Fits, RunnerFormed
    <3>3. t.op = "answer" /\ t.pc = "commit" => t.offer \notin gone
      BY <1>1, <2>1, <3>2, Apart DEF Has
    <3>4. t.op = "answer" => offer'[t.offer] # "none"
      BY <1>6, <2>1, <3>1 DEF Fits, RequestFits, InsertsFirst
    <3> QED
      BY <1>6, <2>1, <3>3, <3>4 DEF Fits, RequestFits, InsertsFirst
  <2>5. ClaimsAccepted(t)'
    <3> SUFFICES ASSUME t.op = "claim"
                 PROVE  ClaimsAccepted(t)'
      BY DEF ClaimsAccepted
    <3>1. t.offer \in Offers /\ ClaimsAccepted(t) /\ offer[t.offer] # "none"
      BY <2>1 DEF Fits, Formed, RequestFits, ClaimsAccepted
    <3>2. offer'[t.offer] # "none" /\ (offer[t.offer] = "gone" => offer'[t.offer] = "gone")
      BY <1>6, <3>1
    <3> QED
      BY <3>1, <3>2 DEF ClaimsAccepted, Has
  <2>6. PostsToTask(t)'
    <3> SUFFICES ASSUME t.op = "post"
                 PROVE  PostsToTask(t)'
      BY DEF PostsToTask
    <3>1. PostsToTask(t) /\ t.doomed \subseteq Offers
      BY <2>1 DEF Fits, RequestFits, Requests
    <3>2. t.pc = "commit" => tx[p].op # "delete task"
      BY <1>8, <2>1, <3>1, Apart DEF PostsToTask
    <3>3. \A o \in t.doomed : offer'[o] # "none" /\ age'[o] > Ttl
      BY <1>6, <3>1 DEF PostsToTask, AgesKept
    <3> QED
      BY <3>1, <3>2, <3>3 DEF PostsToTask
  <2>7. DeletesAll(t)'
    <3> SUFFICES ASSUME t.op = "delete task", t.pc = "commit"
                 PROVE  DeletesAll(t)'
      BY DEF DeletesAll
    <3>1. /\ Live \subseteq Has(t, "offer")
          /\ task = "gone" \/ ForUpdate("task", TaskRow) \in t.held
      BY <2>1 DEF Fits, RequestFits, DeletesAll
    <3>2. tx[p].op # "post"
      BY <1>8, <2>1, <3>1, Apart
    <3>3. new = {}
      BY <3>2
    <3> QED
      BY <1>6, <3>1, <3>3 DEF DeletesAll, Has
  <2>8. RequestFits(t)'
    BY <2>3, <2>4, <2>5, <2>6, <2>7 DEF RequestFits
  <2> QED
    BY <2>1, <2>8 DEF RequestFits, DeletesBoth, InsertsFirst, PostsToTask,
                      ClaimsAccepted, DeletesAll, Has
<1>10. PagesFit'
  <2> SUFFICES ASSUME NEW b \in Browsers, b # p
               PROVE  PageFits(b)'
    BY DEF PagesFit
  <2>1. PageFits(b) /\ tx'[b] = tx[b] /\ browser'[b] = browser[b]
    BY <1>3, KindsOfClients DEF SInv, PagesFit
  <2>2. /\ browser[b].offer \in Offers =>
             age'[browser[b].offer] = age[browser[b].offer] /\ browser[b].offer \notin new
        /\ tx[b].offer \in Offers => tx[b].offer \notin new
    BY DEF AgesKept, HasId
  <2>3. Waiting(b) => /\ browser[b].offer \in Offers
                      /\ age[browser[b].offer] > Ttl => browser[b].polls + browser[b].late > Ttl
    BY PageAge
  <2>4. \A o \in gone : tx[p].op = "post" => age[o] > Ttl
    BY <1>2 DEF Fits, RequestFits, PostsToTask
  <2>5. ASSUME Waiting(b), browser[b].offer \in gone
        PROVE  browser[b].polls + browser[b].late > Ttl \/ task' = "gone"
    <3>1. CASE tx[p].op = "post"
      BY <2>3, <2>4, <2>5, <3>1
    <3>2. CASE tx[p].op = "claim"
      <4>1. p \in Browsers /\ tx[p].doomed = {tx[p].offer} /\ tx[p].offer \in Offers
        BY <1>2, <3>2 DEF Fits, Formed
      <4>2. browser[b].offer = tx[p].offer
        BY <1>2, <2>5, <4>1
      <4>3. HasId(b, tx[p].offer) /\ HasId(p, tx[p].offer)
        BY <4>2 DEF HasId
      <4> QED
        BY <4>1, <4>3 DEF SInv, PagesApart
    <3>3. CASE tx[p].op = "delete task"
      BY <3>3
    <3> QED
      BY <3>1, <3>2, <3>3
  <2>6. task = "gone" => task' = "gone"
    OBVIOUS
  <2>7. Waiting(b)' <=> Waiting(b)
    BY <2>1 DEF Waiting
  <2>8. ASSUME Waiting(b), offer'[browser[b].offer] = "gone"
        PROVE  browser[b].polls + browser[b].late > Ttl \/ task' = "gone"
    <3>1. offer[browser[b].offer] = "gone" \/ browser[b].offer \in gone
      BY <1>6, <2>3, <2>8
    <3>2. offer[browser[b].offer] = "gone" =>
            browser[b].polls + browser[b].late > Ttl \/ task = "gone"
      BY <2>1, <2>8 DEF PageFits
    <3> QED
      BY <2>5, <2>6, <2>8, <3>1, <3>2
  <2>9. tx[b].offer \in Offers /\ offer[tx[b].offer] = "none" => offer'[tx[b].offer] = "none"
    BY <1>6, <2>2
  <2> QED
    BY <2>1, <2>2, <2>3, <2>7, <2>8, <2>9 DEF PageFits
<1>11. RowsFit'
  <2> SUFFICES ASSUME NEW o \in Offers
               PROVE  /\ offer'[o] = "none" => accepted[o] = NoRunner
                      /\ offer'[o] = "live" => accepted[o] = answer'[o]
    BY DEF RowsFit
  <2>1. CASE o \in new
    <3>1. offer'[o] = "live" /\ accepted[o] = NoRunner /\ answer'[o] = NoRunner
      BY <1>4, <1>5, <2>1 DEF SInv, RowsFit, Answered
    <3> QED
      BY <3>1
  <2>2. CASE o \in gone
    BY <1>4, <2>2
  <2>3. CASE o \notin new \cup gone
    BY <1>2, <1>4, <2>3 DEF SInv, RowsFit
  <2> QED
    BY <2>1, <2>2, <2>3
<1>12. RowsReferToRows'
  <2>1. Answered' \subseteq Live'
    BY <1>2, <1>6 DEF SInv, RowsReferToRows
  <2>2. Live' # {} => task' = "live"
    BY <1>6, <1>8 DEF SInv, RowsReferToRows
  <2> QED
    BY <2>1, <2>2 DEF RowsReferToRows
<1>13. HistoryFits'
  <2>1. HistoryFits
    BY DEF SInv
  <2>2. RefusedOffersAreOver'
    BY <1>6, <2>1 DEF HistoryFits, RefusedOffersAreOver
  <2>3. CreatedAnswersAreAccepted'
    <3> SUFFICES ASSUME NEW o \in Offers, NEW r \in Runners, <<o, r>> \in created \ lost
                 PROVE  \/ accepted[o] = r
                        \/ tx'[r].pc = "commit" /\ tx'[r].op = "answer" /\ tx'[r].offer = o
      BY DEF CreatedAnswersAreAccepted, At
    <3>1. \/ accepted[o] = r
          \/ tx[r].pc = "commit" /\ tx[r].op = "answer" /\ tx[r].offer = o
      BY <2>1 DEF HistoryFits, CreatedAnswersAreAccepted, At
    <3> QED
      BY <1>3, <3>1, KindsOfClients
  <2> QED
    BY <2>1, <2>2, <2>3 DEF HistoryFits
<1>14. PagesApart'
  BY <1>3, ApartKept DEF SInv
<1> QED
  BY <1>3, <1>7, <1>9, <1>10, <1>11, <1>12, <1>13, <1>14 DEF SInv

LEMMA CommitPostHolds ==
  ASSUME SInv, NEW b \in Browsers, CommitPost(b)
  PROVE  SInv'
<1>1. /\ tx[b].pc = "commit" /\ tx[b].op = "post" /\ End(b) /\ b \in Clients
      /\ UNCHANGED <<task, accepted, taken, refused, created, lost>>
  BY KindsOfClients DEF CommitPost, At
<1>2. /\ PageFits(b) /\ tx'[b].op = "none" /\ tx'[b].offer = NoOffer
      /\ Deleted(b, "offer") \subseteq Live
      /\ browser[b].polls \in Nat /\ browser[b].late \in Nat
  <2>1. PageFits(b) /\ browser[b].polls \in Nat /\ browser[b].late \in Nat
    BY PageType DEF SInv, PagesFit
  <2>2. tx'[b].op = "none" /\ tx'[b].offer = NoOffer
    BY <1>1, EndFits DEF Idle
  <2>3. Deleted(b, "offer") \subseteq Live
    BY <1>1, InvFits DEF Fits, RequestFits, DeletesBoth, Deleted, Has
  <2> QED
    BY <2>1, <2>2, <2>3
\* The offer is the next one, unless the page has been told its id before.
<1>3. PICK o \in Offers :
        /\ offer[o] = "none" /\ DeleteRows(b, {o}) /\ AgesKept(b)
        /\ \A c \in Browsers \ {b} : ~ HasId(c, o)
        /\ \/ /\ browser[b].state = "posting" /\ age'[o] = browser[b].late
              /\ \/ browser' = [browser EXCEPT ![b].state = "awake", ![b].offer = o]
                 \/ browser' = [browser EXCEPT ![b] = Off]
           \/ /\ browser[b].state # "posting" /\ tx[b].offer = o
              /\ browser' = browser /\ age' = age
  <2>1. CASE tx[b].offer = NoOffer
    <3>1. /\ FreeIds # {} /\ DeleteRows(b, {NextId})
          /\ age' = [age EXCEPT ![NextId] = browser[b].late]
          /\ \/ browser' = [browser EXCEPT ![b].state = "awake", ![b].offer = NextId]
             \/ browser' = [browser EXCEPT ![b] = Off]
      BY <2>1 DEF CommitPost, Promise, Fail
    <3>2. browser[b].state = "posting"
      BY <1>1, <1>2, <2>1, SignalingAssumption DEF PageFits
    <3>3. PICK o \in Offers : o = NextId /\ offer[o] = "none"
                             /\ \A c \in Browsers : ~ HasId(c, o)
      BY <3>1, NextIdIsFree
    <3>4. AgesKept(b) /\ age'[o] = browser[b].late
      BY <3>1, <3>3, NewAge
    <3> QED
      BY <3>1, <3>2, <3>3, <3>4
  <2>2. CASE tx[b].offer # NoOffer
    <3>1. DeleteRows(b, {tx[b].offer}) /\ browser' = browser /\ age' = age
      BY <2>2 DEF CommitPost
    <3>2. /\ tx[b].offer \in Offers /\ offer[tx[b].offer] = "none"
          /\ browser[b].state # "posting"
      BY <1>1, <1>2, <2>2 DEF PageFits
    <3>3. \A c \in Browsers \ {b} : ~ HasId(c, tx[b].offer)
      BY <3>2 DEF SInv, PagesApart, HasId
    <3> QED
      BY <3>1, <3>2, <3>3, SameAges
  <2> QED
    BY <2>1, <2>2
<1>4. offer'[o] = "live"
  BY <1>2, <1>3 DEF DeleteRows, Live
<1>5. /\ browser' \in [Browsers -> Pages]
      /\ \A c \in Browsers \ {b} : browser'[c] = browser[c]
      /\ \/ /\ browser'[b].state = "awake" /\ browser'[b].offer = o
            /\ browser'[b].polls = browser[b].polls /\ browser'[b].late = browser[b].late
            /\ age'[o] = browser[b].late
         \/ /\ browser'[b].state = "idle" /\ browser'[b].offer = NoOffer
            /\ browser'[b].polls = 0
         \/ /\ browser[b].state # "posting" /\ tx[b].offer = o
            /\ browser' = browser /\ age' = age
  <2>1. browser \in [Browsers -> Pages] /\ Off \in Pages
    BY SignalingAssumption DEF SInv, SignalingTypeOK, Pages, Off
  <2>2. CASE browser' = [browser EXCEPT ![b].state = "awake", ![b].offer = o]
                 /\ age'[o] = browser[b].late
    BY <2>1, <2>2 DEF Pages
  <2>3. CASE browser' = [browser EXCEPT ![b] = Off]
    BY <2>1, <2>3 DEF Off
  <2>4. CASE browser[b].state # "posting" /\ tx[b].offer = o /\ browser' = browser /\ age' = age
    BY <2>1, <2>4
  <2> QED
    BY <1>3, <2>2, <2>3, <2>4
<1>6. IdsKept(b)
  BY <1>2, <1>3, <1>5, SignalingAssumption DEF IdsKept, HasId
<1>7. PageFits(b)'
  <2>1. CASE /\ browser'[b].state = "awake" /\ browser'[b].offer = o
             /\ browser'[b].polls = browser[b].polls /\ browser'[b].late = browser[b].late
             /\ age'[o] = browser[b].late
    <3>1. age'[o] <= browser'[b].polls + browser'[b].late
      BY <1>2, <2>1
    <3> QED
      BY <1>2, <1>4, <2>1, <3>1 DEF PageFits, Waiting
  <2>2. CASE browser'[b].state = "idle" /\ browser'[b].offer = NoOffer /\ browser'[b].polls = 0
    BY <1>2, <2>2, SignalingAssumption DEF PageFits, Waiting
  <2>3. CASE browser[b].state # "posting" /\ tx[b].offer = o /\ browser' = browser /\ age' = age
    BY <1>1, <1>2, <1>3, <1>4, <2>3 DEF PageFits, Waiting
  <2> QED
    BY <1>5, <2>1, <2>2, <2>3
<1>8. PICK new \in SUBSET Offers : new = {o}
  OBVIOUS
<1>9. /\ DeleteRows(b, new) /\ \A i \in new : offer[i] = "none"
      /\ \A c \in Browsers \ {b} : \A i \in new : ~ HasId(c, i)
  BY <1>3, <1>8
<1>10. taken' \in [Offers -> SUBSET Runners]
  BY <1>1 DEF SInv, SignalingTypeOK
<1> QED
  BY <1>1, <1>3, <1>5, <1>6, <1>7, <1>9, <1>10, DeletionHolds

LEMMA CommitClaimHolds ==
  ASSUME SInv, NEW b \in Browsers, CommitClaim(b)
  PROVE  SInv'
<1>1. /\ tx[b].pc = "commit" /\ tx[b].op = "claim" /\ End(b) /\ b \in Clients
      /\ DeleteRows(b, {})
      /\ UNCHANGED <<task, age, accepted, refused, created, lost>>
      /\ \/ /\ taken' = [taken EXCEPT ![tx[b].offer] = @ \cup {tx[b].sdp}]
            /\ browser' = [browser EXCEPT ![b] = [Off EXCEPT !.state = "connected"]]
         \/ UNCHANGED taken /\ browser' = [browser EXCEPT ![b] = Off]
         \/ browser[b].state = "connected" /\ UNCHANGED <<browser, taken>>
  BY KindsOfClients DEF CommitClaim, GiveAnswer, Fail, At
<1>2. tx[b].sdp \in Runners
  BY <1>1, InvFits DEF Fits, Formed
<1>3. taken' \in [Offers -> SUBSET Runners]
  BY <1>1, <1>2 DEF SInv, SignalingTypeOK
<1>4. /\ browser' \in [Browsers -> Pages]
      /\ \A c \in Browsers \ {b} : browser'[c] = browser[c]
      /\ browser'[b].state \in {"connected", "idle"}
      /\ browser'[b].offer \in {browser[b].offer, NoOffer}
      /\ browser'[b].polls < Polls
  <2>1. /\ browser \in [Browsers -> Pages] /\ browser[b].polls < Polls
        /\ Off \in Pages /\ [Off EXCEPT !.state = "connected"] \in Pages
    BY SignalingAssumption DEF SInv, SignalingTypeOK, Pages, Off, PagesFit, PageFits
  <2>2. CASE browser' = [browser EXCEPT ![b] = [Off EXCEPT !.state = "connected"]]
    BY <2>1, <2>2, SignalingAssumption DEF Off
  <2>3. CASE browser' = [browser EXCEPT ![b] = Off]
    BY <2>1, <2>3, SignalingAssumption DEF Off
  <2>4. CASE browser[b].state = "connected" /\ browser' = browser
    BY <2>1, <2>4
  <2> QED
    BY <1>1, <2>2, <2>3, <2>4
<1>5. tx'[b].op = "none" /\ tx'[b].offer = NoOffer
  BY <1>1, EndFits DEF Idle
<1>6. PageFits(b)'
  BY <1>4, <1>5 DEF PageFits, Waiting
<1>7. IdsKept(b)
  BY <1>4, <1>5, LearnsNothing
<1>8. PICK new \in SUBSET Offers : new = {}
  OBVIOUS
<1>9. DeleteRows(b, new)
  BY <1>1, <1>8
<1> QED
  BY <1>1, <1>3, <1>4, <1>6, <1>7, <1>8, <1>9, SameAges, DeletionHolds

LEMMA CommitDeleteTaskHolds ==
  ASSUME SInv, NEW a \in Admins, CommitDeleteTask(a)
  PROVE  SInv'
<1>1. /\ tx[a].pc = "commit" /\ tx[a].op = "delete task" /\ End(a)
      /\ a \in Clients /\ a \notin Browsers
      /\ DeleteRows(a, {}) /\ task' = "gone"
      /\ UNCHANGED <<age, browser, accepted, taken, refused, created, lost>>
  BY KindsOfClients DEF CommitDeleteTask, At
<1>2. browser' \in [Browsers -> Pages] /\ taken' \in [Offers -> SUBSET Runners]
  BY <1>1 DEF Pages, SInv, SignalingTypeOK
<1>3. PICK new \in SUBSET Offers : new = {}
  OBVIOUS
<1>4. DeleteRows(a, new)
  BY <1>1, <1>3
<1> QED
  BY <1>1, <1>2, <1>3, <1>4, SameAges, DeletionHolds
-----------------------------------------------------------------------------
(***************************************************************************)
(* Deadlocks                                                               *)
(***************************************************************************)
\* In a cycle everybody waits for a member and is waited for by a member.
LEMMA CycleMembers ==
  ASSUME NEW C \in Cycles, NEW p \in C
  PROVE  /\ C \subseteq Clients
         /\ \E q \in C : Waits(p, q)
         /\ \E q \in C : Waits(q, p)
<1> DEFINE waits == {e \in Clients \X Clients : Waits(e[1], e[2])}
<1>1. /\ C \in Stuck(Clients, waits)
      /\ \A R \in Stuck(C, waits) : R = C
  BY DEF Cycles, WaitCycles
<1>2. /\ C \subseteq Clients
      /\ \A q \in C : \E r \in C : <<q, r>> \in waits
  BY <1>1 DEF Stuck
<1>3. \A q, r \in C : <<q, r>> \in waits <=> Waits(q, r)
  BY <1>2
<1> HIDE DEF waits
<1>4. PICK q \in C : Waits(p, q)
  BY <1>2, <1>3
<1>5. ASSUME \A r \in C : ~ Waits(r, p)
      PROVE  FALSE
  <2>1. q \in C \ {p}
    BY <1>4 DEF Waits
  <2>2. \A r \in C \ {p} : \E s \in C \ {p} : <<r, s>> \in waits
    BY <1>2, <1>3, <1>5
  <2>3. C \ {p} \in Stuck(C, waits)
    BY <2>1, <2>2 DEF Stuck
  <2> QED
    BY <1>1, <2>3
<1> QED
  BY <1>2, <1>4, <1>5

\* The row that a client waits for, by the statement it is at.
LEMMA WantsWhat ==
  ASSUME SInv, NEW p \in Clients, NEW l \in Wants(p)
  PROVE  \/ /\ tx[p].pc = "delete answers" /\ tx[p].row \in Answered
            /\ TableOf(l) = "answer" /\ RowOf(l) = tx[p].row
         \/ /\ tx[p].pc = "delete offers" /\ tx[p].row \in Live
            /\ TableOf(l) = "offer" /\ RowOf(l) = tx[p].row
         \/ /\ tx[p].pc = "check answers" /\ Orphans(p) # {}
            /\ TableOf(l) = "answer" /\ RowOf(l) \in Answered
         \/ tx[p].pc \in {"reference task", "lock task"} /\ TableOf(l) = "task"
         \/ /\ tx[p].pc = "insert answer"
            /\ TableOf(l) = "answer" /\ RowOf(l) = tx[p].offer
         \/ tx[p].pc = "reference offer" /\ TableOf(l) = "offer" /\ RowOf(l) \in Live
<1>1. CASE tx[p].pc = "delete answers"
  <2>1. Wants(p) = {ForUpdate("answer", i) : i \in Answered \cap {tx[p].row}}
    BY <1>1, WantsRow DEF SInv, At
  <2>2. tx[p].row \in Answered /\ l = ForUpdate("answer", tx[p].row)
    BY <2>1
  <2> QED
    BY <1>1, <2>2, LockParts
<1>2. CASE tx[p].pc = "delete offers"
  <2>1. Wants(p) = {ForUpdate("offer", i) : i \in Live \cap {tx[p].row}}
    BY <1>2, WantsRow DEF SInv, At
  <2>2. tx[p].row \in Live /\ l = ForUpdate("offer", tx[p].row)
    BY <2>1
  <2> QED
    BY <1>2, <2>2, LockParts
<1>3. CASE tx[p].pc = "check answers"
  <2>1. Wants(p) = IF Orphans(p) # {} THEN {KeyShare("answer", Min(Orphans(p)))} ELSE {}
    BY <1>3, WantsCases DEF At
  <2>2. Orphans(p) # {} /\ l = KeyShare("answer", Min(Orphans(p)))
    BY <2>1
  <2>3. Orphans(p) \subseteq Answered /\ Orphans(p) \subseteq Nat
    BY SignalingAssumption DEF Orphans, Answered
  <2>4. Min(Orphans(p)) \in Answered
    BY <2>2, <2>3, MinIsLeast
  <2>5. TableOf(l) = "answer" /\ RowOf(l) = Min(Orphans(p))
    BY <2>2, LockParts
  <2> QED
    BY <1>3, <2>2, <2>4, <2>5
<1>4. CASE tx[p].pc = "reference task"
  <2>1. Wants(p) = IF task = "live" THEN {KeyShare("task", TaskRow)} ELSE {}
    BY <1>4, WantsCases DEF At
  <2>2. l = KeyShare("task", TaskRow)
    BY <2>1
  <2> QED
    BY <1>4, <2>2, LockParts
<1>5. CASE tx[p].pc = "lock task"
  <2>1. Wants(p) = IF task = "live" THEN {ForUpdate("task", TaskRow)} ELSE {}
    BY <1>5, WantsCases DEF At
  <2>2. l = ForUpdate("task", TaskRow)
    BY <2>1
  <2> QED
    BY <1>5, <2>2, LockParts
<1>6. CASE tx[p].pc = "insert answer"
  <2>1. Wants(p) = {ForUpdate("answer", tx[p].offer)}
    BY <1>6, WantsCases DEF At
  <2>2. l = ForUpdate("answer", tx[p].offer)
    BY <2>1
  <2> QED
    BY <1>6, <2>2, LockParts
<1>7. CASE tx[p].pc = "reference offer"
  <2>1. Wants(p) = {KeyShare("offer", o) : o \in Live \cap {tx[p].offer}}
    BY <1>7, WantsCases DEF At
  <2>2. tx[p].offer \in Live /\ l = KeyShare("offer", tx[p].offer)
    BY <2>1
  <2>3. TableOf(l) = "offer" /\ RowOf(l) = tx[p].offer
    BY <2>2, LockParts
  <2> QED
    BY <1>7, <2>2, <2>3
<1>8. CASE tx[p].pc \in {"idle", "find offer", "load offers", "commit", "raise"}
  BY <1>8, WantsCases
<1> QED
  BY <1>1, <1>2, <1>3, <1>4, <1>5, <1>6, <1>7, <1>8, RequestType DEF SInv, PCs

\* A runner at "insert answer" holds nothing, so that nobody waits for it; what
\* one holds at "reference offer" is an answer that nobody sees but other
\* runners at "insert answer".
LEMMA RunnersInNoCycle ==
  ASSUME SInv, NEW C \in Cycles, NEW r \in Runners, r \in C
  PROVE  FALSE
<1>1. PICK p \in C : Waits(p, r)
  BY CycleMembers
<1>2. PICK s \in C : Waits(r, s)
  BY CycleMembers
<1>3. PICK l \in Wants(p), m \in tx[r].held : Conflicts(l, m)
  BY <1>1 DEF Waits
<1>4. r \in Clients /\ p \in Clients /\ Wants(r) # {} /\ tx[r].held # {}
  BY <1>2, <1>3, CycleMembers DEF Waits
<1>5. /\ tx[r].pc = "reference offer" /\ tx[r].op = "answer"
      /\ m = ForUpdate("answer", tx[r].offer) /\ tx[r].offer \notin Answered
  <2>1. tx[r].op = "answer"
    BY <1>3, <1>4, RunnerAt, InvFits DEF Fits, Formed
  <2>2. tx[r].pc # "commit"
    BY <1>4, WantsCases
  <2>3. RunnerFormed(r, tx[r]) /\ InsertsFirst(tx[r])
    BY <1>4, InvFits DEF Fits, RequestFits
  <2>4. tx[r].pc = "reference offer"
    BY <1>3, <2>1, <2>2, <2>3 DEF RunnerFormed
  <2> QED
    BY <1>3, <2>1, <2>3, <2>4 DEF RunnerFormed, InsertsFirst
<1>6. /\ TableOf(l) = "answer" /\ RowOf(l) = tx[r].offer
  <2>1. TableOf(m) = "answer" /\ RowOf(m) = tx[r].offer
    BY <1>5, LockParts
  <2> QED
    BY <1>3, <2>1, ConflictParts
<1>7. tx[p].pc = "insert answer"
  BY <1>3, <1>4, <1>5, <1>6, WantsWhat
<1>8. tx[p].held = {}
  <2>1. tx[p].op = "answer"
    BY <1>4, <1>7, InvFits DEF Fits, Formed
  <2> QED
    BY <1>4, <1>7, <2>1, InvFits DEF Fits, RunnerFormed
<1>9. PICK q \in C : Waits(q, p)
  BY CycleMembers
<1> QED
  BY <1>8, <1>9 DEF Waits

LEMMA DeadlockVictimHolds ==
  ASSUME SInv, NEW p \in Clients, DeadlockVictim(p)
  PROVE  SInv'
<1>1. PICK C \in Cycles : p \in C
  BY DEF DeadlockVictim
<1>2. Goto(p, "raise") /\ UNCHANGED <<db, browser>>
  BY DEF DeadlockVictim
<1>3. p \notin Runners
  BY <1>1, RunnersInNoCycle
<1>4. PICK q \in C : Waits(p, q)
  BY <1>1, CycleMembers
<1>5. PICK l \in Wants(p) : TRUE
  BY <1>4 DEF Waits
<1>6. tx[p].pc \in {"delete answers", "delete offers", "check answers",
                    "reference task", "lock task", "insert answer", "reference offer"}
  BY WantsWhat
<1>7. tx[p].op # "answer"
  BY <1>3, InvFits DEF Fits, RunnerFormed
<1>8. tx[p].pc \notin {"insert answer", "reference offer"}
  BY <1>7, InvFits DEF Fits, Formed
<1> QED
  BY <1>2, <1>6, <1>8, DeletersAreNoRunners, RaiseHolds

\* If no member of a cycle fails for an answer that came late, each is at one of
\* its DELETEs. One that deletes a single row, and waits for it, holds no row of
\* the same table: it is at its second DELETE, some other member at the first
\* waits for its answer, and it waits for an offer that a third one holds. These
\* two delete several rows. So do any two members if none deletes a single row.
LEMMA CyclesHaveACause ==
  ASSUME SInv
  PROVE  CyclesNeedACause
<1> SUFFICES ASSUME NEW C \in Cycles,
                    \A p \in C : ~ (At(p, "check answers") /\ Orphans(p) # {})
             PROVE  \E p, q \in C : p # q /\ DeletesSeveral(p) /\ DeletesSeveral(q)
  BY DEF CyclesNeedACause
<1>1. ASSUME NEW p \in C
      PROVE  /\ p \in Clients
             /\ tx[p].op \in {"post", "claim", "delete task"}
             /\ tx[p].pc \in {"delete answers", "delete offers", "reference task",
                              "lock task"}
             /\ DeleterFormed(tx[p])
  <2>1. p \in Clients /\ p \notin Runners
    BY CycleMembers, RunnersInNoCycle
  <2>2. PICK q \in C : Waits(p, q)
    BY CycleMembers
  <2>3. PICK l \in Wants(p) : TRUE
    BY <2>2 DEF Waits
  <2>4. tx[p].op # "answer"
    BY <2>1, InvFits DEF Fits, RunnerFormed
  <2>5. tx[p].pc \notin {"insert answer", "reference offer"} /\ DeleterFormed(tx[p])
    BY <2>1, <2>4, InvFits DEF Fits, Formed
  <2>6. tx[p].pc \in {"delete answers", "delete offers", "reference task", "lock task"}
    BY <2>1, <2>5, WantsWhat DEF At
  <2> QED
    BY <2>1, <2>5, <2>6, DeletersAreNoRunners
<1>2. ASSUME NEW p \in C, NEW q \in C, Waits(p, q)
      PROVE  \/ tx[p].pc = "delete answers" /\ tx[p].row \in Has(tx[q], "answer")
             \/ tx[p].pc = "delete offers" /\ tx[p].row \in Has(tx[q], "offer")
  <2>1. PICK l \in Wants(p), m \in tx[q].held : Conflicts(l, m)
    BY <1>2 DEF Waits
  <2>2. TableOf(l) = TableOf(m) /\ RowOf(l) = RowOf(m)
    BY <2>1, ConflictParts
  <2>3. \/ \E o \in Offers : m = ForUpdate("answer", o)
        \/ \E o \in Offers : m = ForUpdate("offer", o)
    BY <1>1, RequestType DEF SInv, DeleterFormed
  <2>4. \/ TableOf(m) = "answer" /\ RowOf(m) \in Has(tx[q], "answer")
        \/ TableOf(m) = "offer" /\ RowOf(m) \in Has(tx[q], "offer")
    <3>1. CASE \E o \in Offers : m = ForUpdate("answer", o)
      BY <3>1, LockParts DEF Has
    <3>2. CASE \E o \in Offers : m = ForUpdate("offer", o)
      BY <3>2, LockParts DEF Has
    <3> QED
      BY <2>3, <3>1, <3>2
  <2>5. \/ /\ tx[p].pc = "delete answers"
           /\ TableOf(l) = "answer" /\ RowOf(l) = tx[p].row
        \/ /\ tx[p].pc = "delete offers"
           /\ TableOf(l) = "offer" /\ RowOf(l) = tx[p].row
        \/ TableOf(l) = "task"
    BY <1>1, WantsWhat DEF At
  <2> QED
    BY <2>2, <2>4, <2>5
\* What a member has is doomed, and so is the row that it waits for.
<1>3. ASSUME NEW p \in C
      PROVE  /\ tx[p].pc \in {"delete answers", "delete offers"}
             /\ tx[p].row \in tx[p].doomed
             /\ Has(tx[p], "answer") \subseteq tx[p].doomed
             /\ Has(tx[p], "offer") \subseteq tx[p].doomed
             /\ tx[p].pc = "delete answers" => Has(tx[p], "offer") = {}
  <2>1. PICK q \in C : Waits(p, q)
    BY CycleMembers
  <2>2. /\ tx[p].pc \in {"delete answers", "delete offers"} /\ tx[p].row \in Offers
    BY <1>2, <2>1 DEF Has
  <2>3. DeleterFormed(tx[p]) /\ tx[p].op # "answer"
    BY <1>1
  <2>4. tx[p].row \in tx[p].doomed
    BY <2>2, <2>3, SignalingAssumption DEF DeleterFormed, NextRows
  <2> QED
    BY <2>2, <2>3, <2>4, DeleterLocks
<1>4. ASSUME NEW p \in C, ~ DeletesSeveral(p), NEW q \in C, Waits(p, q)
      PROVE  /\ tx[p].pc = "delete answers" => Has(tx[p], "answer") = {}
             /\ tx[p].pc = "delete offers" => Has(tx[p], "offer") = {}
  <2>1. /\ Has(tx[p], "answer") \subseteq {tx[p].row}
        /\ Has(tx[p], "offer") \subseteq {tx[p].row}
    BY <1>3, <1>4 DEF DeletesSeveral
  <2>2. p \in Clients /\ q \in Clients \ {p}
    BY <1>1, <1>4 DEF Waits
  <2>3. \A table : ForUpdate(table, tx[p].row) \in tx[q].held =>
                     ForUpdate(table, tx[p].row) \notin tx[p].held
    BY <2>2, Apart
  <2>4. /\ tx[p].pc = "delete answers" => ForUpdate("answer", tx[p].row) \in tx[q].held
        /\ tx[p].pc = "delete offers" => ForUpdate("offer", tx[p].row) \in tx[q].held
    BY <1>2, <1>4 DEF Has
  <2> QED
    BY <2>1, <2>3, <2>4 DEF Has
\* A member that deletes a single row is not at its first DELETE.
<1>5. ASSUME NEW p \in C, tx[p].pc = "delete answers"
      PROVE  DeletesSeveral(p)
  <2> SUFFICES ASSUME ~ DeletesSeveral(p)
               PROVE  FALSE
    OBVIOUS
  <2>1. PICK q \in C : Waits(p, q)
    BY CycleMembers
  <2>2. Has(tx[p], "answer") = {} /\ Has(tx[p], "offer") = {}
    BY <1>3, <1>4, <1>5, <2>1
  <2>3. PICK r \in C : Waits(r, p)
    BY CycleMembers
  <2> QED
    BY <1>2, <2>2, <2>3
<1>6. CASE \E p \in C : ~ DeletesSeveral(p)
  <2>1. PICK p \in C : ~ DeletesSeveral(p)
    BY <1>6
  <2>2. PICK q \in C : Waits(p, q)
    BY CycleMembers
  <2>3. PICK r \in C : Waits(r, p)
    BY CycleMembers
  <2>4. tx[p].pc = "delete offers"
    BY <1>3, <1>5, <2>1
  <2>5. Has(tx[p], "offer") = {}
    BY <1>4, <2>1, <2>2, <2>4
  <2>6. tx[r].pc = "delete answers" /\ DeletesSeveral(r)
    BY <1>2, <1>5, <2>3, <2>5
  <2>7. Has(tx[q], "offer") # {}
    BY <1>2, <2>2, <2>4
  <2>8. tx[q].pc = "delete offers"
    BY <1>3, <2>7
  <2>9. PICK s \in C : Waits(q, s)
    BY CycleMembers
  <2>10. DeletesSeveral(q)
    BY <1>4, <2>7, <2>8, <2>9
  <2>11. q # r
    BY <2>6, <2>8
  <2> QED
    BY <2>6, <2>10, <2>11
<1>7. CASE \A p \in C : DeletesSeveral(p)
  <2>1. PICK p \in C : TRUE
    <3>1. C # {}
      BY DEF Cycles, WaitCycles, Stuck
    <3> QED
      BY <3>1
  <2>2. PICK q \in C : Waits(p, q)
    BY CycleMembers
  <2>3. p # q
    BY <2>2 DEF Waits
  <2> QED
    BY <1>7, <2>3
<1> QED
  BY <1>6, <1>7
-----------------------------------------------------------------------------
(***************************************************************************)
(* The theorems                                                            *)
(***************************************************************************)
LEMMA InitHolds ==
  ASSUME SignalingInit
  PROVE  SInv
<1>1. SignalingTypeOK
  <2>1. Idle \in Requests
    BY IdleFits DEF Fits
  <2> QED
    BY <2>1, SignalingAssumption DEF SignalingInit, SignalingTypeOK, Off
<1>2. \A p \in Clients : tx[p] = Idle
  BY DEF SignalingInit
<1>3. \A p \in Clients : Fits(p, tx[p])
  BY <1>2, IdleFits
<1>4. RequestsFormed /\ RequestsFit
  BY <1>3 DEF Fits, RequestsFormed, RequestsFit
<1>5. LocksExclude
  BY <1>2 DEF LocksExclude, Idle
<1>6. PagesFit /\ PagesApart
  <2>1. \A b \in Browsers : browser[b] = Off /\ tx[b] = Idle
    BY <1>2, KindsOfClients DEF SignalingInit
  <2>2. PagesFit
    BY <2>1, SignalingAssumption DEF PagesFit, PageFits, Waiting, Idle, Off
  <2>3. PagesApart
    BY <2>1, SignalingAssumption DEF PagesApart, HasId, Idle, Off
  <2> QED
    BY <2>2, <2>3
<1>7. RowsFit /\ RowsReferToRows
  BY DEF SignalingInit, RowsFit, RowsReferToRows, Live, Answered
<1>8. HistoryFits
  BY DEF SignalingInit, HistoryFits, RefusedOffersAreOver, CreatedAnswersAreAccepted
<1> QED
  BY <1>1, <1>4, <1>5, <1>6, <1>7, <1>8 DEF SInv

LEMMA RespondHolds ==
  ASSUME SInv, NEW p \in Clients, Respond(p)
  PROVE  SInv'
<1>1. CASE Delete(p)
  BY <1>1, DeleteRowHolds, DeleteOffersHolds, OffersDeletedHolds, CheckAnswersHolds,
     AnswerLeftHolds DEF Delete
<1>2. CASE Rollback(p)
  BY <1>2, RollbackHolds
<1>3. CASE DeadlockVictim(p)
  BY <1>3, DeadlockVictimHolds
<1>4. CASE /\ p \in Browsers
           /\ \/ ReferenceTask(p) \/ EarlyResponse(p) \/ CommitPost(p)
              \/ EarlyAnswer(p) \/ CommitClaim(p)
  BY <1>4, ReferenceTaskHolds, EarlyResponseHolds, CommitPostHolds, EarlyAnswerHolds,
     CommitClaimHolds
<1>5. CASE /\ p \in Runners
           /\ \/ FindOffer(p) \/ InsertAnswer(p) \/ AlreadyAnswered(p)
              \/ ReferenceOffer(p) \/ OfferDeleted(p) \/ EarlyCreated(p) \/ CommitAnswer(p)
  BY <1>5, FindOfferHolds, InsertAnswerHolds, RefusalHolds, ReferenceOfferHolds,
     EarlyCreatedHolds, CommitAnswerHolds
<1>6. CASE /\ p \in Admins
           /\ LoadOffers(p) \/ LockTask(p) \/ CommitDeleteTask(p)
  BY <1>6, LoadOffersHolds, LockTaskHolds, CommitDeleteTaskHolds
<1> QED
  BY <1>1, <1>2, <1>3, <1>4, <1>5, <1>6 DEF Respond

LEMMA StepHolds ==
  ASSUME SInv, [SignalingNext]_signalingVars
  PROVE  SInv'
<1>1. CASE Tick
  BY <1>1, TickHolds
<1>2. ASSUME NEW b \in Browsers, StartPost(b) \/ Poll(b) \/ PollFails(b)
      PROVE  SInv'
  BY <1>2, StartPostHolds, StartClaimHolds, PollHolds DEF Poll
<1>3. ASSUME NEW r \in Runners, ListOffers(r)
      PROVE  SInv'
  BY <1>3, ListOffersHolds
<1>4. ASSUME NEW a \in Admins, StartDeleteTask(a)
      PROVE  SInv'
  BY <1>4, StartDeleteTaskHolds
<1>5. ASSUME NEW p \in Clients, Respond(p) \/ Crash(p)
      PROVE  SInv'
  BY <1>5, RespondHolds, CrashHolds
<1>6. CASE UNCHANGED signalingVars
  <2> USE <1>6 DEF signalingVars
  <2>1. UNCHANGED <<task, offer, age, answer, browser, tx, accepted, taken, refused,
                    created, lost>>
    OBVIOUS
  <2>2. SignalingTypeOK' /\ RequestsFormed' /\ LocksExclude'
    <3>1. SignalingTypeOK'
      BY <2>1 DEF SInv, SignalingTypeOK
    <3>2. RequestsFormed'
      BY <2>1 DEF SInv, RequestsFormed
    <3>3. LocksExclude'
      BY <2>1 DEF SInv, LocksExclude
    <3> QED
      BY <3>1, <3>2, <3>3
  <2>3. RequestsFit'
    <3>1. Live' = Live /\ Answered' = Answered
      BY <2>1 DEF Live, Answered
    <3>2. ASSUME NEW p \in Clients
          PROVE  RequestFits(tx[p])'
      <4>1. RequestFits(tx[p])
        BY DEF SInv, RequestsFit
      <4>2. (DeletesBoth(tx[p]) /\ DeletesAll(tx[p]))'
        BY <2>1, <3>1, <4>1 DEF RequestFits, DeletesBoth, DeletesAll, Has
      <4>3. (InsertsFirst(tx[p]) /\ PostsToTask(tx[p]))'
        BY <2>1, <3>1, <4>1 DEF RequestFits, InsertsFirst, PostsToTask
      <4>4. ClaimsAccepted(tx[p])'
        BY <2>1, <3>1, <4>1 DEF RequestFits, ClaimsAccepted, Has
      <4> QED
        BY <4>2, <4>3, <4>4 DEF RequestFits
    <3> QED
      BY <3>2, <2>1 DEF RequestsFit, Clients
  <2>4. PagesFit' /\ PagesApart'
    BY <2>1 DEF SInv, PagesFit, PageFits, Waiting, PagesApart, HasId
  <2>5. RowsFit' /\ RowsReferToRows' /\ HistoryFits'
    BY <2>1, SameHistory DEF SInv, RowsFit, RowsReferToRows, Live, Answered
  <2> QED
    BY <2>2, <2>3, <2>4, <2>5 DEF SInv
<1> QED
  BY <1>1, <1>2, <1>3, <1>4, <1>5, <1>6 DEF SignalingNext

THEOREM Invariance == SignalingSpec => []SInv
<1>1. SignalingInit => SInv
  BY InitHolds
<1>2. SInv /\ [SignalingNext]_signalingVars => SInv'
  BY StepHolds
<1> QED
  BY <1>1, <1>2, PTL DEF SignalingSpec

\* Rows, pages and requests have their types (SignalingTypeOK), whatever the
\* interleaving of the statements of posts, claims, answers and deletions.
THEOREM TypeCorrect == SignalingSpec => []SignalingTypeOK
<1>1. SInv => SignalingTypeOK
  BY DEF SInv
<1> QED
  BY <1>1, Invariance, PTL

\* What a runner is told of its answer holds: after a 201 the answer is there, or
\* comes with the commit that the response may precede, and waits for the page
\* for as long as the page polls; a refused one was too late; and no runner gets
\* a 500 or is chosen as a deadlock's victim (api_create_webrtc_answer).
THEOREM RunnersToldTheTruth == SignalingSpec => []RunnersAreToldTheTruth
<1>1. SInv => RunnersAreToldTheTruth
  <2> SUFFICES ASSUME SInv
               PROVE  RunnersAreToldTheTruth
    OBVIOUS
  <2>1. AcceptedAnswersStay
    <3> SUFFICES ASSUME NEW b \in Browsers, Waiting(b),
                        accepted[browser[b].offer] # NoRunner,
                        task = "live", Polls - 1 + browser[b].late <= Ttl
                 PROVE  answer[browser[b].offer] = accepted[browser[b].offer]
      BY DEF AcceptedAnswersStay
    <3>1. browser[b].offer \in Offers /\ offer[browser[b].offer] # "gone"
      <4>1. PageFits(b)
        BY DEF SInv, PagesFit
      <4>2. browser[b].polls \in Nat /\ browser[b].late \in Nat
        BY PageType DEF SInv
      <4>3. browser[b].polls + browser[b].late <= Ttl
        BY <4>1, <4>2, SignalingAssumption DEF PageFits
      <4> QED
        BY <4>1, <4>2, <4>3, SignalingAssumption DEF PageFits
    <3> QED
      BY <3>1 DEF SInv, SignalingTypeOK, RowsFit
  <2>2. RunnersNeverRaise
    <3>1. ASSUME NEW r \in Runners
          PROVE  tx[r].pc # "raise"
      BY RunnerAt, InvFits DEF Fits, Formed, RunnerFormed
    <3> QED
      BY <3>1 DEF RunnersNeverRaise, At
  <2> QED
    BY <2>1, <2>2 DEF SInv, HistoryFits, RunnersAreToldTheTruth
<1> QED
  BY <1>1, Invariance, PTL

\* No row is left without the one it refers to, and a deadlock is either that of
\* a deletion with an answer committed between its two DELETEs or one in which two
\* deletions of several rows have a part, whatever the order in which a DELETE of
\* crud.py goes through its rows.
THEOREM OrderlyDeletions == SignalingSpec => []DeletionsAreOrderly
<1>1. SInv => DeletionsAreOrderly
  BY CyclesHaveACause DEF SInv, DeletionsAreOrderly
<1> QED
  BY <1>1, Invariance, PTL
-----------------------------------------------------------------------------
(***************************************************************************)
(* The rows implement the mailboxes                                        *)
(***************************************************************************)
\* Where Boxes has the mailbox of each offer.
Box == [o \in Offers |-> IF offer[o] = "none" THEN "none"
                         ELSE IF o \in Live THEN "open" ELSE "closed"]

LEMMA StutterMaps ==
  ASSUME UNCHANGED <<offer, accepted, taken>>
  PROVE  UNCHANGED Boxes!vars
<1>1. Live' = Live
  BY DEF Live
<1> QED
  BY <1>1 DEF Boxes!vars

\* What a deletion has locked closes and what is new opens, nothing else.
LEMMA DeletionTurnsOver ==
  ASSUME SInv, NEW p \in Clients, tx[p].op # "answer",
         NEW new \in SUBSET Offers, \A o \in new : offer[o] = "none",
         DeleteRows(p, new)
  PROVE  /\ \A o \in Deleted(p, "offer") : Box[o] = "open"
         /\ \A o \in new : Box[o] = "none"
         /\ Box' = [o \in Offers |-> IF o \in Deleted(p, "offer") THEN "closed"
                                     ELSE IF o \in new THEN "open" ELSE Box[o]]
<1>1. Deleted(p, "offer") \subseteq Live
  BY InvFits DEF Fits, RequestFits, DeletesBoth, Deleted, Has
<1>2. \A o \in Live : o \in Offers /\ offer[o] = "live"
  BY DEF Live
<1>3. ASSUME NEW o \in Offers
      PROVE  Box'[o] = IF o \in Deleted(p, "offer") THEN "closed"
                       ELSE IF o \in new THEN "open" ELSE Box[o]
  <2>1. /\ Box'[o] = IF offer'[o] = "none" THEN "none"
                     ELSE IF offer'[o] = "live" THEN "open" ELSE "closed"
        /\ Box[o] = IF offer[o] = "none" THEN "none"
                    ELSE IF offer[o] = "live" THEN "open" ELSE "closed"
    BY DEF Box, Live
  <2>2. offer'[o] = IF o \in Deleted(p, "offer") THEN "gone"
                    ELSE IF o \in new THEN "live" ELSE offer[o]
    BY DEF DeleteRows
  <2> QED
    BY <2>1, <2>2
<1> QED
  BY <1>1, <1>2, <1>3 DEF Box

LEMMA TurnoverMaps ==
  ASSUME SInv, NEW p \in Clients, tx[p].op # "answer",
         NEW new \in SUBSET Offers, \A o \in new : offer[o] = "none",
         DeleteRows(p, new), UNCHANGED <<accepted, taken>>
  PROVE  Boxes!Next
<1>1. PICK old \in SUBSET Offers : old = Deleted(p, "offer")
  BY DEF Deleted
<1>2. /\ \A o \in old : Box[o] = "open"
      /\ \A o \in new : Box[o] = "none"
      /\ Box' = [o \in Offers |-> IF o \in old THEN "closed"
                                  ELSE IF o \in new THEN "open" ELSE Box[o]]
  BY <1>1, DeletionTurnsOver
<1>3. \A o \in Offers : Box[o] \in {"none", "open", "closed"}
  BY DEF Box
<1>4. /\ Box' \in [Offers -> {"none", "open", "closed"}]
      /\ \A o \in Offers :
           \/ Box'[o] = Box[o]
           \/ Box[o] = "none" /\ Box'[o] = "open"
           \/ Box[o] = "open" /\ Box'[o] = "closed"
  BY <1>2, <1>3
<1>5. Boxes!Turnover
  BY <1>4 DEF Boxes!Turnover, Box
<1> QED
  BY <1>5 DEF Boxes!Next

LEMMA CommitPostMaps ==
  ASSUME SInv, NEW b \in Browsers, CommitPost(b)
  PROVE  Boxes!Next
<1>1. /\ b \in Clients /\ tx[b].op = "post" /\ tx[b].pc = "commit"
      /\ UNCHANGED <<accepted, taken>>
  BY KindsOfClients DEF CommitPost, At
<1>2. PICK o \in Offers : offer[o] = "none" /\ DeleteRows(b, {o})
  <2>1. CASE tx[b].offer = NoOffer
    BY <2>1, NextIdIsFree DEF CommitPost, Promise
  <2>2. CASE tx[b].offer # NoOffer
    <3>1. PageFits(b)
      BY DEF SInv, PagesFit
    <3> QED
      BY <1>1, <2>2, <3>1 DEF CommitPost, PageFits
  <2> QED
    BY <2>1, <2>2
<1>3. PICK new \in SUBSET Offers : new = {o}
  OBVIOUS
<1>4. DeleteRows(b, new) /\ \A i \in new : offer[i] = "none"
  BY <1>2, <1>3
<1> QED
  BY <1>1, <1>4, TurnoverMaps

LEMMA CommitClaimMaps ==
  ASSUME SInv, NEW b \in Browsers, CommitClaim(b)
  PROVE  Boxes!Next
<1>1. /\ b \in Clients /\ tx[b].op = "claim" /\ tx[b].pc = "commit"
      /\ DeleteRows(b, {}) /\ UNCHANGED accepted
      /\ taken' = [taken EXCEPT ![tx[b].offer] = @ \cup {tx[b].sdp}] \/ UNCHANGED taken
  BY KindsOfClients DEF CommitClaim, GiveAnswer, At
<1>2. PICK new \in SUBSET Offers : new = {}
  OBVIOUS
<1>3. DeleteRows(b, new) /\ \A i \in new : offer[i] = "none"
  BY <1>1, <1>2
<1>4. CASE UNCHANGED taken
  BY <1>1, <1>3, <1>4, TurnoverMaps
<1>5. CASE taken' = [taken EXCEPT ![tx[b].offer] = @ \cup {tx[b].sdp}]
  <2>1. PICK t \in Requests : t = tx[b]
    BY <1>1, RequestType DEF SInv
  <2>2. /\ t.offer \in Offers /\ t.doomed = {t.offer} /\ t.sdp \in Runners
        /\ DeleterFormed(t) /\ ClaimsAccepted(t)
    BY <1>1, <2>1, InvFits DEF Fits, Formed, RequestFits
  <2>3. Deleted(b, "offer") \subseteq {t.offer}
    BY <1>1, <2>1, <2>2, DeleterLocks DEF Deleted, Has
  <2>4. accepted[t.offer] = t.sdp /\ accepted[t.offer] # NoRunner
    BY <1>1, <2>1, <2>2, SignalingAssumption DEF ClaimsAccepted
  <2>5. t.offer \in Deleted(b, "offer") \/ offer[t.offer] = "gone"
    BY <1>1, <2>1, <2>2 DEF ClaimsAccepted, Deleted, Has
  <2>6. Box' = [Box EXCEPT ![t.offer] = "closed"]
    <3>1. Box' = [o \in Offers |-> IF o \in Deleted(b, "offer") THEN "closed"
                                   ELSE IF o \in new THEN "open" ELSE Box[o]]
      BY <1>1, <1>3, DeletionTurnsOver
    <3>2. offer[t.offer] = "gone" => Box[t.offer] = "closed"
      BY <2>2 DEF Box, Live
    <3>3. Box = [o \in Offers |-> Box[o]]
      BY DEF Box
    <3> QED
      BY <1>2, <2>2, <2>3, <2>5, <3>1, <3>2, <3>3
  <2>7. Boxes!Take(t.offer)
    BY <1>1, <1>5, <2>1, <2>4, <2>6 DEF Boxes!Take, Box
  <2> QED
    BY <2>2, <2>7 DEF Boxes!Next
<1> QED
  BY <1>1, <1>4, <1>5

\* The page is given the answer that was accepted; the mailbox is not closed yet.
LEMMA EarlyAnswerMaps ==
  ASSUME SInv, NEW b \in Browsers, EarlyAnswer(b)
  PROVE  Boxes!Next
<1>1. /\ taken' = [taken EXCEPT ![tx[b].offer] = @ \cup {tx[b].sdp}]
      /\ UNCHANGED <<offer, accepted>> /\ browser[b].state = "claiming"
  BY DEF EarlyAnswer, GiveAnswer
<1>2. tx[b].op = "claim" /\ b \in Clients
  BY <1>1, KindsOfClients DEF SInv, PagesFit, PageFits
<1>3. PICK o \in Offers : o = tx[b].offer /\ accepted[o] = tx[b].sdp /\ accepted[o] # NoRunner
  <2>1. tx[b].offer \in Offers /\ tx[b].sdp \in Runners
    BY <1>2, InvFits DEF Fits, Formed
  <2>2. accepted[tx[b].offer] = tx[b].sdp
    BY <1>2, InvFits DEF Fits, RequestFits, ClaimsAccepted
  <2> QED
    BY <2>1, <2>2, SignalingAssumption
<1>4. Box' = Box
  BY <1>1 DEF Box, Live
<1>5. Boxes!Take(o)
  BY <1>1, <1>3, <1>4 DEF Boxes!Take, Box
<1> QED
  BY <1>5 DEF Boxes!Next

LEMMA CommitDeleteTaskMaps ==
  ASSUME SInv, NEW a \in Admins, CommitDeleteTask(a)
  PROVE  Boxes!Next
<1>1. /\ a \in Clients /\ tx[a].op = "delete task"
      /\ DeleteRows(a, {}) /\ UNCHANGED <<accepted, taken>>
  BY KindsOfClients DEF CommitDeleteTask
<1>2. PICK new \in SUBSET Offers : new = {}
  OBVIOUS
<1>3. DeleteRows(a, new) /\ \A i \in new : offer[i] = "none"
  BY <1>1, <1>2
<1> QED
  BY <1>1, <1>3, TurnoverMaps

LEMMA CommitAnswerMaps ==
  ASSUME SInv, NEW r \in Runners, CommitAnswer(r)
  PROVE  Boxes!Next
<1>1. /\ r \in Clients /\ tx[r].op = "answer" /\ tx[r].pc = "commit"
      /\ accepted' = [accepted EXCEPT ![tx[r].offer] = r]
      /\ UNCHANGED <<offer, taken>>
  BY KindsOfClients DEF CommitAnswer, At
<1>2. PICK o \in Offers : o = tx[r].offer
  BY <1>1, InvFits DEF Fits, RunnerFormed
<1>3. o \in Live /\ answer[o] = NoRunner
  BY <1>1, <1>2, InvFits DEF Fits, RequestFits, InsertsFirst, Answered
<1>4. accepted[o] = NoRunner
  BY <1>3 DEF SInv, RowsFit, Live
<1>5. Box[o] = "open"
  BY <1>3 DEF Box, Live
<1>6. Live' = Live
  BY <1>1 DEF Live
<1>7. Boxes!Accept(o, r)
  BY <1>1, <1>2, <1>4, <1>5, <1>6 DEF Boxes!Accept, Box
<1> QED
  BY <1>7 DEF Boxes!Next

LEMMA StepMaps ==
  ASSUME SInv, [SignalingNext]_signalingVars
  PROVE  [Boxes!Next]_(Boxes!vars)
<1>1. CASE Tick
  BY <1>1, StutterMaps DEF Tick
<1>2. ASSUME NEW b \in Browsers, StartPost(b) \/ Poll(b) \/ PollFails(b)
      PROVE  UNCHANGED Boxes!vars
  BY <1>2, StutterMaps DEF StartPost, Poll, PollFails, OfferGone, FindItsOffer, TaskGone,
     NoAnswer, StartClaim, db
<1>3. ASSUME NEW r \in Runners, ListOffers(r)
      PROVE  UNCHANGED Boxes!vars
  BY <1>3, StutterMaps DEF ListOffers, db
<1>4. ASSUME NEW a \in Admins, StartDeleteTask(a)
      PROVE  UNCHANGED Boxes!vars
  BY <1>4, StutterMaps DEF StartDeleteTask, db
<1>5. ASSUME NEW p \in Clients, Delete(p) \/ Rollback(p) \/ DeadlockVictim(p) \/ Crash(p)
      PROVE  UNCHANGED Boxes!vars
  BY <1>5, StutterMaps DEF Delete, DeleteRow, DeleteOffers, OffersDeleted, CheckAnswers,
     AnswerLeft, Rollback, DeadlockVictim, Crash, Abort, db
<1>6. ASSUME NEW b \in Browsers, ReferenceTask(b) \/ EarlyResponse(b)
      PROVE  UNCHANGED Boxes!vars
  BY <1>6, StutterMaps DEF ReferenceTask, EarlyResponse, db
<1>7. ASSUME NEW r \in Runners,
             \/ FindOffer(r) \/ InsertAnswer(r) \/ AlreadyAnswered(r)
             \/ ReferenceOffer(r) \/ OfferDeleted(r) \/ EarlyCreated(r)
      PROVE  UNCHANGED Boxes!vars
  BY <1>7, StutterMaps DEF FindOffer, InsertAnswer, AlreadyAnswered, ReferenceOffer,
     OfferDeleted, EarlyCreated, Refuse, db
<1>8. ASSUME NEW a \in Admins, LoadOffers(a) \/ LockTask(a)
      PROVE  UNCHANGED Boxes!vars
  BY <1>8, StutterMaps DEF LoadOffers, LockTask, db
<1>9. CASE UNCHANGED signalingVars
  BY <1>9, StutterMaps DEF signalingVars
<1>10. ASSUME NEW p \in Clients, Respond(p)
       PROVE  [Boxes!Next]_(Boxes!vars)
  BY <1>5, <1>6, <1>7, <1>8, <1>10, CommitPostMaps, CommitClaimMaps, EarlyAnswerMaps,
     CommitAnswerMaps, CommitDeleteTaskMaps DEF Respond
<1> QED
  BY <1>1, <1>2, <1>3, <1>4, <1>5, <1>9, <1>10 DEF SignalingNext

\* Whatever pages, runners and administrators do at the same time, an offer
\* opens once, takes the answer of one runner at most, and closes once, and a
\* page is given what that runner has sent: create_webrtc_offer,
\* create_webrtc_answer and claim_webrtc_answer implement Mailbox.
THEOREM RowsAreMailboxes == SignalingSpec => ImplementsMailbox
<1>1. SignalingInit => Boxes!Init
  BY DEF SignalingInit, Boxes!Init
<1>2. SInv /\ [SignalingNext]_signalingVars => [Boxes!Next]_(Boxes!vars)
  BY StepMaps
<1>3. SignalingSpec => []SInv
  BY Invariance
<1> QED
  BY <1>1, <1>2, <1>3, PTL DEF SignalingSpec, ImplementsMailbox, Boxes!Spec
=============================================================================
