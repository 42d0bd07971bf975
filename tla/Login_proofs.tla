---------------------------- MODULE Login_proofs ----------------------------
(***************************************************************************)
(* Proofs about Login: for any number of callbacks, users, organizations   *)
(* and changes at GitHub, a login fails only if it or one that it waits    *)
(* for was raced, and the memberships of a user whose logins never overlap *)
(* are those of GitHub's last answer.                                      *)
(***************************************************************************)
EXTENDS MCTransactions, Signaling_proofs, FiniteSetTheorems

USE DEF Ended

-----------------------------------------------------------------------------
(***************************************************************************)
(* The inductive invariant                                                 *)
(***************************************************************************)
Typed ==
  /\ name \in [Rows -> Names \ {0}]
  /\ \A x \in Rows : name[x] <= changes + 1
  /\ member \in [Users -> SUBSET Orgs]
  /\ stored \in [Rows -> Names]
  /\ links \in [Users -> SUBSET Orgs]
  /\ login \in [Logins -> Callbacks]
  /\ orgsFirst \in BOOLEAN
  /\ changes \in 0 .. MaxChanges
  /\ answered \in [Users -> SUBSET Orgs]
  /\ quiet \in [Users -> BOOLEAN]

\* A session past GitHub's answers knows the names that it may write.
NamesKnown(l) ==
  LET c == login[l] IN
  /\ Running(l) => c.user \in Users
  /\ c.pc \in {"orgs", "find", "user", "rows", "links"} => c.names[c.user] # 0
  /\ c.pc \in {"find", "user", "rows", "links"} =>
       \A o \in Answer(l) : c.names[o] # 0

\* What a session has sent and has to send, by where it is.
Stage(l) ==
  LET c == login[l] IN
  /\ c.pc \in Ended => c = [NoLogin EXCEPT !.pc = c.pc, !.raced = c.raced]
  /\ c.pc \in {"name", "orgs", "find"} => c.todo = Nothing
  /\ c.pc \notin {"rows", "links"} => c.todo["insert"] = {}
  /\ c.pc # "links" =>
       c.todo["unlink"] = {} /\ c.todo["link"] = {} /\ c.add = {} /\ c.del = {}
  /\ c.pc \notin {"user", "rows", "links"} => c.rows = {}
  /\ c.pc = "user" =>
       /\ c.todo["update"] \cup c.rows \subseteq {c.user}
       /\ c.todo["update"] \cup c.rows # {} => c.found
  /\ c.pc \in {"rows", "links"} =>
       /\ ~NoNews(l)
       /\ c.todo["update"] \subseteq Answer(l)
       /\ c.todo["insert"] \cup c.rows \subseteq Answer(l) \cup {c.user}
       /\ IF c.found THEN c.user \notin c.todo["insert"]
          ELSE c.user \in c.todo["insert"] \cup c.rows
  /\ c.pc = "links" => c.todo["update"] = {} /\ c.todo["insert"] = {}
  /\ c.todo["update"] \cap c.todo["insert"] = {}
  /\ c.rows \cap (c.todo["update"] \cup c.todo["insert"]) = {}
  /\ c.add \cup c.todo["link"] \subseteq Answer(l)
  /\ c.del \cup c.todo["unlink"] \subseteq Orgs \ Answer(l)

\* No login of the same user has committed since this one began.
Steady(l) == login[l].raced => quiet[login[l].user]

\* What a session has read of the rows, and why it is still so.
ReadRows(l) ==
  LET c == login[l] IN
  /\ c.pc \in {"user", "rows", "links"} =>
       IF c.found THEN stored[c.user] # 0
       ELSE Steady(l) => stored[c.user] = 0
  /\ \A x \in c.todo["update"] : stored[x] # 0
  /\ ~c.raced => \A x \in c.todo["insert"] : stored[x] = 0

\* The memberships that a session has read, changed and has to change.
ReadMemberships(l) ==
  LET c == login[l] IN
  c.pc = "links" /\ Steady(l) =>
    /\ c.add \cup c.todo["link"] = Answer(l) \ links[c.user]
    /\ c.del \cup c.todo["unlink"] = links[c.user] \ Answer(l)

\* What a session has written comes before what it has to write in an order
\* that is the same for all sessions.
Ordered(l) ==
  LET c == login[l] IN
  /\ \A x \in c.rows \cap Orgs : \A y \in c.todo["update"] : x < y
  /\ \A x \in c.rows \cap Orgs : stored[x] = 0 =>
       /\ c.todo["update"] = {}
       /\ \A y \in c.todo["insert"] \cap Orgs : x < y
  /\ orgsFirst /\ ~c.found /\ c.user \in c.rows =>
       c.todo["update"] = {} /\ c.todo["insert"] = {}
  /\ ~orgsFirst /\ c.user \in c.todo["insert"] => c.rows \cap Orgs = {}
  /\ \A x \in c.add : c.todo["unlink"] = {} /\ \A y \in c.todo["link"] : x < y
  /\ \A x \in c.del : \A y \in c.todo["unlink"] : x < y

SessionInv(l) ==
  NamesKnown(l) /\ Stage(l) /\ ReadRows(l) /\ ReadMemberships(l) /\ Ordered(l)

\* The rows that sessions have written are locked.
RowsAreLocked ==
  \A l, m \in Logins : l # m => login[l].rows \cap login[m].rows = {}

\* A quiet user has one login at a time.
OneLoginIfQuiet ==
  \A l, m \in Logins :
    /\ Running(l) /\ Running(m)
    /\ login[l].user = login[m].user
    /\ quiet[login[l].user]
    => (l = m)

NewUsersHaveNone ==
  \A u \in Users : stored[u] = 0 => links[u] = {} /\ answered[u] = {}

LInv ==
  /\ Typed
  /\ \A l \in Logins : SessionInv(l)
  /\ RowsAreLocked
  /\ OneLoginIfQuiet
  /\ NewUsersHaveNone
  /\ ErrorsNeedARace
  /\ QuietMembershipsAreAnswers
-----------------------------------------------------------------------------
(***************************************************************************)
(* Types                                                                   *)
(***************************************************************************)
LEMMA NoLoginIsTyped == NoLogin \in Callbacks
<1>1. MaxChanges \in Nat
  BY LoginAssumption
<1> QED
  BY <1>1 DEF NoLogin, Callbacks, Nothing, Names

LEMMA LoginTypedInit == LoginInit => Typed
<1>1. Rows = Users \cup Orgs /\ MaxChanges \in Nat
  BY LoginAssumption DEF Rows
<1>2. NoLogin \in Callbacks
  BY <1>1 DEF NoLogin, Callbacks, Nothing, Names
<1> QED
  BY <1>1, <1>2, LoginAssumption DEF LoginInit, Typed, Names

\* What the fields of a callback are.
LEMMA CallbackTypes ==
  ASSUME Typed, NEW l \in Logins
  PROVE  /\ login[l] \in Callbacks
         /\ login[l].user \in Users \cup {None}
         /\ login[l].names \in [Rows -> Names]
         /\ login[l].answer \in {None} \cup SUBSET Orgs
         /\ login[l].found \in BOOLEAN
         /\ login[l].todo \in [Kinds -> SUBSET Rows]
         /\ login[l].rows \in SUBSET Rows
         /\ login[l].add \in SUBSET Orgs
         /\ login[l].del \in SUBSET Orgs
         /\ login[l].raced \in BOOLEAN
         /\ Answer(l) \in SUBSET Orgs
BY DEF Typed, Callbacks, Answer

\* Only a commit changes other sessions than its own.
LEMMA OwnStep ==
  ASSUME Typed, NEW l \in Logins, NEW c \in Callbacks,
         login' = [login EXCEPT ![l] = c]
  PROVE  /\ login' \in [Logins -> Callbacks]
         /\ login'[l] = c
         /\ \A m \in Logins \ {l} : login'[m] = login[m]
BY DEF Typed

\* Only l's session moves, and to the callback c.
Moves(l, c) ==
  /\ c \in Callbacks
  /\ login'[l] = c
  /\ login' \in [Logins -> Callbacks]
  /\ \A m \in Logins \ {l} : login'[m] = login[m]

LEMMA BeginMoves ==
  ASSUME Typed, NEW l \in Logins, NEW u \in Users, Begin(l, u)
  PROVE  Moves(l, [NoLogin EXCEPT !.pc = "name", !.user = u])
<1>1. [NoLogin EXCEPT !.pc = "name", !.user = u] \in Callbacks
  BY NoLoginIsTyped DEF NoLogin, Callbacks
<1> QED
  BY <1>1, OwnStep DEF Begin, Moves

LEMMA NoTokenMoves ==
  ASSUME Typed, NEW l \in Logins, NoToken(l)
  PROVE  Moves(l, NoLogin)
BY NoLoginIsTyped, OwnStep DEF NoToken, Moves

LEMMA GetUserMoves ==
  ASSUME Typed, NEW l \in Logins, GetUser(l)
  PROVE  Moves(l, [login[l] EXCEPT
           !.pc = "orgs",
           !.names = [x \in Rows |-> IF x = login[l].user THEN name[x] ELSE 0]])
<1> DEFINE n == [x \in Rows |-> IF x = login[l].user THEN name[x] ELSE 0]
           c == [login[l] EXCEPT !.pc = "orgs", !.names = n]
<1>1. n \in [Rows -> Names]
  BY LoginAssumption DEF Typed, Names
<1>2. login' = [login EXCEPT ![l] = c]
  BY DEF GetUser
<1> HIDE DEF n
<1>3. c \in Callbacks
  BY <1>1, CallbackTypes DEF Callbacks
<1> HIDE DEF c
<1>4. Moves(l, c)
  BY <1>2, <1>3, OwnStep DEF Moves
<1> QED
  BY <1>4 DEF c, n

LEMMA GetOrgsMoves ==
  ASSUME Typed, NEW l \in Logins, login[l].user \in Users, GetOrgs(l)
  PROVE  \E told \in {None} \cup SUBSET Orgs :
           /\ told \in {None, member[login[l].user]}
           /\ Moves(l, [login[l] EXCEPT
                !.answer = told, !.pc = "find",
                !.names = [x \in Rows |-> IF told # None /\ x \in told
                                          THEN name[x] ELSE login[l].names[x]]])
<1> DEFINE known(a) == [x \in Rows |-> IF a # None /\ x \in a
                                       THEN name[x] ELSE login[l].names[x]]
<1>1. PICK told \in {None, member[login[l].user]} :
        login' = [login EXCEPT ![l].answer = told, ![l].pc = "find",
                               ![l].names = known(told)]
  BY DEF GetOrgs, Typed
<1> DEFINE n == known(told)
           c == [login[l] EXCEPT !.answer = told, !.pc = "find", !.names = n]
<1>2. told \in {None} \cup SUBSET Orgs
  BY DEF Typed
<1>3. n \in [Rows -> Names]
  BY CallbackTypes DEF Typed
<1> HIDE DEF n, known
<1>4. login' = [login EXCEPT ![l] = c]
  BY <1>1 DEF n
<1>5. c \in Callbacks
  <2> DEFINE Answers == {None} \cup SUBSET Orgs
  <2>1. told \in Answers
    BY <1>2
  <2> HIDE DEF Answers
  <2>2. \A b \in Callbacks : [b EXCEPT !.answer = told] \in Callbacks
    BY <2>1 DEF Callbacks, Answers
  <2>3. \A b \in Callbacks : [b EXCEPT !.pc = "find"] \in Callbacks
    BY DEF Callbacks
  <2>4. \A b \in Callbacks : [b EXCEPT !.names = n] \in Callbacks
    BY <1>3 DEF Callbacks
  <2>5. [[[login[l] EXCEPT !.answer = told] EXCEPT !.pc = "find"] EXCEPT !.names = n]
          \in Callbacks
    BY <2>2, <2>3, <2>4, CallbackTypes
  <2> QED
    BY <2>5
<1> HIDE DEF c
<1>6. Moves(l, c)
  BY <1>4, <1>5, OwnStep DEF Moves
<1> QED
  BY <1>2, <1>6 DEF c, n, known

LEMMA FindMoves ==
  ASSUME Typed, NEW l \in Logins, login[l].user \in Users, Find(l)
  PROVE  LET u == login[l].user IN
         Moves(l, [login[l] EXCEPT
           !.pc = "user", !.found = stored[u] # 0,
           !.todo = [login[l].todo EXCEPT !["update"] =
             IF stored[u] \notin {0, login[l].names[u]} THEN {u} ELSE {}]])
<1> DEFINE u == login[l].user
           t == [login[l].todo EXCEPT !["update"] =
                   IF stored[u] \notin {0, login[l].names[u]} THEN {u} ELSE {}]
           f == stored[u] # 0
           c == [login[l] EXCEPT !.pc = "user", !.found = f, !.todo = t]
<1>1. t \in [Kinds -> SUBSET Rows]
  BY CallbackTypes DEF Rows
<1>2. login' = [login EXCEPT ![l] = c]
  BY DEF Find
<1> HIDE DEF t
<1>3. c \in Callbacks
  BY <1>1, CallbackTypes DEF Callbacks
<1> HIDE DEF c
<1>4. Moves(l, c)
  BY <1>2, <1>3, OwnStep DEF Moves
<1> QED
  BY <1>4 DEF c, t

LEMMA ReadOrgsMoves ==
  ASSUME Typed, NEW l \in Logins, login[l].user \in Users, ReadOrgs(l)
  PROVE  Moves(l, [login[l] EXCEPT
           !.pc = "rows",
           !.todo = [login[l].todo EXCEPT
             !["update"] = {o \in Existing(l) : stored[o] # login[l].names[o]},
             !["insert"] = (Answer(l) \ Existing(l))
                             \cup IF login[l].found THEN {} ELSE {login[l].user}]])
<1> DEFINE t == [login[l].todo EXCEPT
             !["update"] = {o \in Existing(l) : stored[o] # login[l].names[o]},
             !["insert"] = (Answer(l) \ Existing(l))
                             \cup IF login[l].found THEN {} ELSE {login[l].user}]
           c == [login[l] EXCEPT !.pc = "rows", !.todo = t]
<1>1. t \in [Kinds -> SUBSET Rows]
  BY CallbackTypes DEF Rows, Existing
<1>2. login' = [login EXCEPT ![l] = c]
  BY CallbackTypes DEF ReadOrgs
<1> HIDE DEF t
<1>3. c \in Callbacks
  BY <1>1, CallbackTypes DEF Callbacks
<1> HIDE DEF c
<1>4. Moves(l, c)
  BY <1>2, <1>3, OwnStep DEF Moves
<1> QED
  BY <1>4 DEF c, t

LEMMA ReadLinksMoves ==
  ASSUME Typed, NEW l \in Logins, login[l].user \in Users, ReadLinks(l)
  PROVE  Moves(l, [login[l] EXCEPT
           !.pc = "links",
           !.todo = [login[l].todo EXCEPT
             !["unlink"] = IF login[l].found THEN Delisted(l) ELSE {},
             !["link"] = Answer(l) \ IF login[l].found THEN links[login[l].user] ELSE {}]])
<1> DEFINE t == [login[l].todo EXCEPT
             !["unlink"] = IF login[l].found THEN Delisted(l) ELSE {},
             !["link"] = Answer(l) \ IF login[l].found THEN links[login[l].user] ELSE {}]
           c == [login[l] EXCEPT !.pc = "links", !.todo = t]
<1>1. t \in [Kinds -> SUBSET Rows]
  BY CallbackTypes DEF Rows, Delisted, Typed
<1>2. login' = [login EXCEPT ![l] = c]
  BY CallbackTypes DEF ReadLinks
<1> HIDE DEF t
<1>3. c \in Callbacks
  BY <1>1, CallbackTypes DEF Callbacks
<1> HIDE DEF c
<1>4. Moves(l, c)
  BY <1>2, <1>3, OwnStep DEF Moves
<1> QED
  BY <1>4 DEF c, t

LEMMA FailsMoves ==
  ASSUME Typed, NEW l \in Logins, NEW raced \in BOOLEAN, Fails(l, raced)
  PROVE  Moves(l, [NoLogin EXCEPT !.pc = "failed", !.raced = raced])
<1>1. [NoLogin EXCEPT !.pc = "failed", !.raced = raced] \in Callbacks
  BY NoLoginIsTyped DEF NoLogin, Callbacks
<1> QED
  BY <1>1, OwnStep DEF Fails, Moves

LEMMA ExecuteMoves ==
  ASSUME Typed, NEW l \in Logins, NEW k \in Kinds, NEW x \in login[l].todo[k],
         k \in {"link", "unlink"} => x \in Orgs,
         Execute(l, k, x)
  PROVE  Moves(l, [login[l] EXCEPT
           !.todo = [login[l].todo EXCEPT ![k] = @ \ {x}],
           !.rows = IF k \in {"update", "insert"} THEN @ \cup {x} ELSE @,
           !.add = IF k = "link" THEN @ \cup {x} ELSE @,
           !.del = IF k = "unlink" THEN @ \cup {x} ELSE @])
<1> DEFINE b == login[l]
           t == [b.todo EXCEPT ![k] = b.todo[k] \ {x}]
           r == IF k \in {"update", "insert"} THEN b.rows \cup {x} ELSE b.rows
           a == IF k = "link" THEN b.add \cup {x} ELSE b.add
           d == IF k = "unlink" THEN b.del \cup {x} ELSE b.del
           c == [b EXCEPT !.todo = t, !.rows = r, !.add = a, !.del = d]
<1>1. /\ t \in [Kinds -> SUBSET Rows] /\ r \in SUBSET Rows
      /\ a \in SUBSET Orgs /\ d \in SUBSET Orgs
  BY CallbackTypes
<1>2. login' = [login EXCEPT ![l] = c]
  BY CallbackTypes DEF Execute
<1> HIDE DEF t, r, a, d
<1>3. c \in Callbacks
  BY <1>1, CallbackTypes DEF Callbacks
<1> HIDE DEF c
<1>4. Moves(l, c)
  BY <1>2, <1>3, OwnStep DEF Moves
<1> QED
  BY <1>4 DEF c, t, r, a, d

\* What keeping the types needs to know of a session.
SessionTyped(l) ==
  LET c == login[l] IN
  /\ Running(l) => c.user \in Users
  /\ ~Running(l) => c.todo = Nothing
  /\ c.todo["link"] \cup c.todo["unlink"] \subseteq Orgs

LEMMA LoginTyped ==
  ASSUME Typed, \A l \in Logins : SessionTyped(l), [LoginNext]_loginVars
  PROVE  Typed'
<1> USE DEF Typed
<1>1. Rows = Users \cup Orgs /\ MaxChanges \in Nat /\ Users \cap Orgs = {}
      /\ Names = 0 .. MaxChanges + 1
  BY LoginAssumption DEF Rows, Names
<1>2. NoLogin \in Callbacks
  BY <1>1 DEF NoLogin, Callbacks, Nothing
<1>3. ASSUME NEW x \in Renamed, Rename(x) PROVE Typed'
  <2>1. x \in Rows
    BY <1>1, LoginAssumption
  <2>2. name[x] + 1 \in Names \ {0} /\ name[x] + 1 <= changes + 2
    BY <2>1, <1>1, <1>3 DEF Rename
  <2>3. \A y \in Rows : name'[y] = IF y = x THEN name[x] + 1 ELSE name[y]
    BY <1>3 DEF Rename
  <2>4. name' \in [Rows -> Names \ {0}]
    BY <2>1, <2>2, <1>3 DEF Rename
  <2>5. \A y \in Rows : name'[y] <= changes' + 1
    BY <2>1, <2>2, <2>3, <1>1, <1>3 DEF Rename
  <2> QED
    BY <2>4, <2>5, <1>1, <1>3 DEF Rename
<1>4. ASSUME NEW u \in Users, NEW o \in Orgs, Relist(u, o) PROVE Typed'
  <2>1. \A y \in Rows : name'[y] <= changes' + 1
    BY <1>1, <1>4 DEF Relist
  <2> QED
    BY <2>1, <1>1, <1>4 DEF Relist
<1>5. ASSUME NEW l \in Logins, NEW u \in Users, Begin(l, u) PROVE Typed'
  <2>1. [NoLogin EXCEPT !.pc = "name", !.user = u] \in Callbacks
    BY <1>2 DEF NoLogin, Callbacks
  <2>2. quiet' \in [Users -> BOOLEAN]
    BY <1>5 DEF Begin
  <2> QED
    BY <2>1, <2>2, <1>5 DEF Begin
<1>6. ASSUME NEW l \in Logins, Step(l) PROVE Typed'
  <2> USE DEF Moves
  <2>0. /\ login[l].pc \in {"name", "orgs", "find", "user", "rows", "links"}
             => login[l].user \in Users
        /\ \A k \in Kinds : login[l].todo[k] # {} => login[l].user \in Users
        /\ login[l].todo["link"] \cup login[l].todo["unlink"] \subseteq Orgs
    BY CallbackTypes DEF SessionTyped, Running, Callbacks, Nothing
  <2>1. CASE NoToken(l)
    BY <2>1, NoTokenMoves DEF NoToken
  <2>2. CASE GetUser(l)
    BY <2>2, GetUserMoves DEF GetUser
  <2>3. CASE GetOrgs(l)
    BY <2>3, <2>0, GetOrgsMoves DEF GetOrgs
  <2>4. CASE Find(l)
    BY <2>4, <2>0, FindMoves DEF Find
  <2>5. CASE ReadOrgs(l)
    BY <2>5, <2>0, ReadOrgsMoves DEF ReadOrgs
  <2>6. CASE ReadLinks(l)
    BY <2>6, <2>0, ReadLinksMoves DEF ReadLinks
  <2>7. CASE Send(l)
    <3>0. PICK k \in Kinds :
            \E x \in login[l].todo[k] : Execute(l, k, x) \/ Refused(l, k, x)
      BY <2>7 DEF Send
    <3>1. PICK x \in login[l].todo[k] : Execute(l, k, x) \/ Refused(l, k, x)
      BY <3>0
    <3>2. login' \in [Logins -> Callbacks]
      <4>1. CASE Execute(l, k, x)
        <5>1. k \in {"link", "unlink"} => x \in Orgs
          BY <2>0, <3>1
        <5> QED
          BY <4>1, <5>1, ExecuteMoves
      <4>2. CASE Refused(l, k, x)
        BY <4>2, FailsMoves, CallbackTypes DEF Refused
      <4> QED
        BY <3>1, <4>1, <4>2
    <3> QED
      BY <2>7, <3>2 DEF Send
  <2>8. CASE LoginDeadlockVictim(l)
    <3>1. PICK S \in LoginCycles : Fails(l, \E m \in S : login[m].raced)
      BY <2>8 DEF LoginDeadlockVictim
    <3>2. login' \in [Logins -> Callbacks]
      BY <3>1, FailsMoves
    <3> QED
      BY <2>8, <3>2 DEF LoginDeadlockVictim
  <2>9. CASE Commit(l)
    <3>1. login' \in [Logins -> Callbacks]
      <4>1. \A m \in Logins : [login[m] EXCEPT !.raced = TRUE] \in Callbacks
        <5> SUFFICES ASSUME NEW m \in Logins
                     PROVE  [login[m] EXCEPT !.raced = TRUE] \in Callbacks
          OBVIOUS
        <5> QED
          BY CallbackTypes DEF Callbacks
      <4> QED
        BY <4>1, <2>9, <1>2, CallbackTypes DEF Commit
    <3>2. stored' \in [Rows -> Names]
      BY <2>9, CallbackTypes DEF Commit
    <3>3. links' \in [Users -> SUBSET Orgs]
      BY <2>9, CallbackTypes DEF Commit
    <3>4. answered' \in [Users -> SUBSET Orgs]
      BY <2>9, CallbackTypes DEF Commit
    <3> QED
      BY <2>9, <3>1, <3>2, <3>3, <3>4 DEF Commit
  <2> QED
    BY <2>1, <2>2, <2>3, <2>4, <2>5, <2>6, <2>7, <2>8, <2>9, <1>6 DEF Step
<1>7. CASE UNCHANGED loginVars
  BY <1>7 DEF loginVars
<1> QED
  BY <1>3, <1>4, <1>5, <1>6, <1>7 DEF LoginNext
-----------------------------------------------------------------------------
(***************************************************************************)
(* The invariant: what is common to the steps                              *)
(***************************************************************************)
USE DEF Running

LEMMA KindsOf == /\ "update" \in Kinds /\ "insert" \in Kinds
                 /\ "unlink" \in Kinds /\ "link" \in Kinds
                 /\ \A k \in Kinds : k \in {"update", "insert", "unlink", "link"}
                 /\ \A k \in Kinds : Nothing[k] = {}
BY DEF Kinds, Nothing

LEMMA SessionsAreTyped ==
  ASSUME Typed, \A l \in Logins : SessionInv(l)
  PROVE  \A l \in Logins : SessionTyped(l)
<1> SUFFICES ASSUME NEW l \in Logins
             PROVE  SessionTyped(l)
  OBVIOUS
<1> DEFINE c == login[l]
<1>1. NamesKnown(l) /\ Stage(l)
  BY DEF SessionInv
<1>3. ~Running(l) => c.todo = Nothing
  BY <1>1 DEF Stage, NoLogin
<1>4. c.todo["link"] \subseteq Orgs
  BY <1>1, CallbackTypes DEF Stage
<1>5. c.todo["unlink"] \subseteq Orgs
  BY <1>1 DEF Stage
<1> QED
  BY <1>1, <1>3, <1>4, <1>5 DEF SessionTyped, NamesKnown

\* A callback that has ended keeps nothing.
LEMMA NoSessionAtFirst ==
  ASSUME NEW l, login[l] = NoLogin
  PROVE  SessionInv(l)
<1>1. /\ login[l].pc = "done" /\ ~login[l].raced /\ login[l].todo = Nothing
      /\ login[l].rows = {} /\ login[l].add = {} /\ login[l].del = {}
  BY DEF NoLogin
<1>2. login[l] = [NoLogin EXCEPT !.pc = login[l].pc, !.raced = login[l].raced]
  BY DEF NoLogin
<1>3. Stage(l)
  BY <1>1, <1>2, KindsOf DEF Stage
<1>4. NamesKnown(l) /\ ReadRows(l) /\ ReadMemberships(l) /\ Ordered(l)
  BY <1>1, KindsOf DEF NamesKnown, ReadRows, ReadMemberships, Ordered
<1> QED
  BY <1>3, <1>4 DEF SessionInv

LEMMA EndedSessions ==
  ASSUME NEW l, NEW pc \in Ended, NEW raced \in BOOLEAN,
         login'[l] = [NoLogin EXCEPT !.pc = pc, !.raced = raced]
  PROVE  SessionInv(l)'
<1>1. /\ login'[l].pc = pc /\ login'[l].raced = raced /\ login'[l].todo = Nothing
      /\ login'[l].rows = {} /\ login'[l].add = {} /\ login'[l].del = {}
  BY DEF NoLogin
<1>2. Stage(l)'
  BY <1>1, KindsOf DEF Stage
<1>3. NamesKnown(l)' /\ ReadRows(l)' /\ ReadMemberships(l)' /\ Ordered(l)'
  BY <1>1, KindsOf DEF NamesKnown, ReadRows, ReadMemberships, Ordered
<1> QED
  BY <1>2, <1>3 DEF SessionInv

LEMMA LoginInvInit == LoginInit => LInv
<1> SUFFICES ASSUME LoginInit PROVE LInv
  OBVIOUS
<1>1. Typed
  BY LoginTypedInit
<1>2. \A l \in Logins : login[l] = NoLogin
  BY DEF LoginInit
<1>3. ASSUME NEW l \in Logins PROVE SessionInv(l)
  BY <1>2, NoSessionAtFirst
<1>4. RowsAreLocked /\ OneLoginIfQuiet /\ ErrorsNeedARace
  BY <1>2 DEF RowsAreLocked, OneLoginIfQuiet, ErrorsNeedARace, NoLogin
<1>5. NewUsersHaveNone /\ QuietMembershipsAreAnswers
  BY DEF LoginInit, NewUsersHaveNone, QuietMembershipsAreAnswers
<1> QED
  BY <1>1, <1>3, <1>4, <1>5 DEF LInv

\* A session is not disturbed as long as what it has read stays.
LEMMA SessionFrame ==
  ASSUME Typed, NEW m \in Logins, SessionInv(m), login'[m] = login[m],
         UNCHANGED <<stored, links, orgsFirst>>,
         \A u \in Users : quiet'[u] => quiet[u]
  PROVE  SessionInv(m)'
<1> DEFINE c == login[m]
<1>1. login[m].pc \in {"user", "rows", "links"} => login[m].user \in Users
  BY DEF SessionInv, NamesKnown
<1>2. login[m].pc \in {"user", "rows", "links"} /\ Steady(m)' => Steady(m)
  BY <1>1 DEF Steady
<1>3. Answer(m)' = Answer(m) /\ NoNews(m)' = NoNews(m)
  BY DEF Answer, NoNews
<1>4. NamesKnown(m)'
  BY <1>3 DEF SessionInv, NamesKnown
<1>5. Stage(m)'
  BY <1>3 DEF SessionInv, Stage
<1>6. ReadRows(m)'
  BY <1>2 DEF SessionInv, ReadRows
<1>7. ReadMemberships(m)'
  BY <1>2, <1>3 DEF SessionInv, ReadMemberships
<1>8. Ordered(m)'
  BY DEF SessionInv, Ordered
<1> QED
  BY <1>4, <1>5, <1>6, <1>7, <1>8 DEF SessionInv

\* A step of nobody's session.
LEMMA OthersKeep ==
  ASSUME LInv, Typed', UNCHANGED <<stored, links, login, answered, quiet, orgsFirst>>
  PROVE  LInv'
<1>1. \A l \in Logins : SessionInv(l)'
  BY SessionFrame DEF LInv
<1>2. RowsAreLocked' /\ OneLoginIfQuiet' /\ ErrorsNeedARace'
  BY DEF LInv, RowsAreLocked, OneLoginIfQuiet, ErrorsNeedARace
<1>3. NewUsersHaveNone' /\ QuietMembershipsAreAnswers'
  BY DEF LInv, NewUsersHaveNone, QuietMembershipsAreAnswers
<1> QED
  BY <1>1, <1>2, <1>3 DEF LInv

\* A step of a session that leaves the rows of the database alone.
LEMMA SessionStep ==
  ASSUME LInv, Typed', NEW l \in Logins, NEW c, Moves(l, c), SessionInv(l)',
         UNCHANGED <<stored, links, answered, orgsFirst, quiet>>,
         c.pc \notin Ended => Running(l) /\ c.user = login[l].user,
         c.pc = "failed" => c.raced,
         \A m \in Logins \ {l} : c.rows \cap login[m].rows = {}
  PROVE  LInv'
<1>1. \A m \in Logins \ {l} : login'[m] = login[m]
  BY DEF Moves
<1>2. login'[l] = c
  BY DEF Moves
<1>3. ASSUME NEW m \in Logins PROVE SessionInv(m)'
  BY <1>1, SessionFrame DEF LInv
<1>4. RowsAreLocked'
  BY <1>1, <1>2 DEF LInv, RowsAreLocked
<1>5. OneLoginIfQuiet'
  BY <1>1, <1>2 DEF LInv, OneLoginIfQuiet
<1>6. ErrorsNeedARace'
  BY <1>1, <1>2 DEF LInv, ErrorsNeedARace
<1>7. NewUsersHaveNone' /\ QuietMembershipsAreAnswers'
  BY DEF LInv, NewUsersHaveNone, QuietMembershipsAreAnswers
<1> QED
  BY <1>3, <1>4, <1>5, <1>6, <1>7 DEF LInv
-----------------------------------------------------------------------------
(***************************************************************************)
(* The invariant: one lemma for each action                                *)
(***************************************************************************)
LEMMA BeginKeeps ==
  ASSUME LInv, Typed', NEW l \in Logins, NEW u \in Users, Begin(l, u)
  PROVE  LInv'
<1> DEFINE c == [NoLogin EXCEPT !.pc = "name", !.user = u]
<1>1. Moves(l, c)
  BY BeginMoves DEF LInv
<1>2. /\ login'[l].pc = "name" /\ login'[l].user = u /\ login'[l].todo = Nothing
      /\ login'[l].rows = {} /\ login'[l].add = {} /\ login'[l].del = {}
      /\ ~login'[l].raced
  BY <1>1 DEF Moves, NoLogin
<1>3. \A m \in Logins \ {l} : login'[m] = login[m]
  BY <1>1 DEF Moves
<1>4. UNCHANGED <<stored, links, answered, orgsFirst>>
  BY DEF Begin
<1>5. /\ \A v \in Users : quiet'[v] => quiet[v]
      /\ quiet'[u] => \A m \in Logins : Running(m) => login[m].user # u
  BY DEF Begin, LInv, Typed
<1>6. ASSUME NEW m \in Logins PROVE SessionInv(m)'
  <2>1. CASE m = l
    <3>1. NamesKnown(l)' /\ Stage(l)'
      BY <1>2, KindsOf DEF NamesKnown, Stage
    <3>2. ReadRows(l)' /\ ReadMemberships(l)' /\ Ordered(l)'
      BY <1>2, KindsOf DEF ReadRows, ReadMemberships, Ordered
    <3> QED
      BY <2>1, <3>1, <3>2 DEF SessionInv
  <2>2. CASE m # l
    BY <2>2, <1>3, <1>4, <1>5, SessionFrame DEF LInv
  <2> QED
    BY <2>1, <2>2
<1>7. RowsAreLocked'
  BY <1>2, <1>3 DEF LInv, RowsAreLocked
<1>8. OneLoginIfQuiet'
  <2> SUFFICES ASSUME NEW m \in Logins, NEW n \in Logins,
                      Running(m)', Running(n)', login'[m].user = login'[n].user,
                      quiet'[login'[m].user]
               PROVE  m = n
    BY DEF OneLoginIfQuiet
  <2>1. login'[m].user \in Users
    BY <1>6 DEF SessionInv, NamesKnown
  <2>2. CASE m # l /\ n # l
    BY <2>1, <2>2, <1>3, <1>5 DEF LInv, OneLoginIfQuiet
  <2>3. CASE m = l /\ n # l
    BY <2>3, <1>2, <1>3, <1>5
  <2>4. CASE m # l /\ n = l
    BY <2>4, <1>2, <1>3, <1>5
  <2> QED
    BY <2>2, <2>3, <2>4
<1>9. ErrorsNeedARace'
  BY <1>2, <1>3 DEF LInv, ErrorsNeedARace
<1>10. NewUsersHaveNone' /\ QuietMembershipsAreAnswers'
  BY <1>4, <1>5 DEF LInv, NewUsersHaveNone, QuietMembershipsAreAnswers
<1> QED
  BY <1>6, <1>7, <1>8, <1>9, <1>10 DEF LInv

LEMMA NoTokenKeeps ==
  ASSUME LInv, Typed', NEW l \in Logins, NoToken(l)
  PROVE  LInv'
<1>1. Moves(l, NoLogin)
  BY NoTokenMoves DEF LInv
<1>2. login'[l] = NoLogin
  BY <1>1 DEF Moves
<1>3. NoLogin = [NoLogin EXCEPT !.pc = NoLogin.pc, !.raced = NoLogin.raced]
  BY DEF NoLogin
<1>4. NoLogin.pc \in Ended /\ NoLogin.raced \in BOOLEAN
  BY DEF NoLogin
<1>6. SessionInv(l)'
  BY <1>2, <1>3, <1>4, EndedSessions
<1>5. NoLogin.pc = "done" /\ NoLogin.rows = {}
  BY DEF NoLogin
<1> QED
  BY <1>1, <1>5, <1>6, SessionStep DEF NoToken

LEMMA GetUserKeeps ==
  ASSUME LInv, Typed', NEW l \in Logins, GetUser(l)
  PROVE  LInv'
<1> DEFINE b == login[l]
           n == [x \in Rows |-> IF x = b.user THEN name[x] ELSE 0]
           c == [b EXCEPT !.pc = "orgs", !.names = n]
<1>1. Moves(l, c)
  BY GetUserMoves DEF LInv
<1>2. b.pc = "name" /\ SessionInv(l) /\ b \in Callbacks
  BY CallbackTypes DEF LInv, GetUser
<1>3. b.user \in Users /\ b.user \in Rows
  BY <1>2 DEF SessionInv, NamesKnown, Rows
<1>4. n[b.user] # 0
  BY <1>3 DEF LInv, Typed
<1> HIDE DEF n
<1>5. /\ c.pc = "orgs" /\ c.user = b.user /\ c.names = n /\ c.todo = b.todo
      /\ c.rows = b.rows /\ c.add = b.add /\ c.del = b.del
  BY <1>2 DEF Callbacks
<1> HIDE DEF c
<1>6. login'[l] = c
  BY <1>1 DEF Moves
<1>7. /\ c.todo = Nothing /\ c.rows = {} /\ c.add = {} /\ c.del = {}
  BY <1>2, <1>5 DEF SessionInv, Stage
<1>8. NamesKnown(l)' /\ Stage(l)'
  BY <1>3, <1>4, <1>5, <1>6, <1>7, KindsOf DEF NamesKnown, Stage
<1>9. ReadRows(l)' /\ ReadMemberships(l)' /\ Ordered(l)'
  BY <1>5, <1>6, <1>7, KindsOf DEF ReadRows, ReadMemberships, Ordered
<1> QED
  BY <1>1, <1>2, <1>5, <1>7, <1>8, <1>9, SessionStep DEF GetUser, SessionInv

LEMMA GetOrgsKeeps ==
  ASSUME LInv, Typed', NEW l \in Logins, GetOrgs(l)
  PROVE  LInv'
<1> DEFINE b == login[l]
           n(a) == [x \in Rows |-> IF a # None /\ x \in a THEN name[x] ELSE b.names[x]]
           next(a) == [b EXCEPT !.answer = a, !.pc = "find", !.names = n(a)]
<1>1. b.pc = "orgs" /\ SessionInv(l) /\ b \in Callbacks
  BY CallbackTypes DEF LInv, GetOrgs
<1>2. b.user \in Users /\ b.user \in Rows
  BY <1>1 DEF SessionInv, NamesKnown, Rows
<1>3. PICK told \in {None} \cup SUBSET Orgs : Moves(l, next(told))
  BY <1>2, GetOrgsMoves DEF LInv
<1> DEFINE c == next(told)
           k == n(told)
<1>4. k[b.user] # 0 /\ (told # None => \A o \in told : k[o] # 0)
  BY <1>1, <1>2 DEF SessionInv, NamesKnown, LInv, Typed, Rows
<1>5. Moves(l, c)
  BY <1>3
<1> HIDE DEF n
<1>6. /\ c.pc = "find" /\ c.user = b.user /\ c.names = k /\ c.todo = b.todo
      /\ c.rows = b.rows /\ c.add = b.add /\ c.del = b.del /\ c.answer = told
  BY <1>1 DEF Callbacks
<1> HIDE DEF c
<1>7. login'[l] = c
  BY <1>5 DEF Moves
<1>8. /\ c.todo = Nothing /\ c.rows = {} /\ c.add = {} /\ c.del = {}
  BY <1>1, <1>6 DEF SessionInv, Stage
<1>9. NamesKnown(l)' /\ Stage(l)'
  BY <1>2, <1>4, <1>6, <1>7, <1>8, KindsOf DEF NamesKnown, Stage, Answer
<1>10. ReadRows(l)' /\ ReadMemberships(l)' /\ Ordered(l)'
  BY <1>6, <1>7, <1>8, KindsOf DEF ReadRows, ReadMemberships, Ordered
<1> QED
  BY <1>1, <1>5, <1>6, <1>8, <1>9, <1>10, SessionStep DEF GetOrgs, SessionInv

LEMMA FindKeeps ==
  ASSUME LInv, Typed', NEW l \in Logins, Find(l)
  PROVE  LInv'
<1> DEFINE b == login[l]
           u == b.user
           t == [b.todo EXCEPT !["update"] =
                   IF stored[u] \notin {0, b.names[u]} THEN {u} ELSE {}]
           f == stored[u] # 0
           c == [b EXCEPT !.pc = "user", !.found = f, !.todo = t]
<1>1. b.pc = "find" /\ SessionInv(l) /\ b \in Callbacks
  BY CallbackTypes DEF LInv, Find
<1>2. b.user \in Users /\ b.user \in Rows
  BY <1>1 DEF SessionInv, NamesKnown, Rows
<1>3. Moves(l, c)
  BY <1>2, FindMoves DEF LInv
<1>4. /\ t["insert"] = {} /\ t["link"] = {} /\ t["unlink"] = {}
      /\ \A x \in t["update"] : x = u /\ stored[x] # 0
  <2>1. b.todo = Nothing
    BY <1>1 DEF SessionInv, Stage
  <2> QED
    BY <2>1, KindsOf DEF Nothing
<1> HIDE DEF t
<1>5. /\ c.pc = "user" /\ c.user = b.user /\ c.names = b.names /\ c.todo = t
      /\ c.rows = b.rows /\ c.add = b.add /\ c.del = b.del /\ c.answer = b.answer
      /\ c.found = f
  BY <1>1 DEF Callbacks
<1> HIDE DEF c
<1>6. login'[l] = c
  BY <1>3 DEF Moves
<1>7. c.rows = {} /\ c.add = {} /\ c.del = {}
  BY <1>1, <1>5 DEF SessionInv, Stage
<1>8. Answer(l)' = Answer(l) /\ UNCHANGED <<stored, links, orgsFirst>>
  BY <1>5, <1>6 DEF Answer, Find
<1>9. NamesKnown(l)'
  BY <1>1, <1>2, <1>5, <1>6, <1>8 DEF SessionInv, NamesKnown
<1>10. Stage(l)'
  BY <1>4, <1>5, <1>6, <1>7, <1>8 DEF Stage
<1>11. ReadRows(l)'
  BY <1>4, <1>5, <1>6, <1>8 DEF ReadRows
<1>12. ReadMemberships(l)' /\ Ordered(l)'
  BY <1>2, <1>4, <1>5, <1>6, <1>7 DEF ReadMemberships, Ordered
<1> QED
  BY <1>1, <1>3, <1>5, <1>7, <1>9, <1>10, <1>11, <1>12, SessionStep DEF Find, SessionInv

LEMMA ReadOrgsKeeps ==
  ASSUME LInv, Typed', NEW l \in Logins, ReadOrgs(l)
  PROVE  LInv'
<1> DEFINE b == login[l]
           u == b.user
           t == [b.todo EXCEPT
                  !["update"] = {o \in Existing(l) : stored[o] # b.names[o]},
                  !["insert"] = (Answer(l) \ Existing(l))
                                  \cup IF b.found THEN {} ELSE {u}]
           c == [b EXCEPT !.pc = "rows", !.todo = t]
<1>1. b.pc = "user" /\ SessionInv(l) /\ b \in Callbacks /\ ~NoNews(l) /\ b.todo = Nothing
  BY CallbackTypes DEF LInv, ReadOrgs, Flushed
<1>2. b.user \in Users /\ b.user \in Rows /\ Users \cap Orgs = {} /\ Answer(l) \subseteq Orgs
  BY <1>1, LoginAssumption, CallbackTypes DEF SessionInv, NamesKnown, Rows, LInv
<1>3. Moves(l, c)
  BY <1>2, ReadOrgsMoves DEF LInv
<1>4. /\ t["link"] = {} /\ t["unlink"] = {}
      /\ \A x \in t["update"] : x \in Answer(l) /\ stored[x] # 0
      /\ \A x \in t["insert"] : \/ x \in Answer(l) /\ stored[x] = 0
                                \/ x = u /\ ~b.found
      /\ ~b.found => u \in t["insert"]
  BY <1>1, KindsOf DEF Nothing, Existing
<1> HIDE DEF t
<1>5. /\ c.pc = "rows" /\ c.user = b.user /\ c.names = b.names /\ c.todo = t
      /\ c.rows = b.rows /\ c.add = b.add /\ c.del = b.del /\ c.answer = b.answer
      /\ c.found = b.found /\ c.raced = b.raced
  BY <1>1 DEF Callbacks
<1> HIDE DEF c
<1>6. login'[l] = c
  BY <1>3 DEF Moves
<1>7. /\ c.add = {} /\ c.del = {} /\ c.rows \subseteq {u}
      /\ c.rows # {} => c.found
  BY <1>1, <1>5 DEF SessionInv, Stage
<1>8. /\ Answer(l)' = Answer(l) /\ NoNews(l)' = NoNews(l)
      /\ UNCHANGED <<stored, links, orgsFirst, quiet>>
  BY <1>5, <1>6 DEF Answer, NoNews, ReadOrgs
<1>9. NamesKnown(l)'
  BY <1>1, <1>2, <1>5, <1>6, <1>8 DEF SessionInv, NamesKnown
<1>10. /\ t["update"] \cap t["insert"] = {}
       /\ c.rows \cap (t["update"] \cup t["insert"]) = {}
       /\ c.rows \cap Orgs = {}
  BY <1>2, <1>4, <1>5, <1>7
<1>11. Stage(l)'
  BY <1>1, <1>2, <1>4, <1>5, <1>6, <1>7, <1>8, <1>10 DEF Stage
<1>12. ReadRows(l)'
  <2>1. IF b.found THEN stored[u] # 0 ELSE Steady(l) => stored[u] = 0
    BY <1>1 DEF SessionInv, ReadRows
  <2>2. Steady(l)' <=> Steady(l)
    BY <1>5, <1>6, <1>8 DEF Steady
  <2>3. ~b.raced => \A x \in t["insert"] : stored[x] = 0
    BY <1>4, <2>1 DEF Steady
  <2> QED
    BY <1>4, <1>5, <1>6, <1>8, <2>1, <2>2, <2>3 DEF ReadRows
<1>13. ReadMemberships(l)' /\ Ordered(l)'
  BY <1>4, <1>5, <1>6, <1>7, <1>10 DEF ReadMemberships, Ordered
<1>14. \A m \in Logins \ {l} : c.rows \cap login[m].rows = {}
  BY <1>5 DEF LInv, RowsAreLocked
<1> QED
  BY <1>1, <1>3, <1>5, <1>9, <1>11, <1>12, <1>13, <1>14, SessionStep
     DEF ReadOrgs, SessionInv

LEMMA ReadLinksKeeps ==
  ASSUME LInv, Typed', NEW l \in Logins, ReadLinks(l)
  PROVE  LInv'
<1> DEFINE b == login[l]
           u == b.user
           t == [b.todo EXCEPT
                  !["unlink"] = IF b.found THEN Delisted(l) ELSE {},
                  !["link"] = Answer(l) \ IF b.found THEN links[u] ELSE {}]
           c == [b EXCEPT !.pc = "links", !.todo = t]
<1>1. b.pc = "rows" /\ SessionInv(l) /\ b \in Callbacks /\ b.todo = Nothing
  BY CallbackTypes DEF LInv, ReadLinks, Flushed
<1>2. b.user \in Users /\ links[u] \subseteq Orgs /\ Answer(l) \subseteq Orgs
  BY <1>1, CallbackTypes DEF SessionInv, NamesKnown, LInv, Typed
<1>3. Moves(l, c)
  BY <1>2, ReadLinksMoves DEF LInv
<1>4. /\ t["update"] = {} /\ t["insert"] = {}
      /\ t["unlink"] = IF b.found THEN links[u] \ Answer(l) ELSE {}
      /\ t["link"] = IF b.found THEN Answer(l) \ links[u] ELSE Answer(l)
  BY <1>1, KindsOf DEF Nothing, Delisted
<1> HIDE DEF t
<1>5. /\ c.pc = "links" /\ c.user = b.user /\ c.names = b.names /\ c.todo = t
      /\ c.rows = b.rows /\ c.add = b.add /\ c.del = b.del /\ c.answer = b.answer
      /\ c.found = b.found /\ c.raced = b.raced
  BY <1>1 DEF Callbacks
<1> HIDE DEF c
<1>6. login'[l] = c
  BY <1>3 DEF Moves
<1>7. /\ c.add = {} /\ c.del = {} /\ c.rows \subseteq Answer(l) \cup {u}
      /\ ~NoNews(l) /\ ~c.found => u \in c.rows
  BY <1>1, <1>5, KindsOf DEF SessionInv, Stage
<1>8. /\ Answer(l)' = Answer(l) /\ NoNews(l)' = NoNews(l)
      /\ UNCHANGED <<stored, links, orgsFirst, quiet>>
  BY <1>5, <1>6 DEF Answer, NoNews, ReadLinks
<1>9. NamesKnown(l)'
  BY <1>1, <1>2, <1>5, <1>6, <1>8 DEF SessionInv, NamesKnown
<1>10. Stage(l)'
  BY <1>1, <1>2, <1>4, <1>5, <1>6, <1>7, <1>8 DEF Stage, SessionInv
<1>11. Steady(l)' <=> Steady(l)
  BY <1>5, <1>6, <1>8 DEF Steady
<1>12. IF b.found THEN stored[u] # 0 ELSE Steady(l) => stored[u] = 0
  BY <1>1 DEF SessionInv, ReadRows
<1>13. ReadRows(l)'
  BY <1>4, <1>5, <1>6, <1>8, <1>11, <1>12 DEF ReadRows
<1>14. ~b.found /\ Steady(l) => links[u] = {}
  BY <1>2, <1>12 DEF LInv, NewUsersHaveNone
<1>15. ReadMemberships(l)'
  BY <1>4, <1>5, <1>6, <1>7, <1>8, <1>11, <1>14 DEF ReadMemberships
<1>16. Ordered(l)'
  BY <1>4, <1>5, <1>6, <1>7 DEF Ordered
<1>17. \A m \in Logins \ {l} : c.rows \cap login[m].rows = {}
  BY <1>5 DEF LInv, RowsAreLocked
<1> QED
  BY <1>1, <1>3, <1>5, <1>9, <1>10, <1>13, <1>15, <1>16, <1>17, SessionStep
     DEF ReadLinks, SessionInv

\* What is due tells of the rest.
LEMMA DueIsFirst ==
  ASSUME LInv, NEW l \in Logins, NEW k \in Kinds, NEW x, Due(l, k, x)
  PROVE  LET b == login[l] IN
         /\ x \in b.todo[k]
         /\ x \in Rows
         /\ x \in Users => x = b.user /\ k \in {"update", "insert"}
         /\ k \in {"link", "unlink"} => x \in Orgs
         /\ k \in {"update", "insert"} => b.pc \in {"user", "rows"}
         /\ k \in {"link", "unlink"} => b.pc = "links"
         /\ k = "update" /\ x \in Orgs =>
              /\ \A y \in b.todo["update"] \ {x} : x < y
              /\ ~orgsFirst => b.user \notin b.todo["insert"]
         /\ k = "insert" => b.pc = "rows"
         /\ k = "insert" /\ (x \in Orgs \/ orgsFirst) => b.todo["update"] = {}
         /\ k = "insert" /\ x \in Orgs =>
              /\ \A y \in b.todo["insert"] \cap Orgs : y # x => x < y
              /\ ~orgsFirst => b.user \notin b.todo["insert"]
         /\ k = "insert" /\ x = b.user /\ orgsFirst => b.todo["insert"] = {x}
         /\ k = "link" => /\ b.todo["unlink"] = {}
                          /\ \A y \in b.todo["link"] \ {x} : x < y
         /\ k = "unlink" => \A y \in b.todo["unlink"] \ {x} : x < y
<1> DEFINE b == login[l]
<1>1. /\ x \in b.todo[k]
      /\ \A j \in Kinds : \A y \in b.todo[j] :
           (j = k /\ y = x) \/ Precedes(l, k, x, j, y)
  BY DEF Due
<1>2. SessionInv(l) /\ Typed /\ b.todo \in [Kinds -> SUBSET Rows] /\ Answer(l) \subseteq Orgs
  BY CallbackTypes DEF LInv
<1>3. Users \cap Orgs = {} /\ Rows = Users \cup Orgs
  BY LoginAssumption DEF Rows
<1>4. b.pc \in {"user", "rows", "links"} /\ b.user \in Users
  <2>1. b.todo # Nothing
    BY <1>1, KindsOf
  <2>2. b.pc \notin Ended
    BY <1>2, <2>1 DEF SessionInv, Stage, NoLogin
  <2>3. b.pc \notin {"name", "orgs", "find"}
    BY <1>2, <2>1 DEF SessionInv, Stage
  <2>4. b.pc \in Ended \cup {"name", "orgs", "find", "user", "rows", "links"}
    BY <1>2, CallbackTypes DEF Callbacks
  <2> QED
    BY <1>2, <2>2, <2>3, <2>4 DEF SessionInv, NamesKnown
<1>5. /\ b.pc = "user" => b.todo["insert"] = {} /\ b.todo["update"] \subseteq {b.user}
      /\ b.pc \in {"user", "rows"} => b.todo["link"] = {} /\ b.todo["unlink"] = {}
      /\ b.pc = "rows" => /\ b.todo["update"] \subseteq Orgs
                          /\ b.todo["insert"] \subseteq Orgs \cup {b.user}
      /\ b.pc = "links" => /\ b.todo["update"] = {} /\ b.todo["insert"] = {}
                           /\ b.todo["link"] \subseteq Orgs /\ b.todo["unlink"] \subseteq Orgs
  <2>1. Stage(l)
    BY <1>2 DEF SessionInv
  <2>2. b.pc = "user" => b.todo["insert"] = {} /\ b.todo["update"] \subseteq {b.user}
    BY <2>1 DEF Stage
  <2>3. b.pc \in {"user", "rows"} => b.todo["link"] = {} /\ b.todo["unlink"] = {}
    BY <2>1 DEF Stage
  <2>4. b.pc = "rows" => /\ b.todo["update"] \subseteq Orgs
                         /\ b.todo["insert"] \subseteq Orgs \cup {b.user}
    BY <1>2, <2>1 DEF Stage
  <2>5. b.pc = "links" => /\ b.todo["update"] = {} /\ b.todo["insert"] = {}
                          /\ b.todo["link"] \subseteq Orgs /\ b.todo["unlink"] \subseteq Orgs
    BY <1>2, <2>1 DEF Stage
  <2> QED
    BY <2>2, <2>3, <2>4, <2>5
<1>6. \A j \in Kinds : \A y \in b.todo[j] : y \in Rows
  BY <1>2
<1>7. x \in Rows /\ (x \in Users => x = b.user /\ k \in {"update", "insert"})
  BY <1>1, <1>3, <1>4, <1>5, <1>6, KindsOf
<1>8. /\ k \in {"link", "unlink"} => x \in Orgs /\ b.pc = "links"
      /\ k \in {"update", "insert"} => b.pc \in {"user", "rows"}
      /\ k = "insert" => b.pc = "rows"
  BY <1>1, <1>4, <1>5, KindsOf
<1>9. k = "update" /\ x \in Orgs =>
        /\ \A y \in b.todo["update"] \ {x} : x < y
        /\ ~orgsFirst => b.user \notin b.todo["insert"]
  BY <1>1, <1>3, <1>4, <1>5, <1>8, KindsOf DEF Precedes, Sooner
<1>10. k = "insert" /\ (x \in Orgs \/ orgsFirst) => b.todo["update"] = {}
  BY <1>1, <1>3, <1>4, <1>5, <1>7, <1>8, KindsOf DEF Precedes, Sooner
<1>11. k = "insert" /\ x \in Orgs =>
         /\ \A y \in b.todo["insert"] \cap Orgs : y # x => x < y
         /\ ~orgsFirst => b.user \notin b.todo["insert"]
  BY <1>1, <1>3, <1>4, KindsOf DEF Precedes, Sooner
<1>12. k = "insert" /\ x = b.user /\ orgsFirst => b.todo["insert"] = {x}
  BY <1>1, <1>3, <1>4, KindsOf DEF Precedes
<1>13. k = "link" => /\ b.todo["unlink"] = {}
                     /\ \A y \in b.todo["link"] \ {x} : x < y
  BY <1>1, <1>3, <1>4, <1>5, <1>8, KindsOf DEF Precedes, Sooner
<1>14. k = "unlink" => \A y \in b.todo["unlink"] \ {x} : x < y
  BY <1>1, <1>3, <1>4, <1>5, <1>8, KindsOf DEF Precedes, Sooner
<1> QED
  BY <1>1, <1>7, <1>8, <1>9, <1>10, <1>11, <1>12, <1>13, <1>14

LEMMA ExecuteKeeps ==
  ASSUME LInv, Typed', NEW l \in Logins, NEW k \in Kinds, NEW x,
         Due(l, k, x),
         \A m \in Logins \ {l} : ~Blocks(m, l, k, x),
         Execute(l, k, x),
         UNCHANGED <<stored, links, answered, orgsFirst, quiet>>
  PROVE  LInv'
<1> DEFINE b == login[l]
           t == [b.todo EXCEPT ![k] = b.todo[k] \ {x}]
           r == IF k \in {"update", "insert"} THEN b.rows \cup {x} ELSE b.rows
           a == IF k = "link" THEN b.add \cup {x} ELSE b.add
           d == IF k = "unlink" THEN b.del \cup {x} ELSE b.del
           c == [b EXCEPT !.todo = t, !.rows = r, !.add = a, !.del = d]
<1>1. SessionInv(l) /\ Typed /\ b \in Callbacks /\ Answer(l) \subseteq Orgs
      /\ b.todo \in [Kinds -> SUBSET Rows]
  BY CallbackTypes DEF LInv
<1>2. Users \cap Orgs = {} /\ Rows = Users \cup Orgs
  BY LoginAssumption DEF Rows
<1>3. /\ x \in b.todo[k]
      /\ x \in Rows
      /\ x \in Users => x = b.user /\ k \in {"update", "insert"}
      /\ k \in {"link", "unlink"} => x \in Orgs
      /\ k \in {"update", "insert"} => b.pc \in {"user", "rows"}
      /\ k \in {"link", "unlink"} => b.pc = "links"
      /\ k = "update" /\ x \in Orgs =>
           /\ \A y \in b.todo["update"] \ {x} : x < y
           /\ ~orgsFirst => b.user \notin b.todo["insert"]
      /\ k = "insert" => b.pc = "rows"
      /\ k = "insert" /\ (x \in Orgs \/ orgsFirst) => b.todo["update"] = {}
      /\ k = "insert" /\ x \in Orgs =>
           /\ \A y \in b.todo["insert"] \cap Orgs : y # x => x < y
           /\ ~orgsFirst => b.user \notin b.todo["insert"]
      /\ k = "insert" /\ x = b.user /\ orgsFirst => b.todo["insert"] = {x}
      /\ k = "link" => /\ b.todo["unlink"] = {}
                       /\ \A y \in b.todo["link"] \ {x} : x < y
      /\ k = "unlink" => \A y \in b.todo["unlink"] \ {x} : x < y
  BY DueIsFirst
<1>4. Moves(l, c)
  BY <1>1, <1>3, ExecuteMoves
<1>5. \A j \in Kinds : t[j] = IF j = k THEN b.todo[k] \ {x} ELSE b.todo[j]
  BY <1>1
<1> HIDE DEF t, r, a, d
<1>6. /\ c.pc = b.pc /\ c.user = b.user /\ c.names = b.names /\ c.todo = t
      /\ c.rows = r /\ c.add = a /\ c.del = d /\ c.answer = b.answer
      /\ c.found = b.found /\ c.raced = b.raced
  BY <1>1 DEF Callbacks
<1> HIDE DEF c
<1>7. login'[l] = c
  BY <1>4 DEF Moves
<1>8. /\ Answer(l)' = Answer(l) /\ NoNews(l)' = NoNews(l)
      /\ Steady(l)' <=> Steady(l)
  BY <1>6, <1>7 DEF Answer, NoNews, Steady
<1>9. b.pc \in {"user", "rows", "links"} /\ b.user \in Users
  BY <1>1, <1>3, KindsOf DEF SessionInv, NamesKnown
<1>10. NamesKnown(l)'
  BY <1>1, <1>6, <1>7, <1>8 DEF SessionInv, NamesKnown
<1>11. Stage(l)'
  <2>1. Stage(l)
    BY <1>1 DEF SessionInv
  <2>2. CASE k = "update"
    BY <2>1, <2>2, <1>3, <1>5, <1>6, <1>7, <1>8, <1>9, KindsOf DEF Stage, r, a, d
  <2>3. CASE k = "insert"
    BY <2>1, <2>3, <1>3, <1>5, <1>6, <1>7, <1>8, <1>9, KindsOf DEF Stage, r, a, d
  <2>4. CASE k = "link"
    BY <2>1, <2>4, <1>3, <1>5, <1>6, <1>7, <1>8, <1>9, KindsOf DEF Stage, r, a, d
  <2>5. CASE k = "unlink"
    BY <2>1, <2>5, <1>3, <1>5, <1>6, <1>7, <1>8, <1>9, KindsOf DEF Stage, r, a, d
  <2> QED
    BY <2>2, <2>3, <2>4, <2>5, KindsOf
<1>12. ReadRows(l)'
  BY <1>1, <1>5, <1>6, <1>7, <1>8, KindsOf DEF SessionInv, ReadRows
<1>13. ReadMemberships(l)'
  BY <1>1, <1>3, <1>5, <1>6, <1>7, <1>8, KindsOf DEF SessionInv, ReadMemberships, a, d
<1>14. Ordered(l)'
  <2>1. Ordered(l) /\ Stage(l) /\ ReadRows(l)
    BY <1>1 DEF SessionInv
  <2>2. CASE k = "update"
    <3>1. /\ t["update"] = b.todo["update"] \ {x} /\ t["insert"] = b.todo["insert"]
          /\ t["link"] = b.todo["link"] /\ t["unlink"] = b.todo["unlink"]
          /\ r = b.rows \cup {x} /\ a = b.add /\ d = b.del
      BY <2>2, <1>5, KindsOf DEF r, a, d
    <3>2. stored[x] # 0
      BY <2>1, <2>2, <1>3 DEF ReadRows
    <3>3. ~(orgsFirst /\ ~b.found /\ b.user \in r)
      BY <2>1, <2>2, <3>1, <1>2, <1>3, <1>9 DEF Ordered, Stage
    <3> QED
      BY <2>1, <2>2, <3>1, <3>2, <3>3, <1>2, <1>3, <1>6, <1>7, <1>9 DEF Ordered
  <2>3. CASE k = "insert"
    <3>1. /\ t["update"] = b.todo["update"] /\ t["insert"] = b.todo["insert"] \ {x}
          /\ t["link"] = b.todo["link"] /\ t["unlink"] = b.todo["unlink"]
          /\ r = b.rows \cup {x} /\ a = b.add /\ d = b.del
      BY <2>3, <1>5, KindsOf DEF r, a, d
    <3>2. CASE x \in Orgs
      BY <2>1, <2>3, <3>1, <3>2, <1>2, <1>3, <1>6, <1>7, <1>9 DEF Ordered
    <3>3. CASE x = b.user
      BY <2>1, <2>3, <3>1, <3>3, <1>2, <1>3, <1>6, <1>7, <1>9 DEF Ordered
    <3> QED
      BY <3>2, <3>3, <1>2, <1>3
  <2>4. CASE k = "link"
    BY <2>1, <2>4, <1>3, <1>5, <1>6, <1>7, KindsOf DEF Stage, Ordered, r, a, d
  <2>5. CASE k = "unlink"
    BY <2>1, <2>5, <1>3, <1>5, <1>6, <1>7, KindsOf DEF Stage, Ordered, r, a, d
  <2> QED
    BY <2>2, <2>3, <2>4, <2>5, KindsOf
<1>15. \A m \in Logins \ {l} : c.rows \cap login[m].rows = {}
  BY <1>6 DEF LInv, RowsAreLocked, Blocks, r
<1>16. SessionInv(l)'
  BY <1>10, <1>11, <1>12, <1>13, <1>14 DEF SessionInv
<1> QED
  BY <1>4, <1>6, <1>9, <1>15, <1>16, SessionStep

\* A transaction is rolled back in a race.
LEMMA FailsKeeps ==
  ASSUME LInv, Typed', NEW l \in Logins, NEW raced, raced = TRUE, Fails(l, raced),
         UNCHANGED <<stored, links, answered, orgsFirst, quiet>>
  PROVE  LInv'
<1> DEFINE c == [NoLogin EXCEPT !.pc = "failed", !.raced = raced]
<1>1. Moves(l, c)
  BY FailsMoves DEF LInv
<1>2. login'[l] = c
  BY <1>1 DEF Moves
<1>3. SessionInv(l)'
  BY <1>2, EndedSessions
<1>4. c.pc = "failed" /\ c.raced /\ c.rows = {}
  BY DEF NoLogin
<1> QED
  BY <1>1, <1>3, <1>4, SessionStep

\* A statement breaks a constraint only if the session was raced.
LEMMA BrokenNeedsARace ==
  ASSUME LInv, NEW l \in Logins, NEW k \in Kinds, NEW x,
         Due(l, k, x), Broken(l, k, x)
  PROVE  login[l].raced = TRUE
<1> SUFFICES ASSUME login[l].raced = FALSE
             PROVE  FALSE
  BY CallbackTypes DEF LInv
<1>1. /\ x \in login[l].todo[k] /\ SessionInv(l) /\ Steady(l)
      /\ k \in {"link", "unlink"} => login[l].pc = "links"
  BY DueIsFirst DEF LInv, Steady
<1>2. CASE k = "insert"
  BY <1>1, <1>2 DEF Broken, SessionInv, ReadRows
<1>3. CASE k \in {"link", "unlink"}
  BY <1>1, <1>3 DEF Broken, SessionInv, ReadMemberships
<1> QED
  BY <1>2, <1>3 DEF Broken

LEMMA SendKeeps ==
  ASSUME LInv, Typed', NEW l \in Logins, Send(l)
  PROVE  LInv'
<1>1. PICK k \in Kinds :
        \E x \in login[l].todo[k] :
          /\ Due(l, k, x)
          /\ \A m \in Logins \ {l} : ~Blocks(m, l, k, x)
          /\ (Execute(l, k, x) \/ Refused(l, k, x))
  BY DEF Send
<1>2. PICK x \in login[l].todo[k] :
        /\ Due(l, k, x)
        /\ \A m \in Logins \ {l} : ~Blocks(m, l, k, x)
        /\ (Execute(l, k, x) \/ Refused(l, k, x))
  BY <1>1
<1>3. UNCHANGED <<stored, links, answered, orgsFirst, quiet>>
  BY DEF Send
<1>4. CASE Execute(l, k, x)
  BY <1>2, <1>3, <1>4, ExecuteKeeps
<1>5. CASE Refused(l, k, x)
  BY <1>2, <1>3, <1>5, BrokenNeedsARace, FailsKeeps DEF Refused
<1> QED
  BY <1>2, <1>4, <1>5

\* One of finitely many organizations is the last.
LEMMA LastOrg ==
  ASSUME NEW D \in SUBSET Orgs, D # {}
  PROVE  \E x \in D : \A y \in D : ~(x < y)
<1> DEFINE Above(x) == {y \in D : x < y}
           T == {Above(x) : x \in D}
<1>1. D \subseteq Nat /\ IsFiniteSet(D)
  BY LoginAssumption, FS_Subset
<1>2. IsWellFoundedOn(StrictSubsetOrdering(D), FiniteSubsetsOf(D))
  BY FS_StrictSubsetOrderingWellFounded
<1>3. FiniteSubsetsOf(D) = SUBSET D
  BY <1>1, FS_FiniteSubsetsOfFinite
<1>4. T \subseteq SUBSET D /\ T # {}
  OBVIOUS
<1>5. PICK A \in T : \A B \in T : ~(<<B, A>> \in StrictSubsetOrdering(D))
  <2> HIDE DEF T
  <2> QED
    BY <1>2, <1>3, <1>4, WFMin
<1>6. PICK x \in D : A = Above(x)
  OBVIOUS
<1>7. ASSUME NEW y \in D, x < y PROVE FALSE
  <2>1. Above(y) \subseteq Above(x) /\ y \in Above(x) /\ y \notin Above(y)
    <3>1. x \in Nat /\ y \in Nat
      BY <1>1
    <3>2. ASSUME NEW z \in Above(y) PROVE z \in Above(x)
      BY <1>1, <1>7, <3>1, <3>2
    <3>3. y \notin Above(y)
      BY <3>1
    <3> QED
      BY <1>7, <3>2, <3>3
  <2>2. Above(y) \in T /\ Above(y) \in SUBSET D /\ Above(x) \in SUBSET D
    OBVIOUS
  <2>3. <<Above(y), Above(x)>> \in StrictSubsetOrdering(D)
    <3> HIDE DEF Above
    <3> QED
      BY <2>1, <2>2 DEF StrictSubsetOrdering
  <2> QED
    BY <1>5, <1>6, <2>2, <2>3
<1> QED
  BY <1>7

\* Sessions that wait for each other in a circle have been raced, or one has:
\* all others write in one order, their own row, organizations that have a
\* row, those that have none, a new user after them, and the memberships.
LEMMA CirclesNeedARace ==
  ASSUME LInv, NEW S \in SUBSET Logins, S # {},
         \A p \in S : \E q \in S : WaitsFor(p, q)
  PROVE  \E m \in S : login[m].raced = TRUE
<1> SUFFICES ASSUME \A m \in S : login[m].raced = FALSE
             PROVE  FALSE
  <2>1. \A m \in S : login[m].raced \in BOOLEAN
    BY CallbackTypes DEF LInv
  <2> QED
    BY <2>1
<1> DEFINE W(p, q, k, x) == Due(p, k, x) /\ Blocks(q, p, k, x)
<1>1. \A p \in S : \E q \in S : \E k \in Kinds : \E x : W(p, q, k, x)
  BY DEF WaitsFor
<1>2. \A p \in S : /\ p \in Logins /\ SessionInv(p) /\ Steady(p)
                   /\ Stage(p) /\ ReadRows(p) /\ ReadMemberships(p) /\ Ordered(p)
  BY DEF LInv, Steady, SessionInv
<1>3. Users \cap Orgs = {} /\ Rows = Users \cup Orgs
  BY LoginAssumption DEF Rows
<1>4. \A p \in S : login[p].todo \in [Kinds -> SUBSET Rows] /\ Answer(p) \subseteq Orgs
  BY <1>2, CallbackTypes DEF LInv
<1>5. ASSUME NEW p \in S, NEW q \in S, NEW k \in Kinds, NEW x, W(p, q, k, x)
      PROVE  /\ x \in login[p].todo[k]
             /\ x \in Rows
             /\ x \in Users => x = login[p].user /\ k \in {"update", "insert"}
             /\ k \in {"link", "unlink"} => x \in Orgs
             /\ k \in {"update", "insert"} =>
                  login[p].pc \in {"user", "rows"} /\ x \in login[q].rows
             /\ k = "insert" => login[p].pc = "rows"
             /\ k \in {"link", "unlink"} =>
                  login[p].pc = "links" /\ login[q].user = login[p].user
             /\ k = "link" => x \in login[q].add \cup login[q].del
             /\ k = "unlink" => x \in login[q].del
  BY <1>2, <1>5, DueIsFirst DEF Blocks
<1> HIDE DEF W
<1>6. ASSUME NEW p \in S, NEW q \in S, NEW x, W(p, q, "link", x)
      PROVE  FALSE
  <2> DEFINE D == {y \in Orgs : \E s, v \in S : W(s, v, "link", y)}
  <2>1. PICK y \in D : \A z \in D : ~(y < z)
    <3>1. x \in D
      BY <1>5, <1>6, KindsOf
    <3>2. D # {} /\ D \in SUBSET Orgs
      BY <3>1
    <3> HIDE DEF D
    <3> QED
      BY <3>2, LastOrg
  <2>2. PICK s \in S, v \in S : W(s, v, "link", y)
    OBVIOUS
  <2>3. /\ y \in login[s].todo["link"] /\ login[s].pc = "links"
        /\ login[v].user = login[s].user /\ y \in login[v].add \cup login[v].del
    BY <2>2, <1>5, KindsOf
  <2>4. login[v].pc = "links"
    BY <2>3, <1>2 DEF Stage
  <2>5. y \in login[v].add
    BY <2>3, <2>4, <1>2 DEF ReadMemberships
  <2>6. PICK w \in S, k \in Kinds : \E z : W(v, w, k, z)
    BY <1>1
  <2>7. PICK z : W(v, w, k, z)
    BY <2>6
  <2>8. k = "link" /\ z \in Orgs /\ y < z
    <3>1. k \in {"link", "unlink"} /\ z \in login[v].todo[k] /\ z \in Orgs
      <4>1. /\ z \in login[v].todo[k]
            /\ k \in {"update", "insert"} => login[v].pc \in {"user", "rows"}
            /\ k \in {"link", "unlink"} => z \in Orgs
        BY <2>7, <1>5
      <4> QED
        BY <2>4, <4>1, KindsOf
    <3>2. login[v].todo["unlink"] = {} /\ \A e \in login[v].todo["link"] : y < e
      BY <2>5, <1>2 DEF Ordered
    <3> QED
      BY <3>1, <3>2
  <2> QED
    BY <2>1, <2>7, <2>8
<1>7. ASSUME NEW p \in S, NEW q \in S, NEW x, W(p, q, "unlink", x)
      PROVE  FALSE
  <2> DEFINE D == {y \in Orgs : \E s, v \in S : W(s, v, "unlink", y)}
  <2>1. PICK y \in D : \A z \in D : ~(y < z)
    <3>1. x \in D
      BY <1>5, <1>7, KindsOf
    <3>2. D # {} /\ D \in SUBSET Orgs
      BY <3>1
    <3> HIDE DEF D
    <3> QED
      BY <3>2, LastOrg
  <2>2. PICK s \in S, v \in S : W(s, v, "unlink", y)
    OBVIOUS
  <2>3. y \in login[v].del
    BY <2>2, <1>5, KindsOf
  <2>4. login[v].pc = "links"
    BY <2>3, <1>2 DEF Stage
  <2>6. PICK w \in S, k \in Kinds : \E z : W(v, w, k, z)
    BY <1>1
  <2>7. PICK z : W(v, w, k, z)
    BY <2>6
  <2>8. k = "unlink" /\ z \in Orgs /\ y < z
    <3>1. k = "unlink" /\ z \in login[v].todo[k] /\ z \in Orgs
      <4>1. /\ z \in login[v].todo[k]
            /\ k \in {"update", "insert"} => login[v].pc \in {"user", "rows"}
            /\ k \in {"link", "unlink"} => z \in Orgs
        BY <2>7, <1>5
      <4>2. k # "link"
        BY <2>7, <1>6
      <4> QED
        BY <2>4, <4>1, <4>2, KindsOf
    <3>2. \A e \in login[v].todo["unlink"] : y < e
      BY <2>3, <1>2 DEF Ordered
    <3> QED
      BY <3>1, <3>2
  <2> QED
    BY <2>1, <2>7, <2>8
<1>8. ASSUME NEW p \in S, NEW q \in S, NEW k \in Kinds, NEW x, W(p, q, k, x)
      PROVE  /\ k \in {"update", "insert"}
             /\ x \in login[p].todo[k] /\ x \in login[q].rows
             /\ x \in Orgs \/ x = login[p].user
             /\ x \in Users => x = login[q].user
             /\ login[p].pc \in {"user", "rows"}
  <2>1. k \in {"update", "insert"}
    BY <1>6, <1>7, <1>8, KindsOf
  <2>2. x \in login[p].todo[k] /\ x \in login[q].rows /\ (x \in Orgs \/ x = login[p].user)
        /\ login[p].pc \in {"user", "rows"}
    BY <2>1, <1>3, <1>5, <1>8
  <2>3. login[q].pc \in {"user", "rows"}
    <3>1. PICK w \in S, j \in Kinds : \E y : W(q, w, j, y)
      BY <1>1
    <3>2. PICK y : W(q, w, j, y)
      BY <3>1
    <3>3. j \in {"update", "insert"}
      BY <3>2, <1>6, <1>7, KindsOf
    <3> QED
      BY <3>2, <3>3, <1>5
  <2>4. login[q].rows \subseteq Answer(q) \cup {login[q].user}
    BY <2>3, <1>2 DEF Stage
  <2> QED
    BY <2>1, <2>2, <2>4, <1>3, <1>4
<1>9. ASSUME orgsFirst, NEW p \in S, NEW q \in S, NEW x \in Users, W(p, q, "insert", x)
      PROVE  FALSE
  <2>1. /\ x \in login[p].todo["insert"] /\ x \in login[q].rows
        /\ x = login[p].user /\ x = login[q].user /\ stored[x] = 0
    BY <1>2, <1>3, <1>8, <1>9, KindsOf DEF ReadRows
  <2>2. PICK w \in S, j \in Kinds : \E y : W(q, w, j, y)
    BY <1>1
  <2>3. PICK y : W(q, w, j, y)
    BY <2>2
  <2>4. /\ j \in {"update", "insert"} /\ y \in login[q].todo[j]
        /\ login[q].pc \in {"user", "rows"}
    BY <2>3, <1>8
  <2>5. ~login[q].found
    BY <2>1, <2>4, <1>2 DEF ReadRows
  <2> QED
    BY <2>1, <2>4, <2>5, <1>2, <1>9 DEF Ordered
<1>10. ASSUME NEW q \in S, NEW y \in Users, NEW w \in S, W(q, w, "insert", y),
              login[q].rows \cap Orgs # {}
       PROVE  FALSE
  <2>1. y = login[q].user /\ y \in login[q].todo["insert"]
    BY <1>3, <1>8, <1>10, KindsOf
  <2> QED
    BY <2>1, <1>2, <1>9, <1>10 DEF Ordered
<1>11. ASSUME NEW p \in S, NEW q \in S, NEW x \in Orgs, W(p, q, "insert", x)
       PROVE  FALSE
  <2> DEFINE D == {y \in Orgs : \E s, v \in S : W(s, v, "insert", y)}
  <2>1. PICK y \in D : \A z \in D : ~(y < z)
    <3>1. D # {} /\ D \in SUBSET Orgs
      BY <1>11
    <3> HIDE DEF D
    <3> QED
      BY <3>1, LastOrg
  <2>2. PICK s \in S, v \in S : W(s, v, "insert", y)
    OBVIOUS
  <2>3. y \in login[s].todo["insert"] /\ y \in login[v].rows /\ stored[y] = 0
    BY <2>2, <1>2, <1>8, KindsOf DEF ReadRows
  <2>4. PICK w \in S, k \in Kinds : \E z : W(v, w, k, z)
    BY <1>1
  <2>5. PICK z : W(v, w, k, z)
    BY <2>4
  <2>6. k = "insert" /\ (z \in Orgs => y < z)
    <3>1. k \in {"update", "insert"} /\ z \in login[v].todo[k]
      BY <2>5, <1>8
    <3>2. y \in login[v].rows \cap Orgs
      BY <2>3
    <3>3. /\ login[v].todo["update"] = {}
          /\ \A e \in login[v].todo["insert"] \cap Orgs : y < e
      BY <2>3, <3>2, <1>2 DEF Ordered
    <3> QED
      BY <3>1, <3>3
  <2>7. z \in Orgs
    BY <2>3, <2>5, <2>6, <1>3, <1>5, <1>10
  <2> QED
    BY <2>1, <2>5, <2>6, <2>7
<1>12. ASSUME NEW p \in S, NEW q \in S, NEW x \in Orgs, W(p, q, "update", x)
       PROVE  FALSE
  <2> DEFINE D == {y \in Orgs : \E s, v \in S : W(s, v, "update", y)}
  <2>1. PICK y \in D : \A z \in D : ~(y < z)
    <3>1. D # {} /\ D \in SUBSET Orgs
      BY <1>12
    <3> HIDE DEF D
    <3> QED
      BY <3>1, LastOrg
  <2>2. PICK s \in S, v \in S : W(s, v, "update", y)
    OBVIOUS
  <2>3. y \in login[v].rows
    BY <2>2, <1>8, KindsOf
  <2>4. PICK w \in S, k \in Kinds : \E z : W(v, w, k, z)
    BY <1>1
  <2>5. PICK z : W(v, w, k, z)
    BY <2>4
  <2>6. k = "update"
    <3>1. k \in {"update", "insert"} /\ z \in Rows
      BY <2>5, <1>5, <1>8
    <3>2. login[v].rows \cap Orgs # {}
      BY <2>3
    <3>3. CASE k = "insert" /\ z \in Orgs
      BY <2>5, <3>3, <1>11
    <3>4. CASE k = "insert" /\ z \in Users
      BY <2>5, <3>2, <3>4, <1>10
    <3> QED
      BY <3>1, <3>3, <3>4, <1>3
  <2>7. z \in Orgs
    <3>1. z \in login[v].todo["update"] /\ login[v].pc \in {"user", "rows"}
      BY <2>5, <2>6, <1>8, KindsOf
    <3>2. login[v].pc # "user"
      <4>1. login[v].pc = "user" => login[v].rows \subseteq {login[v].user}
        BY <1>2 DEF Stage
      <4>2. login[v].pc = "user" => login[v].user \in Users
        BY <1>2 DEF SessionInv, NamesKnown
      <4> QED
        BY <2>3, <4>1, <4>2, <1>3
    <3> QED
      BY <3>1, <3>2, <1>2, <1>4 DEF Stage
  <2>8. y < z
    <3>1. z \in login[v].todo["update"]
      BY <2>5, <2>6, <1>8, KindsOf
    <3>2. y \in login[v].rows \cap Orgs
      BY <2>3
    <3> QED
      BY <3>1, <3>2, <1>2 DEF Ordered
  <2> QED
    BY <2>1, <2>5, <2>6, <2>7, <2>8
<1>13. PICK p \in S : TRUE
  OBVIOUS
<1>14. PICK q \in S, k \in Kinds : \E x : W(p, q, k, x)
  BY <1>1
<1>15. PICK x : W(p, q, k, x)
  BY <1>14
<1>16. x \in Users /\ x = login[q].user /\ x \in login[q].rows
  BY <1>3, <1>5, <1>8, <1>11, <1>12, <1>15
<1>17. PICK w \in S, j \in Kinds : \E y : W(q, w, j, y)
  BY <1>1
<1>18. PICK y : W(q, w, j, y)
  BY <1>17
<1>19. j \in {"update", "insert"} /\ y \in login[q].todo[j] /\ y = login[q].user
  BY <1>3, <1>5, <1>8, <1>11, <1>12, <1>18
<1> QED
  BY <1>2, <1>16, <1>19 DEF Stage

LEMMA DeadlockVictimKeeps ==
  ASSUME LInv, Typed', NEW l \in Logins, LoginDeadlockVictim(l)
  PROVE  LInv'
<1>1. PICK S \in LoginCycles : Fails(l, \E m \in S : login[m].raced)
  BY DEF LoginDeadlockVictim
<1>2. S \in SUBSET Logins /\ S # {} /\ \A p \in S : \E q \in S : WaitsFor(p, q)
  <2> DEFINE E == {e \in Logins \X Logins : WaitsFor(e[1], e[2])}
  <2>1. S \in Stuck(Logins, E)
    BY <1>1 DEF LoginCycles, WaitCycles
  <2>2. S \in SUBSET Logins /\ S # {} /\ \A p \in S : \E q \in S : <<p, q>> \in E
    <3> HIDE DEF E
    <3> QED
      BY <2>1 DEF Stuck
  <2>3. \A p, q \in S : <<p, q>> \in E => WaitsFor(p, q)
    OBVIOUS
  <2> HIDE DEF E
  <2> QED
    BY <2>2, <2>3
<1>3. \E m \in S : login[m].raced = TRUE
  BY <1>2, CirclesNeedARace
<1>4. (\E m \in S : login[m].raced) = TRUE
  BY <1>3
<1>5. UNCHANGED <<stored, links, answered, orgsFirst, quiet>>
  BY DEF LoginDeadlockVictim
<1> QED
  BY <1>1, <1>4, <1>5, FailsKeeps

\* A commit disturbs only what other sessions have read in a race.
LEMMA CommitKeeps ==
  ASSUME LInv, Typed', NEW l \in Logins, Commit(l)
  PROVE  LInv'
<1> DEFINE b == login[l]
           u == b.user
<1>1. /\ SessionInv(l) /\ Stage(l) /\ NamesKnown(l) /\ ReadRows(l)
      /\ b.pc = "links" \/ (b.pc = "user" /\ NoNews(l))
      /\ \A k \in Kinds : b.todo[k] = {}
  BY KindsOf DEF LInv, SessionInv, Commit, Flushed
<1>2. u \in Users /\ u \in Rows /\ Running(l) /\ Users \cap Orgs = {} /\ Answer(l) \subseteq Orgs
  BY <1>1, LoginAssumption, CallbackTypes DEF NamesKnown, Rows, LInv
<1>3. b.rows \subseteq Orgs \cup {u} /\ \A x \in b.rows : b.names[x] # 0
  BY <1>1, <1>2 DEF Stage, NamesKnown
<1>4. \A x \in Rows : stored'[x] = IF x \in b.rows THEN b.names[x] ELSE stored[x]
  BY DEF Commit
<1>5. \A x \in Rows : stored'[x] = 0 <=> stored[x] = 0 /\ x \notin b.rows
  BY <1>3, <1>4
<1>6. \A v \in Users \ {u} : links'[v] = links[v] /\ answered'[v] = answered[v]
  BY DEF Commit, LInv, Typed
<1>7. /\ links'[u] = (links[u] \ b.del) \cup b.add
      /\ answered'[u] = IF NoNews(l) THEN answered[u] ELSE Answer(l)
  BY <1>2 DEF Commit, LInv, Typed
<1>8. UNCHANGED <<quiet, orgsFirst>>
  BY DEF Commit
<1>9. login'[l] = NoLogin
  BY DEF Commit
<1>10. ASSUME NEW m \in Logins \ {l}
       PROVE  /\ ~(Running(m) /\ Races(l, m)) => login'[m] = login[m]
              /\ Running(m) /\ Races(l, m) => login'[m] = [login[m] EXCEPT !.raced = TRUE]
  BY DEF Commit
<1>11. ASSUME NEW m \in Logins \ {l}
       PROVE  /\ login'[m].pc = login[m].pc /\ login'[m].user = login[m].user
              /\ login'[m].names = login[m].names /\ login'[m].answer = login[m].answer
              /\ login'[m].found = login[m].found /\ login'[m].todo = login[m].todo
              /\ login'[m].rows = login[m].rows /\ login'[m].add = login[m].add
              /\ login'[m].del = login[m].del
              /\ login'[m].raced = (login[m].raced \/ (Running(m) /\ Races(l, m)))
  <2>1. login[m] \in Callbacks
    BY CallbackTypes DEF LInv
  <2>2. CASE Running(m) /\ Races(l, m)
    BY <2>1, <2>2, <1>10 DEF Callbacks
  <2>3. CASE ~(Running(m) /\ Races(l, m))
    BY <2>1, <2>3, <1>10 DEF Callbacks
  <2> QED
    BY <2>2, <2>3
<1>12. ASSUME NEW m \in Logins PROVE SessionInv(m)'
  <2>1. CASE m = l
    <3>1. NoLogin = [NoLogin EXCEPT !.pc = NoLogin.pc, !.raced = NoLogin.raced]
      BY DEF NoLogin
    <3>2. NoLogin.pc \in Ended /\ NoLogin.raced \in BOOLEAN
      BY DEF NoLogin
    <3> QED
      BY <2>1, <3>1, <3>2, <1>9, EndedSessions
  <2>2. CASE m # l /\ ~Running(m)
    <3>1. login'[m] = login[m] /\ login[m].pc \in Ended /\ login[m].raced \in BOOLEAN
      BY <2>2, <1>10, CallbackTypes DEF LInv, Callbacks
    <3>2. login[m] = [NoLogin EXCEPT !.pc = login[m].pc, !.raced = login[m].raced]
      BY <3>1 DEF LInv, SessionInv, Stage
    <3> QED
      BY <3>1, <3>2, EndedSessions
  <2>3. CASE m # l /\ Running(m)
    <3> DEFINE c == login[m]
    <3>1. /\ NamesKnown(m) /\ Stage(m) /\ ReadRows(m) /\ ReadMemberships(m) /\ Ordered(m)
          /\ c.user \in Users /\ c.user \in Rows /\ c.todo \in [Kinds -> SUBSET Rows]
          /\ Answer(m) \subseteq Orgs /\ c.raced \in BOOLEAN
      BY <2>3, CallbackTypes DEF LInv, SessionInv, NamesKnown, Rows
    <3>2. /\ login'[m].pc = login[m].pc /\ login'[m].user = login[m].user
          /\ login'[m].names = login[m].names /\ login'[m].answer = login[m].answer
          /\ login'[m].found = login[m].found /\ login'[m].todo = login[m].todo
          /\ login'[m].rows = login[m].rows /\ login'[m].add = login[m].add
          /\ login'[m].del = login[m].del
          /\ login'[m].raced = (login[m].raced \/ Races(l, m))
      BY <2>3, <1>11
    <3>3. Answer(m)' = Answer(m) /\ NoNews(m)' = NoNews(m)
      BY <3>2 DEF Answer, NoNews
    <3>4. Steady(m)' => Steady(m) /\ c.user # u
      <4>1. c.user = u => ~quiet[u] /\ Races(l, m)
        BY <2>3, <1>2 DEF LInv, OneLoginIfQuiet, Races
      <4> QED
        BY <3>1, <3>2, <4>1, <1>8 DEF Steady
    <3>5. NamesKnown(m)' /\ Stage(m)'
      <4>1. NamesKnown(m)'
        BY <3>1, <3>2, <3>3 DEF NamesKnown
      <4>2. Stage(m)'
        BY <2>3, <3>1, <3>2, <3>3 DEF Stage
      <4> QED
        BY <4>1, <4>2
    <3>6. ReadRows(m)'
      <4>1. c.user # u => c.user \notin b.rows
        BY <1>2, <1>3, <3>1
      <4>2. c.pc \in {"user", "rows", "links"} =>
              IF c.found THEN stored'[c.user] # 0 ELSE Steady(m)' => stored'[c.user] = 0
        BY <3>1, <3>4, <4>1, <1>5 DEF ReadRows
      <4>3. \A x \in c.todo["update"] : stored'[x] # 0
        BY <3>1, <1>5, KindsOf DEF ReadRows
      <4>4. ASSUME ~login'[m].raced, NEW x \in c.todo["insert"] PROVE stored'[x] = 0
        <5>1. ~c.raced /\ ~Races(l, m)
          BY <3>1, <3>2, <4>4
        <5>2. stored[x] = 0 /\ x \in Rows
          BY <3>1, <5>1, KindsOf DEF ReadRows
        <5>3. x \in Answer(m) \cup {c.user}
          BY <3>1 DEF Stage
        <5>4. c.user # u
          BY <5>1 DEF Races
        <5>5. x \notin b.rows
          BY <5>1, <5>2, <5>3, <5>4, <4>1, <3>1 DEF Races
        <5> QED
          BY <5>2, <5>5, <1>5
      <4> QED
        BY <3>2, <4>2, <4>3, <4>4 DEF ReadRows
    <3>7. ReadMemberships(m)'
      BY <3>1, <3>2, <3>3, <3>4, <1>6 DEF ReadMemberships
    <3>8. Ordered(m)'
      <4>1. \A x \in Orgs : stored'[x] = 0 => stored[x] = 0
        BY <1>5 DEF Rows
      <4> QED
        BY <3>1, <3>2, <4>1, <1>8 DEF Ordered
    <3> QED
      BY <3>5, <3>6, <3>7, <3>8 DEF SessionInv
  <2> QED
    BY <2>1, <2>2, <2>3
<1>13. /\ login'[l].rows = {} /\ ~Running(l)' /\ login'[l].pc # "failed"
       /\ \A m \in Logins \ {l} : login'[m].rows = login[m].rows
  BY <1>9, <1>11 DEF NoLogin
<1>14. RowsAreLocked'
  BY <1>13 DEF LInv, RowsAreLocked
<1>15. OneLoginIfQuiet'
  BY <1>8, <1>11, <1>13 DEF LInv, OneLoginIfQuiet
<1>16. ErrorsNeedARace'
  BY <1>11, <1>13 DEF LInv, ErrorsNeedARace
<1>17. stored'[u] # 0
  BY <1>1, <1>2, <1>5, KindsOf DEF Stage, ReadRows, NoNews
<1>18. NewUsersHaveNone'
  <2> SUFFICES ASSUME NEW v \in Users, stored'[v] = 0
               PROVE  links'[v] = {} /\ answered'[v] = {}
    BY DEF NewUsersHaveNone
  <2>1. v # u /\ stored[v] = 0
    BY <1>5, <1>17 DEF Rows
  <2> QED
    BY <2>1, <1>6 DEF LInv, NewUsersHaveNone
<1>19. QuietMembershipsAreAnswers'
  <2> SUFFICES ASSUME NEW v \in Users, quiet'[v]
               PROVE  links'[v] = answered'[v]
    BY DEF QuietMembershipsAreAnswers
  <2>1. quiet[v]
    BY <1>8
  <2>2. CASE v # u
    BY <2>1, <2>2, <1>6 DEF LInv, QuietMembershipsAreAnswers
  <2>3. CASE v = u /\ b.pc = "links"
    <3>1. b.add = Answer(l) \ links[u] /\ b.del = links[u] \ Answer(l)
      BY <2>1, <2>3, <1>1, KindsOf DEF SessionInv, ReadMemberships, Steady
    <3>2. ~NoNews(l)
      BY <2>3, <1>1 DEF Stage
    <3> QED
      BY <2>3, <3>1, <3>2, <1>7
  <2>4. CASE v = u /\ b.pc = "user" /\ NoNews(l)
    <3>1. b.add = {} /\ b.del = {}
      BY <2>4, <1>1 DEF Stage
    <3> QED
      BY <2>1, <2>4, <3>1, <1>7 DEF LInv, QuietMembershipsAreAnswers
  <2> QED
    BY <2>2, <2>3, <2>4, <1>1
<1> QED
  BY <1>12, <1>14, <1>15, <1>16, <1>18, <1>19 DEF LInv
-----------------------------------------------------------------------------
(***************************************************************************)
(* The theorems                                                            *)
(***************************************************************************)
LEMMA LoginInvStep ==
  ASSUME LInv, [LoginNext]_loginVars
  PROVE  LInv'
<1>1. Typed'
  BY LoginTyped, SessionsAreTyped DEF LInv
<1>2. ASSUME NEW x \in Renamed, Rename(x) PROVE LInv'
  <2>1. UNCHANGED <<stored, links, login, answered, quiet, orgsFirst>>
    BY <1>2 DEF Rename
  <2> QED
    BY <2>1, <1>1, OthersKeep
<1>3. ASSUME NEW u \in Users, NEW o \in Orgs, Relist(u, o) PROVE LInv'
  <2>1. UNCHANGED <<stored, links, login, answered, quiet, orgsFirst>>
    BY <1>3 DEF Relist
  <2> QED
    BY <2>1, <1>1, OthersKeep
<1>4. ASSUME NEW l \in Logins, NEW u \in Users, Begin(l, u) PROVE LInv'
  BY <1>1, <1>4, BeginKeeps
<1>5. ASSUME NEW l \in Logins, Step(l) PROVE LInv'
  BY <1>1, <1>5, NoTokenKeeps, GetUserKeeps, GetOrgsKeeps, FindKeeps, ReadOrgsKeeps,
     ReadLinksKeeps, SendKeeps, DeadlockVictimKeeps, CommitKeeps DEF Step
<1>6. CASE UNCHANGED loginVars
  <2>1. UNCHANGED <<stored, links, login, answered, quiet, orgsFirst>>
    BY <1>6 DEF loginVars
  <2> QED
    BY <2>1, <1>1, OthersKeep
<1> QED
  BY <1>2, <1>3, <1>4, <1>5, <1>6 DEF LoginNext

\* Login keeps its inductive invariant, with the types of everything.
THEOREM LoginInvariant == LoginSpec => [](LInv /\ LoginTypeOK)
<1>1. LoginInit => LInv
  BY LoginInvInit
<1>2. LInv /\ [LoginNext]_loginVars => LInv'
  BY LoginInvStep
<1>3. LInv => LoginTypeOK
  BY DEF LInv, Typed, LoginTypeOK, SessionInv, Stage
<1> QED
  BY <1>1, <1>2, <1>3, PTL DEF LoginSpec

\* A login fails, by a constraint or in a deadlock, only if it or one that it
\* waits for was raced: another login of the user, or one that made the row of
\* an organization that had none, has committed since it began.
THEOREM ErrorsNeedARaceAlways == LoginSpec => []ErrorsNeedARace
<1>1. LInv => ErrorsNeedARace
  BY DEF LInv
<1> QED
  BY <1>1, LoginInvariant, PTL

\* The memberships of a user whose logins never overlapped are what GitHub
\* told the last of them, whatever the logins of others do.
THEOREM QuietMembershipsAreAnswersAlways == LoginSpec => []QuietMembershipsAreAnswers
<1>1. LInv => QuietMembershipsAreAnswers
  BY DEF LInv
<1> QED
  BY <1>1, LoginInvariant, PTL
-----------------------------------------------------------------------------
(***************************************************************************)
(* Signaling and logins side by side                                       *)
(***************************************************************************)
\* Each of the two behaves in MCTransactions as in its own specification, and
\* so what is proved of it holds of the instance that TLC checks.
THEOREM TransactionsAreComponents == Spec => SignalingSpec /\ LoginSpec
<1>1. Init => SignalingInit /\ LoginInit
  BY DEF Init
<1>2. ASSUME [Next]_vars
      PROVE  [SignalingNext]_signalingVars /\ [LoginNext]_loginVars
  <2>1. CASE UNCHANGED vars
    BY <2>1 DEF vars
  <2>2. CASE Next
    BY <2>2 DEF Next
  <2> QED
    BY <1>2, <2>1, <2>2
<1> QED
  BY <1>1, <1>2, PTL DEF Spec, SignalingSpec, LoginSpec

\* Whichever of them takes the steps, all variables keep their types.
THEOREM TransactionsTypesCorrect == Spec => []TypeOK
<1>1. SignalingTypeOK /\ LoginTypeOK => TypeOK
  BY DEF TypeOK
<1> QED
  BY <1>1, TransactionsAreComponents, TypeCorrect, LoginInvariant, PTL
=============================================================================
