------------------------------- MODULE Login -------------------------------
(***************************************************************************)
(* Logins with GitHub. A callback asks GitHub who the user is and which    *)
(* organizations list the user, and then writes the rows of the user, of   *)
(* the organizations and of the memberships in one READ COMMITTED          *)
(* transaction, while other callbacks do the same and GitHub changes.      *)
(***************************************************************************)
EXTENDS Naturals, FiniteSets, RowLocks

CONSTANTS Logins,       \* callbacks that run at a time
          Users,        \* users of GitHub
          Orgs,         \* organizations, by GitHub's number, which orders them
          Listed,       \* Listed[u]: the organizations that list u at first
          Renamed,      \* users and organizations that may be renamed
          MaxChanges,   \* bound: GitHub changes this many times
          None          \* GitHub did not list the organizations

ASSUME LoginAssumption ==
  /\ Orgs \subseteq Nat
  /\ IsFiniteSet(Orgs)
  /\ Users \cap Orgs = {}
  /\ Listed \in [Users -> SUBSET Orgs]
  /\ Renamed \subseteq Users \cup Orgs
  /\ MaxChanges \in Nat

Rows == Users \cup Orgs
Names == 0 .. MaxChanges + 1     \* 0: there is no row

VARIABLES name,       \* GitHub: the name of each user and organization
          member,     \* GitHub: the organizations that list a user
          stored,     \* rows of user_github and github_organization: the name
          links,      \* rows of github_organization_membership
          login,      \* the callbacks
          orgsFirst,  \* does a session insert organizations before the user?
          \* history, for the properties
          changes,    \* how often GitHub has changed
          answered,   \* what the last login of a user was told, by user
          quiet       \* have no two logins of the user overlapped?

loginVars == <<name, member, stored, links, login, orgsFirst, changes, answered, quiet>>

Ended == {"done", "failed"}

\* The statements that a session still has to send: for each kind, the rows or
\* the organizations of the memberships that it concerns.
Kinds == {"update", "insert", "unlink", "link"}
Nothing == [k \in Kinds |-> {}]

NoLogin ==
  [pc |-> "done", user |-> None, names |-> [x \in Rows |-> 0], answer |-> None,
   found |-> FALSE, todo |-> Nothing, rows |-> {}, add |-> {}, del |-> {},
   raced |-> FALSE]

Running(l) == login[l].pc \notin Ended
Flushed(l) == login[l].todo = Nothing

Callbacks ==
  [pc : Ended \cup {"name", "orgs", "find", "user", "rows", "links"},
   user : Users \cup {None}, names : [Rows -> Names],
   answer : {None} \cup SUBSET Orgs, found : BOOLEAN, todo : [Kinds -> SUBSET Rows],
   rows : SUBSET Rows, add : SUBSET Orgs, del : SUBSET Orgs, raced : BOOLEAN]

LoginTypeOK ==
  /\ name \in [Rows -> Names \ {0}]
  /\ member \in [Users -> SUBSET Orgs]
  /\ stored \in [Rows -> Names]
  /\ links \in [Users -> SUBSET Orgs]
  /\ login \in [Logins -> Callbacks]
  /\ \A l \in Logins :
       /\ login[l].add \cap login[l].del = {}
       /\ ~Running(l) => login[l] = [NoLogin EXCEPT !.pc = login[l].pc, !.raced = login[l].raced]
  /\ orgsFirst \in BOOLEAN
  /\ changes \in 0 .. MaxChanges
  /\ answered \in [Users -> SUBSET Orgs]
  /\ quiet \in [Users -> BOOLEAN]

LoginInit ==
  /\ name = [x \in Rows |-> 1]
  /\ member = Listed
  /\ stored = [x \in Rows |-> 0]
  /\ links = [u \in Users |-> {}]
  /\ login = [l \in Logins |-> NoLogin]
  /\ orgsFirst \in BOOLEAN
  /\ changes = 0
  /\ answered = [u \in Users |-> {}]
  /\ quiet = [u \in Users |-> TRUE]
-----------------------------------------------------------------------------
(***************************************************************************)
(* GitHub, as the callback sees it                                         *)
(***************************************************************************)
Rename(x) ==
  /\ changes < MaxChanges
  /\ name' = [name EXCEPT ![x] = @ + 1]
  /\ changes' = changes + 1
  /\ UNCHANGED <<member, stored, links, login, answered, quiet, orgsFirst>>

\* The user joins or leaves an organization.
Relist(u, o) ==
  /\ changes < MaxChanges
  /\ member' = [member EXCEPT ![u] = IF o \in @ THEN @ \ {o} ELSE @ \cup {o}]
  /\ changes' = changes + 1
  /\ UNCHANGED <<name, stored, links, login, answered, quiet, orgsFirst>>
-----------------------------------------------------------------------------
(***************************************************************************)
(* The callback                                                            *)
(***************************************************************************)
LoginGoto(l, pc) == login' = [login EXCEPT ![l].pc = pc]

\* The state and the code are those that GitHub has sent.
Begin(l, u) ==
  /\ ~Running(l)
  /\ login' = [login EXCEPT ![l] = [NoLogin EXCEPT !.pc = "name", !.user = u]]
  /\ quiet' = [quiet EXCEPT ![u] =
                 @ /\ \A m \in Logins : Running(m) => login[m].user # u]
  /\ UNCHANGED <<name, member, stored, links, changes, answered, orgsFirst>>

\* GitHub gives no token: the login page again; or no user: an error.
NoToken(l) ==
  /\ login[l].pc = "name"
  /\ login' = [login EXCEPT ![l] = NoLogin]
  /\ UNCHANGED <<name, member, stored, links, changes, answered, quiet, orgsFirst>>

GetUser(l) ==
  /\ login[l].pc = "name"
  /\ LET u == login[l].user
     IN  login' = [login EXCEPT ![l].pc = "orgs",
                                ![l].names = [x \in Rows |-> IF x = u THEN name[x] ELSE 0]]
  /\ UNCHANGED <<name, member, stored, links, changes, answered, quiet, orgsFirst>>

\* The organizations are a second request, which may fail without harm.
GetOrgs(l) ==
  /\ login[l].pc = "orgs"
  /\ \E answer \in {None, member[login[l].user]} :
       LET names == [x \in Rows |-> IF answer # None /\ x \in answer
                                    THEN name[x] ELSE login[l].names[x]]
       IN  login' = [login EXCEPT ![l].answer = answer, ![l].pc = "find",
                                  ![l].names = names]
  /\ UNCHANGED <<name, member, stored, links, changes, answered, quiet, orgsFirst>>

\* find_user_by_github_id. The names of a user who has a row are set at once;
\* they are written only if they differ from what has been read.
Find(l) ==
  LET u == login[l].user IN
  /\ login[l].pc = "find"
  /\ login' = [login EXCEPT ![l].pc = "user",
                            ![l].found = stored[u] # 0,
                            ![l].todo["update"] =
                               IF stored[u] \notin {0, login[l].names[u]} THEN {u} ELSE {}]
  /\ UNCHANGED <<name, member, stored, links, changes, answered, quiet, orgsFirst>>

\* A failed request is an empty list to a new user and no news to another.
Answer(l) == IF login[l].answer = None THEN {} ELSE login[l].answer
NoNews(l) == login[l].found /\ login[l].answer = None

\* A variant with a fault: an organization is looked up by its name.
ExistingByName(l) == {o \in Answer(l) : stored[o] = login[l].names[o]}

\* The organizations of the answer that have a row.
Existing(l) == {o \in Answer(l) : stored[o] # 0}

\* _upsert_organizations reads the rows; the session writes what differs, and
\* for a new user the user's row, before it reads the memberships.
ReadOrgs(l) ==
  LET u == login[l].user IN
  /\ login[l].pc = "user" /\ Flushed(l) /\ ~NoNews(l)
  /\ login' = [login EXCEPT
       ![l].pc = "rows",
       ![l].todo["update"] = {o \in Existing(l) : stored[o] # login[l].names[o]},
       ![l].todo["insert"] = (Answer(l) \ Existing(l))
                               \cup IF login[l].found THEN {} ELSE {u}]
  /\ UNCHANGED <<name, member, stored, links, changes, answered, quiet, orgsFirst>>

\* A variant with a fault: the memberships are added to those there are.
DelistedIgnored(l) == {}

\* The memberships that the answer ends.
Delisted(l) == links[login[l].user] \ Answer(l)

\* Setting organizations reads the memberships; the difference is written.
ReadLinks(l) ==
  LET u == login[l].user IN
  /\ login[l].pc = "rows" /\ Flushed(l)
  /\ login' = [login EXCEPT
       ![l].pc = "links",
       ![l].todo["unlink"] = IF login[l].found THEN Delisted(l) ELSE {},
       ![l].todo["link"] = Answer(l) \ IF login[l].found THEN links[u] ELSE {}]
  /\ UNCHANGED <<name, member, stored, links, changes, answered, quiet, orgsFirst>>
-----------------------------------------------------------------------------
(***************************************************************************)
(* Statements. A row that another transaction has written is waited for.   *)
(***************************************************************************)
\* A variant with a fault: each session walks a set in an order of its own.
SoonerInOwnOrder(l, x, y) ==
  IF login[l].user = (CHOOSE u \in Users : TRUE) THEN x < y ELSE y < x

\* Of two organizations the session sends that with the lower number first:
\* that of the rows, which is the order in which GitHub lists them.
Sooner(l, x, y) == x < y

\* The statements j of x and k of y of l's session in this order: changes of
\* rows before new ones, removals before additions, and the user's own row
\* before those of the organizations or after them.
Precedes(l, j, x, k, y) ==
  IF x \in Users THEN y \in Orgs /\ (j = "insert" => ~orgsFirst)
  ELSE IF y \in Users THEN k = "insert" /\ orgsFirst
  ELSE IF j = k THEN Sooner(l, x, y) ELSE j \in {"update", "unlink"}

\* The statement that the session sends next: k of x.
Due(l, k, x) ==
  /\ x \in login[l].todo[k]
  /\ \A j \in Kinds : \A y \in login[l].todo[j] :
       (j = k /\ y = x) \/ Precedes(l, k, x, j, y)

\* m has written what l is to write next.
Blocks(m, l, k, x) ==
  \/ k \in {"update", "insert"} /\ x \in login[m].rows
  \/ /\ login[m].user = login[l].user
     /\ \/ k = "link" /\ x \in login[m].add \cup login[m].del
        \/ k = "unlink" /\ x \in login[m].del

WaitsFor(l, m) ==
  /\ m # l
  /\ \E k \in Kinds : \E x \in login[l].todo[k] : Due(l, k, x) /\ Blocks(m, l, k, x)

LoginCycles == WaitCycles(Logins, {e \in Logins \X Logins : WaitsFor(e[1], e[2])})

\* A variant with a fault: the transaction is not rolled back.
FailsInTransaction(l, raced) ==
  login' = [login EXCEPT ![l].pc = "failed", ![l].todo = Nothing, ![l].raced = raced]

\* The transaction is rolled back: the response is an error.
Fails(l, raced) ==
  login' = [login EXCEPT ![l] = [NoLogin EXCEPT !.pc = "failed", !.raced = raced]]

\* The constraint that the statement would break: the unique index on
\* github_id, the primary key of the memberships, or the session's own check
\* that a membership it deletes is there.
Broken(l, k, x) ==
  LET u == login[l].user
  IN  \/ k = "insert" /\ stored[x] # 0
      \/ k = "link" /\ x \in links[u]
      \/ k = "unlink" /\ x \notin links[u]

Execute(l, k, x) ==
  /\ ~Broken(l, k, x)
  /\ login' = [login EXCEPT
       ![l].todo[k] = @ \ {x},
       ![l].rows = IF k \in {"update", "insert"} THEN @ \cup {x} ELSE @,
       ![l].add = IF k = "link" THEN @ \cup {x} ELSE @,
       ![l].del = IF k = "unlink" THEN @ \cup {x} ELSE @]

Refused(l, k, x) ==
  /\ Broken(l, k, x)
  /\ Fails(l, login[l].raced)

Send(l) ==
  /\ \E k \in Kinds : \E x \in login[l].todo[k] :
       /\ Due(l, k, x)
       /\ \A m \in Logins \ {l} : ~Blocks(m, l, k, x)
       /\ (Execute(l, k, x) \/ Refused(l, k, x))
  /\ UNCHANGED <<name, member, stored, links, changes, answered, quiet, orgsFirst>>

\* The database ends a cycle of waits at one of its transactions.
LoginDeadlockVictim(l) ==
  /\ \E S \in LoginCycles :
       /\ l \in S
       /\ Fails(l, \E m \in S : login[m].raced)
  /\ UNCHANGED <<name, member, stored, links, changes, answered, quiet, orgsFirst>>

\* l's commit concerns m: one user, or an organization that m has to insert.
Races(l, m) ==
  \/ login[m].user = login[l].user
  \/ \E o \in login[l].rows \cap Orgs : stored[o] = 0 /\ o \in Answer(m)

Commit(l) ==
  LET u == login[l].user IN
  /\ Flushed(l)
  /\ login[l].pc = "links" \/ (login[l].pc = "user" /\ NoNews(l))
  /\ stored' = [x \in Rows |-> IF x \in login[l].rows THEN login[l].names[x] ELSE stored[x]]
  /\ links' = [links EXCEPT ![u] = (@ \ login[l].del) \cup login[l].add]
  /\ answered' = [answered EXCEPT ![u] = IF NoNews(l) THEN @ ELSE Answer(l)]
  /\ login' = [m \in Logins |->
                 IF m = l THEN NoLogin
                 ELSE IF Running(m) /\ Races(l, m) THEN [login[m] EXCEPT !.raced = TRUE]
                 ELSE login[m]]
  /\ UNCHANGED <<name, member, changes, quiet, orgsFirst>>

Step(l) ==
  \/ NoToken(l) \/ GetUser(l) \/ GetOrgs(l) \/ Find(l) \/ ReadOrgs(l)
  \/ ReadLinks(l) \/ Send(l) \/ LoginDeadlockVictim(l) \/ Commit(l)

LoginNext ==
  \/ \E x \in Renamed : Rename(x)
  \/ \E u \in Users, o \in Orgs : Relist(u, o)
  \/ \E l \in Logins, u \in Users : Begin(l, u)
  \/ \E l \in Logins : Step(l)

LoginSpec == LoginInit /\ [][LoginNext]_loginVars

-----------------------------------------------------------------------------
(***************************************************************************)
(* Properties                                                              *)
(***************************************************************************)
\* A login fails only if another one that writes the same row has committed
\* meanwhile, the user's or that of an organization which had none; even the
\* deadlocks need one to which that has happened: all others lock in one order.
ErrorsNeedARace == \A l \in Logins : login[l].pc = "failed" => login[l].raced

\* The memberships are what GitHub told the last login of the user, whatever
\* logins of others did at the same time, unless two logins of the user
\* overlapped: those each write a difference, and may leave a mixture.
QuietMembershipsAreAnswers ==
  \A u \in Users : quiet[u] => links[u] = answered[u]
=============================================================================
