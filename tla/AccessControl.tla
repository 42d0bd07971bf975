--------------------------- MODULE AccessControl ---------------------------
(***************************************************************************)
(* Who may do what: the list of admins in the settings, the copy of a      *)
(* user's GitHub account that logins have stored, the access tokens that   *)
(* outlive a login by a day, and the checks that a teleoperation passes    *)
(* before a robot moves: two of the user, and one of the runner, which     *)
(* starts what the task runs on when it lists the offer.                   *)
(*                                                                         *)
(* A login is one step here; module Login has its statements. Names are    *)
(* compared in lower case, and are written so here.                        *)
(***************************************************************************)
EXTENDS Naturals, FiniteSets

CONSTANTS Users,
          LoginNames,  \* GitHub login names
          Orgs,        \* GitHub organization logins
          Lists,       \* the allow lists that a configuration may have
          Day,         \* lifetime of an access token
          Browsers     \* bound: access tokens that a user has at a time

AllowLists == [users : SUBSET LoginNames, orgs : SUBSET Orgs]
Accounts == [login : LoginNames, orgs : SUBSET Orgs]
NoAccount == [login |-> <<>>, orgs |-> {}]

ASSUME AccessAssumption ==
  /\ Day \in Nat
  /\ Browsers \in Nat
  /\ Lists \subseteq AllowLists

Environments == {"MuJoCo", "OpenArm Cell"}

\* What of the account a login has stored: the organizations as well, without
\* them, or nothing.
News == {"all", "name", "none"}

VARIABLES config,   \* the list of admins of the running processes
          github,   \* github[u]: the account as GitHub knows it
          row,      \* row[u]: the copy in user_github and its memberships
          tokens,   \* tokens[u]: the ages of the access tokens of u, each with
                    \* what its login has stored
          runtime,  \* the runtime of the task
          offer,    \* offer[u]: the WebRTC offer of u's page
          serves,   \* serves[u]: the runtime that its runner starts
          claiming, \* claiming[u]: a claim of u has passed its check
          driving,  \* driving[u]: the runtime that u was connected to
          \* history, for the properties
          since,    \* since[u]: the times since the login name and the
                    \* organizations in row[u] were what GitHub knew
          cleared,  \* cleared[u]: the last claim of u found an admin
          moved     \* moved[u]: an admin has changed the runtime after the
                    \* runner listed the offer of u, or during a claim of u

signalVars == <<offer, serves, claiming, driving, cleared, moved>>
accessVars == <<config, github, row, tokens, since, runtime, signalVars>>

AccessInit ==
  /\ config \in Lists
  /\ github \in [Users -> Accounts]
  /\ row = [u \in Users |-> NoAccount]
  /\ tokens = [u \in Users |-> {}]
  /\ since = [u \in Users |-> [login |-> 0, orgs |-> 0]]
  /\ runtime = "MuJoCo"
  /\ offer = [u \in Users |-> "none"]
  /\ serves = [u \in Users |-> "none"]
  /\ claiming = [u \in Users |-> FALSE]
  /\ driving = [u \in Users |-> "none"]
  /\ cleared = [u \in Users |-> FALSE]
  /\ moved = [u \in Users |-> FALSE]
-----------------------------------------------------------------------------
(***************************************************************************)
(* The checks                                                              *)
(***************************************************************************)
\* find_current_user: a token that has not expired, and the row of its user.
LoggedIn(u) == tokens[u] # {}

\* is_admin: nobody, when there are no lists.
Admin(u) ==
  /\ LoggedIn(u)
  /\ \/ row[u].login \in config.users
     \/ row[u].orgs \cap config.orgs # {}

\* may_teleoperate
MayTeleoperate(u) == runtime = "MuJoCo" \/ Admin(u)
-----------------------------------------------------------------------------
(***************************************************************************)
(* Accounts                                                                *)
(***************************************************************************)
\* GitHub: u gets another login name, joins or leaves organizations.
ChangeAccount(u) ==
  /\ \E a \in Accounts \ {github[u]} : github' = [github EXCEPT ![u] = a]
  /\ UNCHANGED <<config, row, tokens, since, runtime, signalVars>>

\* A variant with a fault: memberships that are gone are not deleted.
StoredKeepsOrganizations(u, news) ==
  [login |-> IF news = "none" THEN row[u].login ELSE github[u].login,
   orgs |-> IF news = "all" THEN row[u].orgs \cup github[u].orgs ELSE row[u].orgs]

\* The row that a login leaves. Without an answer about the organizations the
\* memberships stay as they were; a new user has none.
Stored(u, news) ==
  [login |-> IF news = "none" THEN row[u].login ELSE github[u].login,
   orgs |-> IF news = "all" THEN github[u].orgs ELSE row[u].orgs]

\* login_github_callback: the row becomes what GitHub says, as far as it does,
\* and there is a token. The response may arrive before a commit that fails: the
\* token is good if the user has a row.
Login(u) ==
  \E news \in News :
    /\ Cardinality(tokens[u]) < Browsers
    /\ news = "none" => row[u] # NoAccount
    /\ row' = [row EXCEPT ![u] = Stored(u, news)]
    /\ tokens' = [tokens EXCEPT ![u] = @ \cup {[age |-> 0, news |-> news]}]
    /\ since' = [since EXCEPT
         ![u].login = IF row'[u].login = github[u].login THEN 0 ELSE @,
         ![u].orgs = IF row'[u].orgs = github[u].orgs THEN 0 ELSE @]
    /\ UNCHANGED <<config, github, runtime, signalVars>>

\* The browser that has a token deletes it.
Logout(u) ==
  /\ \E t \in tokens[u] : tokens' = [tokens EXCEPT ![u] = @ \ {t}]
  /\ UNCHANGED <<config, github, row, since, runtime, signalVars>>

\* One step of time, counted until a day is over.
Later(t) == IF t <= Day THEN t + 1 ELSE t

\* Time passes, and tokens expire.
AccessTick ==
  /\ since' = [u \in Users |->
       [login |-> IF row[u].login = github[u].login THEN 0 ELSE Later(since[u].login),
        orgs |-> IF row[u].orgs = github[u].orgs THEN 0 ELSE Later(since[u].orgs)]]
  /\ tokens' = [u \in Users |->
       {t \in [age : 1..Day, news : News] : [t EXCEPT !.age = @ - 1] \in tokens[u]}]
  /\ UNCHANGED <<config, github, row, runtime, signalVars>>

\* The processes are restarted with other settings.
Reconfigure ==
  /\ config' \in Lists \ {config}
  /\ UNCHANGED <<github, row, tokens, since, runtime, signalVars>>
-----------------------------------------------------------------------------
(***************************************************************************)
(* Teleoperation                                                           *)
(***************************************************************************)
\* update_task_page, by an admin: the task is moved to or from a robot.
ChangeRuntime(u) ==
  /\ Admin(u)
  /\ runtime' \in Environments \ {runtime}
  /\ moved' = [v \in Users |-> 
                 moved[v] \/ offer[v] \in {"listed", "answered"} \/ claiming[v]]
  /\ UNCHANGED <<config, github, row, tokens, since, offer, serves, claiming,
                 driving, cleared>>

\* create_webrtc_offer, logged in or not.
PostOffer(u) ==
  /\ ~claiming[u]
  /\ MayTeleoperate(u)
  /\ offer' = [offer EXCEPT ![u] = "posted"]
  /\ serves' = [serves EXCEPT ![u] = "none"]
  /\ driving' = [driving EXCEPT ![u] = "none"]
  /\ cleared' = [cleared EXCEPT ![u] = FALSE]
  /\ moved' = [moved EXCEPT ![u] = FALSE]
  /\ UNCHANGED <<config, github, row, tokens, since, runtime, claiming>>

\* api_get_pending_webrtc_offers: the runner that is going to answer is told the
\* runtime of the task with the offer, and starts the node for it.
ListOffer(u) ==
  /\ offer[u] = "posted"
  /\ offer' = [offer EXCEPT ![u] = "listed"]
  /\ serves' = [serves EXCEPT ![u] = runtime]
  /\ UNCHANGED <<config, github, row, tokens, since, runtime, claiming, driving,
                 cleared, moved>>

\* api_create_webrtc_answer asks for nothing but the key of the runner.
AnswerOffer(u) ==
  /\ offer[u] = "listed"
  /\ offer' = [offer EXCEPT ![u] = "answered"]
  /\ UNCHANGED <<config, github, row, tokens, since, runtime, serves, claiming,
                 driving, cleared, moved>>

\* A variant with a fault: whoever was allowed to post may claim.
CheckClaimNever(u) ==
  /\ offer[u] # "none" /\ ~claiming[u]
  /\ claiming' = [claiming EXCEPT ![u] = TRUE]
  /\ cleared' = [cleared EXCEPT ![u] = Admin(u)]
  /\ UNCHANGED <<config, github, row, tokens, since, runtime, offer, serves, driving,
                 moved>>

\* claim_webrtc_answer reads the offer and its task, and checks the user again:
\* the task may have changed since the post.
CheckClaim(u) ==
  /\ offer[u] # "none" /\ ~claiming[u]
  /\ MayTeleoperate(u)
  /\ claiming' = [claiming EXCEPT ![u] = TRUE]
  /\ cleared' = [cleared EXCEPT ![u] = Admin(u)]
  /\ UNCHANGED <<config, github, row, tokens, since, runtime, offer, serves, driving,
                 moved>>

\* A later statement of the same request reads the answer; without one it is 204.
TakeAnswer(u) ==
  /\ claiming[u]
  /\ claiming' = [claiming EXCEPT ![u] = FALSE]
  /\ IF offer[u] = "answered"
     THEN /\ offer' = [offer EXCEPT ![u] = "none"]
          /\ driving' = [driving EXCEPT ![u] = serves[u]]
     ELSE UNCHANGED <<offer, driving>>
  /\ UNCHANGED <<config, github, row, tokens, since, runtime, serves, cleared, moved>>

AccessNext ==
  \/ AccessTick \/ Reconfigure
  \/ \E u \in Users :
       \/ ChangeAccount(u) \/ Login(u) \/ Logout(u) \/ ChangeRuntime(u)
       \/ PostOffer(u) \/ ListOffer(u) \/ AnswerOffer(u)
       \/ CheckClaim(u) \/ TakeAnswer(u)

AccessSpec == AccessInit /\ [][AccessNext]_accessVars
-----------------------------------------------------------------------------
(***************************************************************************)
(* Properties                                                              *)
(***************************************************************************)
AccessTypeOK ==
  /\ config \in Lists
  /\ github \in [Users -> Accounts]
  /\ row \in [Users -> Accounts \cup {NoAccount}]
  /\ tokens \in [Users -> SUBSET [age : 0..Day, news : News]]
  /\ since \in [Users -> [login : 0..(Day + 1), orgs : 0..(Day + 1)]]
  /\ runtime \in Environments
  /\ offer \in [Users -> {"none", "posted", "listed", "answered"}]
  /\ serves \in [Users -> Environments \cup {"none"}]
  /\ claiming \in [Users -> BOOLEAN]
  /\ driving \in [Users -> Environments \cup {"none"}]
  /\ cleared \in [Users -> BOOLEAN]
  /\ moved \in [Users -> BOOLEAN]

\* A user who has a token from a login that stored the login name is not let in
\* by a name that GitHub took away more than a day ago, and likewise for the
\* organizations: whoever leaves an allowed one has lost access a day later. Rows
\* change only at logins; what bounds their age is the expiry of the tokens. A
\* login that gets no organizations from GitHub, or does not commit, hands out a
\* token all the same, and bounds nothing.
AccessIsADayOldAtMost ==
  \A u \in Users : \A t \in tokens[u] :
    /\ t.news # "none" => since[u].login <= Day
    /\ t.news = "all" => since[u].orgs <= Day

\* Whoever gets connected to a robot cell was an admin when the claim of the
\* answer was checked, also when the offer was posted while the task was a
\* simulation for everybody; unless an admin moved the task to or from the robot
\* after the runner had listed the offer or during the claim: the check looks at
\* the task as it is, and not at what has answered.
OnlyAdminsReachRobots ==
  \A u \in Users : driving[u] = "OpenArm Cell" => cleared[u] \/ moved[u]
=============================================================================
