-------------------------- MODULE Services_proofs --------------------------
(***************************************************************************)
(* Proofs about the components that MCServices checks side by side: for    *)
(* any tasks, jobs, runners, users, lists and results, what the runs check *)
(* on small instances of AccessControl, TaskEdit, ResultPages and          *)
(* RunnerProtocol; and that each behaves there as it does alone.           *)
(***************************************************************************)
EXTENDS MCServices, Teleoperation_proofs, FiniteSetTheorems

(***************************************************************************)
(* Access control                                                          *)
(***************************************************************************)
\* What a token's login has stored of the account was what GitHub knew after
\* the token was made: a login makes a token of age zero and a fresh row, and
\* time passes for both.
YoungerThanTokens ==
  \A u \in Users : \A t \in tokens[u] :
    /\ t.news # "none" => since[u].login <= t.age
    /\ t.news = "all" => since[u].orgs <= t.age

\* A runner serves the runtime that the task has, unless it was moved.
ServesTheTask ==
  \A u \in Users : offer[u] \in {"listed", "answered"} /\ ~moved[u] => serves[u] = runtime

\* A claim that has passed its check at a robot cell found an admin.
ClaimsAreCleared ==
  \A u \in Users : claiming[u] /\ ~moved[u] /\ runtime = "OpenArm Cell" => cleared[u]

\* A page that is connected has no offer any more, and claims nothing.
ConnectedPagesAreDone ==
  \A u \in Users : driving[u] # "none" => offer[u] = "none" /\ ~claiming[u]

RobotInv ==
  /\ ServesTheTask
  /\ ClaimsAreCleared
  /\ ConnectedPagesAreDone
  /\ OnlyAdminsReachRobots

AInv == AccessTypeOK /\ YoungerThanTokens /\ RobotInv

\* The types of the tokens, the ages and what is stored, at one user.
LEMMA AccountTypes ==
  AccessTypeOK =>
    \A u \in Users :
      /\ since[u] \in [login : 0..(Day + 1), orgs : 0..(Day + 1)]
      /\ since[u].login \in 0..(Day + 1) /\ since[u].login \in Nat
      /\ since[u].orgs \in 0..(Day + 1) /\ since[u].orgs \in Nat
      /\ github[u] \in Accounts
      /\ row[u] \in Accounts \cup {NoAccount}
      /\ tokens[u] \subseteq [age : 0..Day, news : News]
<1> SUFFICES ASSUME AccessTypeOK, NEW u \in Users
             PROVE  /\ since[u] \in [login : 0..(Day + 1), orgs : 0..(Day + 1)]
                    /\ since[u].login \in 0..(Day + 1) /\ since[u].login \in Nat
                    /\ since[u].orgs \in 0..(Day + 1) /\ since[u].orgs \in Nat
                    /\ github[u] \in Accounts
                    /\ row[u] \in Accounts \cup {NoAccount}
                    /\ tokens[u] \subseteq [age : 0..Day, news : News]
  OBVIOUS
<1>1. since[u] \in [login : 0..(Day + 1), orgs : 0..(Day + 1)]
  BY DEF AccessTypeOK
<1>2. since[u].login \in 0..(Day + 1) /\ since[u].orgs \in 0..(Day + 1)
  BY <1>1
<1>3. since[u].login \in Nat /\ since[u].orgs \in Nat
  BY <1>2, AccessAssumption
<1>4. github[u] \in Accounts
  BY DEF AccessTypeOK
<1>5. row[u] \in Accounts \cup {NoAccount}
  BY DEF AccessTypeOK
<1>6. tokens[u] \subseteq [age : 0..Day, news : News]
  BY DEF AccessTypeOK
<1> QED
  BY <1>1, <1>2, <1>3, <1>4, <1>5, <1>6

\* The invariant holds initially ...
LEMMA InitAInv == AccessInit => AInv
<1> SUFFICES ASSUME AccessInit
             PROVE  AInv
  OBVIOUS
<1>1. AccessTypeOK
  BY AccessAssumption DEF AccessInit, AccessTypeOK, Environments
<1>2. YoungerThanTokens
  BY DEF AccessInit, YoungerThanTokens
<1>3. RobotInv
  BY DEF AccessInit, RobotInv, ServesTheTask, ClaimsAreCleared, ConnectedPagesAreDone,
         OnlyAdminsReachRobots
<1> QED
  BY <1>1, <1>2, <1>3 DEF AInv

\* What a login leaves is an account, and none only if there was none.
LEMMA StoredIsAnAccount ==
  ASSUME AccessTypeOK, NEW u \in Users, NEW news \in News,
         news = "none" => row[u] # NoAccount
  PROVE  Stored(u, news) \in Accounts \cup {NoAccount}
<1>1. github[u] \in Accounts /\ row[u] \in Accounts \cup {NoAccount}
  BY AccountTypes
<1>2. CASE news = "none"
  <2>1. row[u] \in Accounts
    BY <1>1, <1>2
  <2>2. Stored(u, news) = [login |-> row[u].login, orgs |-> row[u].orgs]
    BY <1>2 DEF Stored
  <2> QED
    BY <2>1, <2>2 DEF Accounts
<1>3. CASE news # "none"
  <2>1. github[u].login \in LoginNames /\ github[u].orgs \in SUBSET Orgs
    BY <1>1 DEF Accounts
  <2>2. row[u].orgs \in SUBSET Orgs
    <3>1. CASE row[u] \in Accounts
      BY <3>1 DEF Accounts
    <3>2. CASE row[u] = NoAccount
      BY <3>2 DEF NoAccount
    <3> QED
      BY <1>1, <3>1, <3>2
  <2> DEFINE o == IF news = "all" THEN github[u].orgs ELSE row[u].orgs
  <2>3. o \in SUBSET Orgs
    BY <2>1, <2>2
  <2>4. Stored(u, news) = [login |-> github[u].login, orgs |-> o]
    BY <1>3 DEF Stored
  <2> HIDE DEF o
  <2> QED
    BY <2>1, <2>3, <2>4 DEF Accounts
<1> QED
  BY <1>2, <1>3

\* A login keeps the types ...
LEMMA LoginKeepsTypes ==
  ASSUME AccessTypeOK, NEW u \in Users, Login(u)
  PROVE  AccessTypeOK'
<1>1. PICK news \in News :
        /\ news = "none" => row[u] # NoAccount
        /\ row' = [row EXCEPT ![u] = Stored(u, news)]
        /\ tokens' = [tokens EXCEPT ![u] = @ \cup {[age |-> 0, news |-> news]}]
        /\ since' = [since EXCEPT
             ![u].login = IF row'[u].login = github[u].login THEN 0 ELSE @,
             ![u].orgs = IF row'[u].orgs = github[u].orgs THEN 0 ELSE @]
        /\ UNCHANGED <<config, github, runtime, signalVars>>
  BY DEF Login
<1>2. row' \in [Users -> Accounts \cup {NoAccount}]
  <2>1. Stored(u, news) \in Accounts \cup {NoAccount}
    BY <1>1, StoredIsAnAccount
  <2> QED
    BY <1>1, <2>1 DEF AccessTypeOK
<1>3. tokens' \in [Users -> SUBSET [age : 0..Day, news : News]]
  <2>1. [age |-> 0, news |-> news] \in [age : 0..Day, news : News]
    <3>1. 0 \in 0..Day
      BY AccessAssumption
    <3> QED
      BY <3>1
  <2>2. tokens[u] \cup {[age |-> 0, news |-> news]} \in SUBSET [age : 0..Day, news : News]
    BY <2>1, AccountTypes
  <2> QED
    BY <1>1, <2>2 DEF AccessTypeOK
<1>4. since' \in [Users -> [login : 0..(Day + 1), orgs : 0..(Day + 1)]]
  <2> DEFINE l == IF row'[u].login = github[u].login THEN 0 ELSE since[u].login
             o == IF row'[u].orgs = github[u].orgs THEN 0 ELSE since[u].orgs
  <2>1. l \in 0..(Day + 1) /\ o \in 0..(Day + 1)
    BY AccountTypes, AccessAssumption
  <2>2. since' = [since EXCEPT ![u] = [since[u] EXCEPT !.login = l, !.orgs = o]]
    BY <1>1 DEF AccessTypeOK
  <2> HIDE DEF l, o
  <2>3. [since[u] EXCEPT !.login = l, !.orgs = o] \in
          [login : 0..(Day + 1), orgs : 0..(Day + 1)]
    BY <2>1, AccountTypes
  <2> QED
    BY <2>2, <2>3 DEF AccessTypeOK
<1> QED
  BY <1>1, <1>2, <1>3, <1>4 DEF AccessTypeOK, signalVars

\* ... and its row is as fresh as its token.
LEMMA LoginKeepsAges ==
  ASSUME AccessTypeOK, YoungerThanTokens, NEW u \in Users, Login(u)
  PROVE  YoungerThanTokens'
<1>1. PICK news \in News :
        /\ row' = [row EXCEPT ![u] = Stored(u, news)]
        /\ tokens' = [tokens EXCEPT ![u] = @ \cup {[age |-> 0, news |-> news]}]
        /\ since' = [since EXCEPT
             ![u].login = IF row'[u].login = github[u].login THEN 0 ELSE @,
             ![u].orgs = IF row'[u].orgs = github[u].orgs THEN 0 ELSE @]
  BY DEF Login
<1> SUFFICES ASSUME NEW v \in Users, NEW t \in tokens'[v]
             PROVE  /\ t.news # "none" => since'[v].login <= t.age
                    /\ t.news = "all" => since'[v].orgs <= t.age
  BY DEF YoungerThanTokens
<1>2. CASE v # u
  <2>1. tokens'[v] = tokens[v] /\ since'[v] = since[v]
    BY <1>1, <1>2 DEF AccessTypeOK
  <2> QED
    BY <2>1 DEF YoungerThanTokens
<1>3. CASE v = u
  <2>1. tokens'[u] = tokens[u] \cup {[age |-> 0, news |-> news]}
    BY <1>1 DEF AccessTypeOK
  <2>2. row'[u] = Stored(u, news)
    BY <1>1 DEF AccessTypeOK
  <2>3. /\ since'[u].login = IF row'[u].login = github[u].login THEN 0 ELSE since[u].login
        /\ since'[u].orgs = IF row'[u].orgs = github[u].orgs THEN 0 ELSE since[u].orgs
    <3>1. since[u] \in [login : 0..(Day + 1), orgs : 0..(Day + 1)]
      BY AccountTypes
    <3> DEFINE l == IF row'[u].login = github[u].login THEN 0 ELSE since[u].login
               o == IF row'[u].orgs = github[u].orgs THEN 0 ELSE since[u].orgs
    <3>2. since' = [since EXCEPT ![u] = [since[u] EXCEPT !.login = l, !.orgs = o]]
      BY <1>1 DEF AccessTypeOK
    <3> HIDE DEF l, o
    <3>3. since'[u] = [since[u] EXCEPT !.login = l, !.orgs = o]
      BY <3>2 DEF AccessTypeOK
    <3>4. since'[u].login = l /\ since'[u].orgs = o
      BY <3>1, <3>3
    <3> QED
      BY <3>4 DEF l, o
  <2>4. CASE t \in tokens[u]
    <3>1. t.age \in 0..Day
      BY <2>4, AccountTypes
    <3>2. 0 <= t.age
      BY <3>1, AccessAssumption
    <3>3. /\ t.news # "none" => since[u].login <= t.age
          /\ t.news = "all" => since[u].orgs <= t.age
      BY <2>4 DEF YoungerThanTokens
    <3> QED
      BY <1>3, <2>3, <3>2, <3>3
  <2>5. CASE t = [age |-> 0, news |-> news]
    <3>1. t.age = 0 /\ t.news = news
      BY <2>5
    <3>2. news # "none" => row'[u].login = github[u].login
      BY <2>2 DEF Stored
    <3>3. news = "all" => row'[u].orgs = github[u].orgs
      BY <2>2 DEF Stored
    <3> QED
      BY <1>3, <2>3, <3>1, <3>2, <3>3
  <2> QED
    BY <1>3, <2>1, <2>4, <2>5
<1> QED
  BY <1>2, <1>3

\* The passing of time keeps the types ...
LEMMA TickKeepsTypes ==
  ASSUME AccessTypeOK, AccessTick
  PROVE  AccessTypeOK'
<1>1. ASSUME NEW t \in 0..(Day + 1)
      PROVE  Later(t) \in 0..(Day + 1)
  BY <1>1, AccessAssumption DEF Later
<1>2. since' \in [Users -> [login : 0..(Day + 1), orgs : 0..(Day + 1)]]
  <2>1. ASSUME NEW u \in Users
        PROVE  [login |-> IF row[u].login = github[u].login THEN 0 ELSE Later(since[u].login),
                orgs |-> IF row[u].orgs = github[u].orgs THEN 0 ELSE Later(since[u].orgs)]
                 \in [login : 0..(Day + 1), orgs : 0..(Day + 1)]
    <3>1. 0 \in 0..(Day + 1)
      BY AccessAssumption
    <3>2. Later(since[u].login) \in 0..(Day + 1) /\ Later(since[u].orgs) \in 0..(Day + 1)
      BY <1>1, AccountTypes
    <3> QED
      BY <3>1, <3>2
  <2> QED
    BY <2>1 DEF AccessTick
<1>3. tokens' \in [Users -> SUBSET [age : 0..Day, news : News]]
  <2>1. [age : 1..Day, news : News] \subseteq [age : 0..Day, news : News]
    BY AccessAssumption
  <2> QED
    BY <2>1 DEF AccessTick
<1> QED
  BY <1>2, <1>3 DEF AccessTick, AccessTypeOK, signalVars

\* ... and ages tokens and rows alike.
LEMMA TickKeepsAges ==
  ASSUME AccessTypeOK, YoungerThanTokens, AccessTick
  PROVE  YoungerThanTokens'
<1> SUFFICES ASSUME NEW u \in Users, NEW t \in tokens'[u]
             PROVE  /\ t.news # "none" => since'[u].login <= t.age
                    /\ t.news = "all" => since'[u].orgs <= t.age
  BY DEF YoungerThanTokens
<1> DEFINE s == [t EXCEPT !.age = @ - 1]
<1>1. t \in [age : 1..Day, news : News] /\ s \in tokens[u]
  BY DEF AccessTick
<1>2. s.age = t.age - 1 /\ s.news = t.news
  BY <1>1
<1> HIDE DEF s
<1>3. /\ t.news # "none" => since[u].login <= t.age - 1
      /\ t.news = "all" => since[u].orgs <= t.age - 1
  BY <1>1, <1>2 DEF YoungerThanTokens
<1>4. /\ since'[u].login = IF row[u].login = github[u].login THEN 0
                           ELSE Later(since[u].login)
      /\ since'[u].orgs = IF row[u].orgs = github[u].orgs THEN 0
                          ELSE Later(since[u].orgs)
  BY DEF AccessTick
<1>5. since[u].login \in Nat /\ since[u].orgs \in Nat
  BY AccountTypes
<1>6. t.age \in Nat /\ t.age >= 1
  <2>1. t.age \in 1..Day
    BY <1>1
  <2> QED
    BY <2>1, AccessAssumption
<1>7. /\ since'[u].login <= since[u].login + 1
      /\ since'[u].orgs <= since[u].orgs + 1
  BY <1>4, <1>5 DEF Later
<1>8. since'[u].login \in Nat /\ since'[u].orgs \in Nat
  BY <1>4, <1>5 DEF Later
<1> QED
  BY <1>3, <1>5, <1>6, <1>7, <1>8

\* ... and every step preserves it: one proof step per action.
LEMMA NextAInv == AInv /\ [AccessNext]_accessVars => AInv'
<1> SUFFICES ASSUME AInv, [AccessNext]_accessVars
             PROVE  AInv'
  OBVIOUS
<1>0. AccessTypeOK /\ YoungerThanTokens /\ RobotInv
  BY DEF AInv
\* Whatever leaves the teleoperation alone, and the runtime, leaves RobotInv.
<1>a. UNCHANGED <<runtime, signalVars>> => RobotInv'
  BY <1>0 DEF RobotInv, ServesTheTask, ClaimsAreCleared, ConnectedPagesAreDone,
              OnlyAdminsReachRobots, signalVars
<1>b. UNCHANGED <<tokens, since>> => YoungerThanTokens'
  BY <1>0 DEF YoungerThanTokens
<1>1. CASE UNCHANGED accessVars
  <2>1. AccessTypeOK'
    BY <1>0, <1>1 DEF accessVars, signalVars, AccessTypeOK
  <2> QED
    BY <1>1, <1>a, <1>b, <2>1 DEF AInv, accessVars
<1>2. CASE AccessTick
  <2>1. RobotInv'
    BY <1>2, <1>a DEF AccessTick
  <2> QED
    BY <1>0, <1>2, <2>1, TickKeepsTypes, TickKeepsAges DEF AInv
<1>3. CASE Reconfigure
  <2>1. AccessTypeOK'
    BY <1>0, <1>3 DEF Reconfigure, AccessTypeOK, signalVars
  <2> QED
    BY <1>3, <1>a, <1>b, <2>1 DEF AInv, Reconfigure
<1>4. ASSUME NEW u \in Users, Login(u)
      PROVE  AInv'
  <2>1. RobotInv'
    BY <1>4, <1>a DEF Login
  <2>2. AccessTypeOK'
    BY <1>0, <1>4, LoginKeepsTypes
  <2>3. YoungerThanTokens'
    BY <1>0, <1>4, LoginKeepsAges
  <2> QED
    BY <2>1, <2>2, <2>3 DEF AInv
<1>5. ASSUME NEW u \in Users, Logout(u)
      PROVE  AInv'
  <2>1. PICK t \in tokens[u] : tokens' = [tokens EXCEPT ![u] = @ \ {t}]
    BY <1>5 DEF Logout
  <2>2. UNCHANGED <<config, github, row, since, runtime, signalVars>>
    BY <1>5 DEF Logout
  <2>3. tokens' \in [Users -> SUBSET [age : 0..Day, news : News]]
    BY <1>0, <2>1 DEF AccessTypeOK
  <2>4. AccessTypeOK'
    BY <1>0, <2>2, <2>3 DEF AccessTypeOK, signalVars
  <2>5. \A v \in Users : tokens'[v] \subseteq tokens[v]
    BY <1>0, <2>1 DEF AccessTypeOK
  <2>6. YoungerThanTokens'
    BY <1>0, <2>2, <2>5 DEF YoungerThanTokens
  <2> QED
    BY <1>a, <2>2, <2>4, <2>6 DEF AInv
<1>6. ASSUME NEW u \in Users, ChangeAccount(u)
      PROVE  AInv'
  <2>1. UNCHANGED <<config, row, tokens, since, runtime, signalVars>>
    BY <1>6 DEF ChangeAccount
  <2>2. github' \in [Users -> Accounts]
    BY <1>0, <1>6 DEF ChangeAccount, AccessTypeOK
  <2>3. AccessTypeOK'
    BY <1>0, <2>1, <2>2 DEF AccessTypeOK, signalVars
  <2> QED
    BY <1>a, <1>b, <2>1, <2>3 DEF AInv
<1>7. ASSUME NEW u \in Users, ChangeRuntime(u)
      PROVE  AInv'
  <2>1. AccessTypeOK'
    BY <1>0, <1>7 DEF ChangeRuntime, AccessTypeOK
  <2>2. RobotInv'
    BY <1>0, <1>7 DEF ChangeRuntime, AccessTypeOK, RobotInv, ServesTheTask, ClaimsAreCleared,
                      ConnectedPagesAreDone, OnlyAdminsReachRobots
  <2>3. UNCHANGED <<tokens, since>>
    BY <1>7 DEF ChangeRuntime
  <2> QED
    BY <1>b, <2>1, <2>2, <2>3 DEF AInv
<1>8. ASSUME NEW u \in Users, PostOffer(u)
      PROVE  AInv'
  <2>1. AccessTypeOK'
    BY <1>0, <1>8 DEF PostOffer, AccessTypeOK
  <2>2. RobotInv'
    BY <1>0, <1>8 DEF PostOffer, AccessTypeOK, RobotInv, ServesTheTask, ClaimsAreCleared,
                      ConnectedPagesAreDone, OnlyAdminsReachRobots
  <2>3. UNCHANGED <<tokens, since>>
    BY <1>8 DEF PostOffer
  <2> QED
    BY <1>b, <2>1, <2>2, <2>3 DEF AInv
<1>9. ASSUME NEW u \in Users, ListOffer(u)
      PROVE  AInv'
  <2>1. AccessTypeOK'
    BY <1>0, <1>9 DEF ListOffer, AccessTypeOK
  <2>2. RobotInv'
    BY <1>0, <1>9 DEF ListOffer, AccessTypeOK, RobotInv, ServesTheTask, ClaimsAreCleared,
                      ConnectedPagesAreDone, OnlyAdminsReachRobots
  <2>3. UNCHANGED <<tokens, since>>
    BY <1>9 DEF ListOffer
  <2> QED
    BY <1>b, <2>1, <2>2, <2>3 DEF AInv
<1>10. ASSUME NEW u \in Users, AnswerOffer(u)
       PROVE  AInv'
  <2>1. AccessTypeOK'
    BY <1>0, <1>10 DEF AnswerOffer, AccessTypeOK
  <2>2. RobotInv'
    BY <1>0, <1>10 DEF AnswerOffer, AccessTypeOK, RobotInv, ServesTheTask, ClaimsAreCleared,
                       ConnectedPagesAreDone, OnlyAdminsReachRobots
  <2>3. UNCHANGED <<tokens, since>>
    BY <1>10 DEF AnswerOffer
  <2> QED
    BY <1>b, <2>1, <2>2, <2>3 DEF AInv
<1>11. ASSUME NEW u \in Users, CheckClaim(u)
       PROVE  AInv'
  <2>1. Admin(u) \in BOOLEAN
    BY DEF Admin, LoggedIn
  <2>2. AccessTypeOK'
    BY <1>0, <1>11, <2>1 DEF CheckClaim, AccessTypeOK
  <2>3. runtime = "OpenArm Cell" => Admin(u)
    BY <1>11 DEF CheckClaim, MayTeleoperate
  <2>4. RobotInv'
    BY <1>0, <1>11, <2>1, <2>3
       DEF CheckClaim, AccessTypeOK, RobotInv, ServesTheTask, ClaimsAreCleared,
           ConnectedPagesAreDone, OnlyAdminsReachRobots
  <2>5. UNCHANGED <<tokens, since>>
    BY <1>11 DEF CheckClaim
  <2> QED
    BY <1>b, <2>2, <2>4, <2>5 DEF AInv
<1>12. ASSUME NEW u \in Users, TakeAnswer(u)
       PROVE  AInv'
  <2>1. AccessTypeOK'
    <3>1. serves[u] \in Environments \cup {"none"}
      BY <1>0 DEF AccessTypeOK
    <3>2. offer' \in [Users -> {"none", "posted", "listed", "answered"}]
      BY <1>0, <1>12 DEF TakeAnswer, AccessTypeOK
    <3>3. driving' \in [Users -> Environments \cup {"none"}]
      BY <1>0, <1>12, <3>1 DEF TakeAnswer, AccessTypeOK
    <3>4. claiming' \in [Users -> BOOLEAN]
      BY <1>0, <1>12 DEF TakeAnswer, AccessTypeOK
    <3>5. UNCHANGED <<config, github, row, tokens, since, runtime, serves, cleared, moved>>
      BY <1>12 DEF TakeAnswer
    <3> QED
      BY <1>0, <3>2, <3>3, <3>4, <3>5 DEF AccessTypeOK
  <2>2. RobotInv'
    <3>1. UNCHANGED <<runtime, serves, cleared, moved>> /\ claiming[u]
          /\ claiming' = [claiming EXCEPT ![u] = FALSE]
      BY <1>12 DEF TakeAnswer
    <3>2. CASE offer[u] = "answered"
      <4>1. /\ offer' = [offer EXCEPT ![u] = "none"]
            /\ driving' = [driving EXCEPT ![u] = serves[u]]
        BY <1>12, <3>2 DEF TakeAnswer
      <4>2. ServesTheTask' /\ ClaimsAreCleared' /\ ConnectedPagesAreDone'
        BY <1>0, <3>1, <4>1 DEF AccessTypeOK, RobotInv, ServesTheTask, ClaimsAreCleared,
                                ConnectedPagesAreDone
      <4>3. serves[u] = "OpenArm Cell" => cleared[u] \/ moved[u]
        BY <1>0, <3>1, <3>2 DEF RobotInv, ServesTheTask, ClaimsAreCleared
      <4>4. OnlyAdminsReachRobots'
        BY <1>0, <3>1, <4>1, <4>3 DEF AccessTypeOK, RobotInv, OnlyAdminsReachRobots
      <4> QED
        BY <4>2, <4>4 DEF RobotInv
    <3>3. CASE offer[u] # "answered"
      <4>1. UNCHANGED <<offer, driving>>
        BY <1>12, <3>3 DEF TakeAnswer
      <4> QED
        BY <1>0, <3>1, <4>1 DEF AccessTypeOK, RobotInv, ServesTheTask, ClaimsAreCleared,
                                ConnectedPagesAreDone, OnlyAdminsReachRobots
    <3> QED
      BY <3>2, <3>3
  <2>3. UNCHANGED <<tokens, since>>
    BY <1>12 DEF TakeAnswer
  <2> QED
    BY <1>b, <2>1, <2>2, <2>3 DEF AInv
<1> QED
  BY <1>1, <1>2, <1>3, <1>4, <1>5, <1>6, <1>7, <1>8, <1>9, <1>10, <1>11, <1>12 DEF AccessNext

\* The variables keep their types (all of AccessControl).
THEOREM AccessTypesCorrect == AccessSpec => []AccessTypeOK
<1>1. AInv => AccessTypeOK
  BY DEF AInv
<1> QED
  BY <1>1, InitAInv, NextAInv, PTL DEF AccessSpec

\* What lets a user in is not older than a day, if a login of that day stored it
\* (find_current_user, create_access_token, update_user_github, and the login that
\* gets no answer about the organizations).
THEOREM AccessIsADayOldAtMostAlways == AccessSpec => []AccessIsADayOldAtMost
<1>1. AInv => AccessIsADayOldAtMost
  <2> SUFFICES ASSUME AInv, NEW u \in Users, NEW t \in tokens[u]
               PROVE  /\ t.news # "none" => since[u].login <= Day
                      /\ t.news = "all" => since[u].orgs <= Day
    BY DEF AccessIsADayOldAtMost
  <2>1. AccessTypeOK
    BY DEF AInv
  <2>2. t.age \in 0..Day /\ since[u].login \in Nat /\ since[u].orgs \in Nat
    BY <2>1, AccountTypes
  <2>3. /\ t.news # "none" => since[u].login <= t.age
        /\ t.news = "all" => since[u].orgs <= t.age
    BY DEF AInv, YoungerThanTokens
  <2> QED
    BY <2>2, <2>3, AccessAssumption
<1> QED
  BY <1>1, InitAInv, NextAInv, PTL DEF AccessSpec

\* Whoever gets connected to a robot cell was an admin when the claim of the
\* answer was checked, whatever happens between the check and the answer, unless
\* the task was moved in the meantime (may_teleoperate in claim_webrtc_answer).
THEOREM OnlyAdminsReachRobotsAlways == AccessSpec => []OnlyAdminsReachRobots
<1>1. AInv => OnlyAdminsReachRobots
  BY DEF AInv, RobotInv
<1> QED
  BY <1>1, InitAInv, NextAInv, PTL DEF AccessSpec
-----------------------------------------------------------------------------
(***************************************************************************)
(* A task, its editors and its submissions                                 *)
(***************************************************************************)
\* The lock that the commit of an operation holds on the row of the task.
LockOf(op) ==
  IF op = "delete" THEN ForUpdate("task", 0)
  ELSE IF op = "submit" THEN KeyShare("task", 0) ELSE NoKeyUpdate("task", 0)

\* Where each operation can be.
PCsOf(op) ==
  IF op = "none" THEN {"idle"}
  ELSE IF op = "edit" THEN {"read submissions", "update", "commit", "raise"}
  ELSE IF op = "script" THEN {"update", "commit", "raise"}
  ELSE IF op = "delete"
       THEN {"read submissions", "load submissions", "lock task", "commit", "raise"}
       ELSE {"reference task", "commit", "raise"}

\* A transaction holds the lock of its operation until it commits, and none
\* before; an operation has begun on a task that was there.
Shaped(t) ==
  /\ t.op \in Ops
  /\ t.pc \in PCsOf(t.op)
  /\ t.op = "none" => t = Idle
  /\ t.held = IF t.pc = "commit" THEN {LockOf(t.op)} ELSE {}

\* What an edit is about to write: the columns in which a valid form differs
\* from the row that was read, and no locked one if submissions were seen.
EditsWhatDiffers(t) ==
  t.op = "edit" =>
    /\ t.read \in Rows
    /\ t.pc \in {"update", "commit"} =>
         \E form \in Forms : /\ t.patch = Dirty(t.read, form)
                             /\ t.locked => ~ChangesLockedFields(t.read, form)

WritesAPatch(t) == t.op = "script" => t.patch \in Patches

\* Two commits hold locks that do not exclude each other.
CommitsAgree ==
  \A p \in Requests, q \in Requests :
    p # q /\ At(p, "commit") /\ At(q, "commit") =>
      /\ tx[p].op # "delete"
      /\ tx[p].op \in {"edit", "script"} => tx[q].op = "submit"

\* What a transaction knows of the rows.
Knows(p) ==
  /\ tx[p].op # "none" => task # NoTask
  /\ At(p, "commit") => There
  /\ At(p, "commit") /\ tx[p].op = "delete" => submissions = {}

KnowsItself(p) ==
  /\ Shaped(tx[p])
  /\ EditsWhatDiffers(tx[p])
  /\ WritesAPatch(tx[p])
  /\ Knows(p)

TInv ==
  /\ TaskTypeOK
  /\ \A p \in Requests : KnowsItself(p)
  /\ CommitsAgree
  /\ DeletionsAreClean
-----------------------------------------------------------------------------
LEMMA LocksByOperation ==
  ASSUME NEW op
  PROVE  /\ op = "delete" => LockOf(op) = ForUpdate("task", 0)
         /\ op = "submit" => LockOf(op) = KeyShare("task", 0)
         /\ op \in {"edit", "script"} => LockOf(op) = NoKeyUpdate("task", 0)
BY DEF LockOf

LEMMA ConflictingLocks ==
  /\ \A m \in {ForUpdate("task", 0), KeyShare("task", 0), NoKeyUpdate("task", 0)} :
       Conflicts(ForUpdate("task", 0), m)
  /\ Conflicts(KeyShare("task", 0), ForUpdate("task", 0))
  /\ Conflicts(NoKeyUpdate("task", 0), ForUpdate("task", 0))
  /\ Conflicts(NoKeyUpdate("task", 0), NoKeyUpdate("task", 0))
BY DEF Conflicts, ForUpdate, KeyShare, NoKeyUpdate

LEMMA IdleType == Idle \in Transactions
<1>1. Idle.patch \in UNION {[D -> Values] : D \in SUBSET Columns}
  <2>1. <<>> \in [{} -> Values]
    OBVIOUS
  <2> QED
    BY <2>1 DEF Idle
<1> QED
  BY <1>1 DEF Idle, Transactions, Ops, PCs

LEMMA DirtyType ==
  ASSUME NEW read \in Rows, NEW form \in Rows
  PROVE  Dirty(read, form) \in UNION {[D -> Values] : D \in SUBSET Columns}
<1> DEFINE D == {c \in Columns : form[c] # read[c]}
<1>1. \A c \in D : form[c] \in Values
  BY DEF Rows, Columns, Values
<1>2. Dirty(read, form) \in [D -> Values]
  BY <1>1 DEF Dirty, Restrict
<1>3. D \in SUBSET Columns
  OBVIOUS
<1> HIDE DEF D
<1> QED
  BY <1>2, <1>3

LEMMA RestrictType ==
  ASSUME NEW form \in Rows, NEW D \in SUBSET Columns
  PROVE  Restrict(form, D) \in UNION {[S -> Values] : S \in SUBSET Columns}
<1>1. \A c \in D : form[c] \in Values
  BY DEF Rows, Columns, Values
<1>2. Restrict(form, D) \in [D -> Values]
  BY <1>1 DEF Restrict
<1> QED
  BY <1>2

LEMMA PatchType ==
  ASSUME NEW patch \in Patches
  PROVE  patch \in UNION {[S -> Values] : S \in SUBSET Columns}
<1>1. PICK r \in Forms :
        patch \in {Restrict(r, D) : D \in {Columns, Columns \ {Optional(r)}}}
  BY DEF Patches
<1>2. PICK D \in SUBSET Columns : patch = Restrict(r, D)
  BY <1>1
<1> QED
  BY <1>2, RestrictType DEF Forms

\* What is written over a row is a row; a form as a whole is what it says.
LEMMA WrittenType ==
  ASSUME NEW r \in Rows, NEW form \in Rows, NEW D \in SUBSET Columns
  PROVE  /\ Written(r, Restrict(form, D)) \in Rows
         /\ \A c \in Columns : Written(r, Restrict(form, D))[c]
                                 = IF c \in D THEN form[c] ELSE r[c]
<1> DEFINE w == Written(r, Restrict(form, D))
<1>1. w = [c \in Columns |-> IF c \in D THEN form[c] ELSE r[c]]
  BY DEF Written, Restrict
<1>2. w = [name |-> w.name, prompt |-> w.prompt, tag |-> w.tag, runtime |-> w.runtime]
  BY <1>1 DEF Columns
<1>3. \A c \in Columns : w[c] = IF c \in D THEN form[c] ELSE r[c]
  BY <1>1
<1>4. /\ w.name \in Names /\ w.prompt \in Prompts
      /\ w.tag \in Tags \cup {NoTag} /\ w.runtime \in Runtimes
  BY <1>3 DEF Columns, Rows
<1> HIDE DEF w
<1>5. w \in Rows
  BY <1>2, <1>4 DEF Rows
<1> QED
  BY <1>3, <1>5 DEF w
-----------------------------------------------------------------------------
\* A step of p changes the transaction of p and no other.
LEMMA StepOf ==
  ASSUME TInv, NEW p \in Requests, NEW t \in Transactions, Become(p, t)
  PROVE  /\ tx' \in [Requests -> Transactions]
         /\ tx'[p] = t
         /\ \A q \in Requests : q # p => tx'[q] = tx[q]
BY DEF TInv, TaskTypeOK, Become

LEMMA EndsIdle ==
  ASSUME TInv, NEW p \in Requests, End(p)
  PROVE  /\ tx' \in [Requests -> Transactions]
         /\ tx'[p] = Idle
         /\ \A q \in Requests : q # p => tx'[q] = tx[q]
BY IdleType, StepOf DEF End

LEMMA IdleShape ==
  /\ Shaped(Idle) /\ EditsWhatDiffers(Idle) /\ WritesAPatch(Idle)
  /\ Idle.op = "none" /\ Idle.pc = "idle"
BY DEF Idle, Shaped, EditsWhatDiffers, WritesAPatch, PCsOf, Ops

\* Where an operation is tells what it is.
LEMMA OpsByPC ==
  ASSUME NEW t, Shaped(t)
  PROVE  /\ t.pc = "idle" <=> t.op = "none"
         /\ t.pc \in {"commit", "raise"} => t.op \in {"edit", "script", "delete", "submit"}
         /\ t.pc = "update" => t.op \in {"edit", "script"}
         /\ t.pc \in {"load submissions", "lock task"} => t.op = "delete"
         /\ t.pc = "reference task" => t.op = "submit"
         /\ t.pc # "commit" => t.held = {}
         /\ t.pc = "commit" => t.held = {LockOf(t.op)}
<1>1. /\ t.op = "none" => t.pc = "idle"
      /\ t.op = "edit" => t.pc \in {"read submissions", "update", "commit", "raise"}
      /\ t.op = "script" => t.pc \in {"update", "commit", "raise"}
      /\ t.op = "delete" => t.pc \in {"read submissions", "load submissions", "lock task",
                                     "commit", "raise"}
      /\ t.op = "submit" => t.pc \in {"reference task", "commit", "raise"}
  BY DEF Shaped, PCsOf
<1>2. t.op \in {"none", "edit", "script", "delete", "submit"}
  BY DEF Shaped, Ops
<1>3. t.held = IF t.pc = "commit" THEN {LockOf(t.op)} ELSE {}
  BY DEF Shaped
<1> QED
  BY <1>1, <1>2, <1>3

\* A statement that locks the row for its commit finds that the commits that
\* hold locks on it agree with it.
LEMMA GrantedAgrees ==
  ASSUME TInv, NEW p \in Requests, NEW op \in {"edit", "script", "delete", "submit"},
         Granted(p, LockOf(op)), NEW q \in Requests \ {p}, At(q, "commit")
  PROVE  /\ op # "delete" /\ tx[q].op # "delete"
         /\ op \in {"edit", "script"} => tx[q].op = "submit"
<1>1. /\ tx[q].held = {LockOf(tx[q].op)}
      /\ tx[q].op \in {"edit", "script", "delete", "submit"}
  BY OpsByPC DEF TInv, KnowsItself, At
<1>2. ~Conflicts(LockOf(op), LockOf(tx[q].op))
  BY <1>1 DEF Granted
<1>3. ASSUME op = "delete" PROVE FALSE
  BY <1>1, <1>2, <1>3, LocksByOperation, ConflictingLocks
<1>4. ASSUME tx[q].op = "delete" PROVE FALSE
  <2>1. LockOf(tx[q].op) = ForUpdate("task", 0)
    BY <1>4, LocksByOperation
  <2> QED
    BY <1>2, <2>1, LocksByOperation, ConflictingLocks
<1>5. ASSUME op \in {"edit", "script"}, tx[q].op \in {"edit", "script"} PROVE FALSE
  <2>1. LockOf(op) = NoKeyUpdate("task", 0) /\ LockOf(tx[q].op) = NoKeyUpdate("task", 0)
    BY <1>5, LocksByOperation
  <2> QED
    BY <1>2, <2>1, ConflictingLocks
<1> QED
  BY <1>1, <1>3, <1>4, <1>5

\* A statement of p that changes no row keeps the invariant if what p then is
\* about to do fits the rows and the other transactions.
LEMMA Statement ==
  ASSUME TInv, NEW p \in Requests, NEW t \in Transactions, Become(p, t),
         UNCHANGED <<task, submissions>>,
         Shaped(t), EditsWhatDiffers(t), WritesAPatch(t),
         t.op # "none" => task # NoTask,
         t.pc = "commit" =>
           /\ There
           /\ t.op = "delete" => submissions = {}
           /\ \A q \in Requests \ {p} : At(q, "commit") =>
                /\ t.op # "delete" /\ tx[q].op # "delete"
                /\ t.op \in {"edit", "script"} => tx[q].op = "submit",
         t.pc = "raise" => IF t.op = "delete" THEN submissions # {}
                           ELSE task = DeletedTask
  PROVE  TInv'
<1>1. /\ tx' \in [Requests -> Transactions]
      /\ tx'[p] = t
      /\ \A q \in Requests : q # p => tx'[q] = tx[q]
  BY StepOf
<1>2. TaskTypeOK'
  BY <1>1 DEF TInv, TaskTypeOK
<1>3. \A q \in Requests : KnowsItself(q)'
  <2> TAKE q \in Requests
  <2>1. CASE q = p
    BY <1>1, <2>1 DEF KnowsItself, Knows, At, There
  <2>2. CASE q # p
    BY <1>1, <2>2 DEF TInv, KnowsItself, Knows, At, There
  <2> QED
    BY <2>1, <2>2
<1>4. CommitsAgree'
  <2> SUFFICES ASSUME NEW q \in Requests, NEW r \in Requests, q # r,
                      At(q, "commit")', At(r, "commit")'
               PROVE  /\ tx'[q].op # "delete"
                      /\ tx'[q].op \in {"edit", "script"} => tx'[r].op = "submit"
    BY DEF CommitsAgree
  <2>1. CASE q = p
    BY <1>1, <2>1 DEF At
  <2>2. CASE r = p
    <3>1. t.op \in {"edit", "script", "delete", "submit"}
      BY <1>1, <2>2, OpsByPC DEF At
    <3> QED
      BY <1>1, <2>2, <3>1 DEF At
  <2>3. CASE q # p /\ r # p
    BY <1>1, <2>3 DEF TInv, CommitsAgree, At
  <2> QED
    BY <2>1, <2>2, <2>3
<1>5. DeletionsAreClean'
  <2>1. SubmissionsHaveATask'
    BY DEF TInv, DeletionsAreClean, SubmissionsHaveATask, There
  <2>2. ErrorsNeedADeletion'
    BY <1>1 DEF TInv, DeletionsAreClean, ErrorsNeedADeletion, At
  <2> QED
    BY <2>1, <2>2 DEF DeletionsAreClean
<1> QED
  BY <1>2, <1>3, <1>4, <1>5 DEF TInv
-----------------------------------------------------------------------------
\* The invariant holds initially ...
LEMMA InitTInv == TaskInit => TInv
<1> SUFFICES ASSUME TaskInit
             PROVE  TInv
  OBVIOUS
<1>1. \A p \in Requests : tx[p] = Idle
  BY DEF TaskInit
<1>2. TaskTypeOK
  BY IdleType DEF TaskInit, TaskTypeOK
<1>3. \A p \in Requests : KnowsItself(p)
  BY <1>1, IdleShape DEF KnowsItself, Knows, At
<1>4. CommitsAgree
  BY <1>1, IdleShape DEF CommitsAgree, At
<1>5. DeletionsAreClean
  BY <1>1, IdleShape DEF TaskInit, DeletionsAreClean, SubmissionsHaveATask,
                         ErrorsNeedADeletion, At
<1> QED
  BY <1>2, <1>3, <1>4, <1>5 DEF TInv

\* ... creating the task keeps it, as no operation begins before ...
LEMMA CreateKeepsTInv == TInv /\ CreateTask => TInv'
<1> SUFFICES ASSUME TInv, CreateTask
             PROVE  TInv'
  OBVIOUS
<1> USE DEF CreateTask
<1>1. task' \in Rows /\ task' # NoTask /\ task' # DeletedTask
  BY TaskEditAssumption DEF Forms
<1>2. \A p \in Requests : tx[p].op = "none" /\ tx[p].pc = "idle"
  BY OpsByPC DEF TInv, KnowsItself, Knows
<1>3. TaskTypeOK'
  BY <1>1 DEF TInv, TaskTypeOK
<1>4. \A p \in Requests : KnowsItself(p)'
  BY <1>1, <1>2 DEF TInv, KnowsItself, Knows, At
<1>5. CommitsAgree'
  BY DEF TInv, CommitsAgree, At
<1>6. DeletionsAreClean'
  BY <1>1, <1>2 DEF TInv, DeletionsAreClean, SubmissionsHaveATask,
                    ErrorsNeedADeletion, At, There
<1> QED
  BY <1>3, <1>4, <1>5, <1>6 DEF TInv

\* ... the end of a request without a commit keeps it ...
LEMMA EndKeepsTInv ==
  ASSUME TInv, NEW p \in Requests, End(p), UNCHANGED <<task, submissions>>
  PROVE  TInv'
BY IdleType, IdleShape, Statement DEF End

\* ... a step of p on its way leaves it where its operation can be, without a
\* lock and without having read or written anything else ...
LEMMA GotoKeepsTInv ==
  ASSUME TInv, NEW p \in Requests, NEW next \in PCs, Goto(p, next),
         UNCHANGED <<task, submissions>>,
         ~At(p, "commit"), ~At(p, "idle"),
         next \in PCsOf(tx[p].op), next \notin {"commit", "update"},
         next = "raise" => IF tx[p].op = "delete" THEN submissions # {}
                         ELSE task = DeletedTask
  PROVE  TInv'
<1> DEFINE t == [tx[p] EXCEPT !.pc = next]
<1>1. tx[p] \in Transactions /\ Shaped(tx[p]) /\ KnowsItself(p)
  BY DEF TInv, TaskTypeOK, KnowsItself
<1>2. /\ t \in Transactions
      /\ t.pc = next /\ t.op = tx[p].op /\ t.held = tx[p].held
      /\ t.read = tx[p].read /\ t.patch = tx[p].patch /\ t.locked = tx[p].locked
  BY <1>1 DEF Transactions
<1>3. Become(p, t)
  BY DEF Goto
<1> HIDE DEF t
<1>4. Shaped(t)
  <2>1. tx[p].op # "none"
    BY <1>1, OpsByPC DEF At
  <2> QED
    BY <1>1, <1>2, <2>1 DEF Shaped, At
<1>5. EditsWhatDiffers(t) /\ WritesAPatch(t)
  BY <1>1, <1>2 DEF KnowsItself, EditsWhatDiffers, WritesAPatch
<1>6. t.op # "none" => task # NoTask
  BY <1>1, <1>2 DEF KnowsItself, Knows
<1> QED
  BY <1>2, <1>3, <1>4, <1>5, <1>6, Statement

\* ... and so does a statement that locks the row for the commit.
LEMMA LockKeepsTInv ==
  ASSUME TInv, NEW p \in Requests, NEW l, Lock(p, l),
         UNCHANGED <<task, submissions>>,
         tx[p].pc \in {"update", "lock task", "reference task"},
         l = LockOf(tx[p].op), Granted(p, l), There,
         tx[p].op = "delete" => submissions = {}
  PROVE  TInv'
<1> DEFINE t == [tx[p] EXCEPT !.pc = "commit", !.held = {l}]
<1>1. tx[p] \in Transactions /\ Shaped(tx[p]) /\ KnowsItself(p)
  BY DEF TInv, TaskTypeOK, KnowsItself
<1>2. tx[p].op \in {"edit", "script", "delete", "submit"}
  BY <1>1, OpsByPC DEF Shaped, Ops
<1>3. l \in {ForUpdate("task", 0), KeyShare("task", 0), NoKeyUpdate("task", 0)}
  BY <1>2, LocksByOperation
<1>4. /\ t \in Transactions
      /\ t.pc = "commit" /\ t.op = tx[p].op /\ t.held = {l}
      /\ t.read = tx[p].read /\ t.patch = tx[p].patch /\ t.locked = tx[p].locked
  BY <1>1, <1>3 DEF Transactions, PCs
<1>5. Become(p, t)
  BY DEF Lock
<1> HIDE DEF t
<1>6. Shaped(t)
  BY <1>1, <1>2, <1>4 DEF Shaped, PCsOf
<1>7. EditsWhatDiffers(t) /\ WritesAPatch(t)
  <2>1. t.op = "edit" => tx[p].pc = "update"
    BY <1>1, <1>4, OpsByPC
  <2> QED
    BY <1>1, <1>4, <2>1 DEF KnowsItself, EditsWhatDiffers, WritesAPatch
<1>8. t.op # "none" => task # NoTask
  BY <1>1, <1>4 DEF KnowsItself, Knows
<1>9. \A q \in Requests \ {p} : At(q, "commit") =>
        /\ t.op # "delete" /\ tx[q].op # "delete"
        /\ t.op \in {"edit", "script"} => tx[q].op = "submit"
  BY <1>2, <1>4, GrantedAgrees
<1> QED
  BY <1>4, <1>5, <1>6, <1>7, <1>8, <1>9, Statement
-----------------------------------------------------------------------------
\* ... as does each statement.
LEMMA FindTaskKeepsTInv ==
  ASSUME TInv, NEW p \in Requests, NEW op \in {"edit", "delete"}, FindTask(p, op)
  PROVE  TInv'
<1> DEFINE t == [Idle EXCEPT !.op = op, !.pc = "read submissions", !.read = task]
<1>1. /\ t \in Transactions
      /\ t.op = op /\ t.pc = "read submissions" /\ t.held = {} /\ t.read \in Rows
  <2>1. Idle \in Transactions /\ Idle.held = {}
    BY IdleType DEF Idle
  <2> QED
    BY <2>1 DEF FindTask, There, Transactions, Ops, PCs
<1>2. Become(p, t) /\ UNCHANGED <<task, submissions>> /\ task # NoTask
  BY TaskEditAssumption DEF FindTask, There
<1> HIDE DEF t
<1>3. Shaped(t) /\ EditsWhatDiffers(t) /\ WritesAPatch(t)
  BY <1>1 DEF Shaped, EditsWhatDiffers, WritesAPatch, PCsOf, Ops
<1> QED
  BY <1>1, <1>2, <1>3, Statement

LEMMA SubmitFormKeepsTInv ==
  ASSUME TInv, NEW p \in Requests, SubmitForm(p)
  PROVE  TInv'
<1>1. /\ tx[p] \in Transactions /\ Shaped(tx[p]) /\ tx[p].held = {}
      /\ tx[p].op = "edit" /\ tx[p].read \in Rows /\ task # NoTask
  BY OpsByPC DEF SubmitForm, TInv, TaskTypeOK, KnowsItself, Knows, EditsWhatDiffers, At
<1>2. UNCHANGED <<task, submissions>>
  BY DEF SubmitForm
<1>3. PICK form \in Forms :
        IF submissions # {} /\ ChangesLockedFields(tx[p].read, form)
        THEN End(p)
        ELSE Become(p, [tx[p] EXCEPT !.pc = "update", !.locked = submissions # {},
                                     !.patch = Dirty(tx[p].read, form)])
  BY DEF SubmitForm
<1>4. CASE submissions # {} /\ ChangesLockedFields(tx[p].read, form)
  BY <1>2, <1>3, <1>4, EndKeepsTInv
<1>5. CASE ~(submissions # {} /\ ChangesLockedFields(tx[p].read, form))
  <2> DEFINE t == [tx[p] EXCEPT !.pc = "update", !.locked = submissions # {},
                                !.patch = Dirty(tx[p].read, form)]
  <2>1. Dirty(tx[p].read, form) \in UNION {[D -> Values] : D \in SUBSET Columns}
    BY <1>1, DirtyType DEF Forms
  <2>2. /\ t \in Transactions
        /\ t.op = "edit" /\ t.pc = "update" /\ t.held = {} /\ t.read = tx[p].read
        /\ t.patch = Dirty(tx[p].read, form) /\ t.locked = (submissions # {})
    BY <1>1, <2>1 DEF Transactions, PCs
  <2>3. Become(p, t)
    BY <1>3, <1>5
  <2> HIDE DEF t
  <2>4. Shaped(t) /\ WritesAPatch(t)
    BY <2>2 DEF Shaped, WritesAPatch, PCsOf, Ops
  <2>5. EditsWhatDiffers(t)
    BY <1>1, <1>5, <2>2 DEF EditsWhatDiffers
  <2> QED
    BY <1>1, <1>2, <2>2, <2>3, <2>4, <2>5, Statement
<1> QED
  BY <1>4, <1>5

LEMMA StartScriptKeepsTInv ==
  ASSUME TInv, NEW p \in Requests, StartScript(p)
  PROVE  TInv'
<1>1. PICK patch \in Patches :
        Become(p, [Idle EXCEPT !.op = "script", !.pc = "update", !.patch = patch])
  BY DEF StartScript
<1>2. UNCHANGED <<task, submissions>> /\ task # NoTask
  BY DEF StartScript
<1> DEFINE t == [Idle EXCEPT !.op = "script", !.pc = "update", !.patch = patch]
<1>3. /\ t \in Transactions
      /\ t.op = "script" /\ t.pc = "update" /\ t.held = {} /\ t.patch = patch
  <2>1. patch \in UNION {[D -> Values] : D \in SUBSET Columns}
    BY PatchType
  <2>2. Idle \in Transactions /\ Idle.held = {}
    BY IdleType DEF Idle
  <2> QED
    BY <2>1, <2>2 DEF Transactions, Ops, PCs
<1>4. Become(p, t)
  BY <1>1
<1> HIDE DEF t
<1>5. Shaped(t) /\ EditsWhatDiffers(t) /\ WritesAPatch(t)
  BY <1>3 DEF Shaped, EditsWhatDiffers, WritesAPatch, PCsOf, Ops
<1> QED
  BY <1>2, <1>3, <1>4, <1>5, Statement

LEMMA UpdateKeepsTInv ==
  ASSUME TInv, NEW p \in Requests, Update(p)
  PROVE  TInv'
<1>1. Shaped(tx[p]) /\ tx[p].op \in {"edit", "script"} /\ task # NoTask
  BY OpsByPC DEF Update, TInv, KnowsItself, Knows, At
<1>2. UNCHANGED <<task, submissions>> /\ tx[p].pc = "update"
  BY DEF Update, At
<1>3. LockOf(tx[p].op) = NoKeyUpdate("task", 0)
  BY <1>1, LocksByOperation
<1>4. CASE tx[p].patch = <<>>
  BY <1>2, <1>4, EndKeepsTInv DEF Update
<1>5. CASE tx[p].patch # <<>> /\ There
  <2>1. Granted(p, NoKeyUpdate("task", 0)) /\ Lock(p, NoKeyUpdate("task", 0))
    BY <1>5 DEF Update
  <2> QED
    BY <1>1, <1>2, <1>3, <1>5, <2>1, LockKeepsTInv
<1>6. CASE tx[p].patch # <<>> /\ ~There
  <2>1. Goto(p, "raise") /\ ~At(p, "commit") /\ ~At(p, "idle")
    BY <1>2, <1>6 DEF Update, At
  <2>2. task = DeletedTask /\ tx[p].op # "delete"
    BY <1>1, <1>6 DEF TInv, TaskTypeOK, There
  <2>3. "raise" \in PCs /\ "raise" \in PCsOf(tx[p].op)
    BY <1>1 DEF PCs, PCsOf
  <2> QED
    BY <1>2, <2>1, <2>2, <2>3, GotoKeepsTInv
<1> QED
  BY <1>4, <1>5, <1>6

LEMMA RefuseDeletionKeepsTInv ==
  ASSUME TInv, NEW p \in Requests, RefuseDeletion(p)
  PROVE  TInv'
<1>1. UNCHANGED <<task, submissions>> /\ tx[p].op = "delete" /\ ~At(p, "commit") /\ ~At(p, "idle")
  BY DEF RefuseDeletion, At
<1>2. CASE submissions # {}
  BY <1>1, <1>2, EndKeepsTInv DEF RefuseDeletion
<1>3. CASE submissions = {}
  <2>1. Goto(p, "load submissions")
    BY <1>3 DEF RefuseDeletion
  <2> QED
    BY <1>1, <2>1, GotoKeepsTInv DEF PCs, PCsOf
<1> QED
  BY <1>2, <1>3

LEMMA LoadSubmissionsKeepsTInv ==
  ASSUME TInv, NEW p \in Requests, LoadSubmissions(p)
  PROVE  TInv'
<1>1. /\ UNCHANGED <<task, submissions>> /\ tx[p].op = "delete"
      /\ ~At(p, "commit") /\ ~At(p, "idle")
  BY OpsByPC DEF LoadSubmissions, TInv, KnowsItself, At
<1>2. CASE submissions # {}
  <2>1. Goto(p, "raise")
    BY <1>2 DEF LoadSubmissions
  <2> QED
    BY <1>1, <1>2, <2>1, GotoKeepsTInv DEF PCs, PCsOf
<1>3. CASE submissions = {}
  <2>1. Goto(p, "lock task")
    BY <1>3 DEF LoadSubmissions
  <2> QED
    BY <1>1, <2>1, GotoKeepsTInv DEF PCs, PCsOf
<1> QED
  BY <1>2, <1>3

LEMMA LockTaskKeepsTInv ==
  ASSUME TInv, NEW p \in Requests, LockTask(p)
  PROVE  TInv'
<1>1. /\ UNCHANGED <<task, submissions>> /\ tx[p].op = "delete"
      /\ tx[p].pc = "lock task" /\ ~At(p, "commit") /\ ~At(p, "idle")
  BY OpsByPC DEF LockTask, TInv, KnowsItself, At
<1>2. CASE ~There
  BY <1>1, <1>2, EndKeepsTInv DEF LockTask
<1>3. CASE There /\ submissions = {}
  <2>1. Granted(p, ForUpdate("task", 0)) /\ Lock(p, ForUpdate("task", 0))
    BY <1>3 DEF LockTask
  <2>2. LockOf(tx[p].op) = ForUpdate("task", 0)
    BY <1>1, LocksByOperation
  <2> QED
    BY <1>1, <1>3, <2>1, <2>2, LockKeepsTInv
<1>4. CASE There /\ submissions # {}
  <2>1. Goto(p, "raise")
    BY <1>4 DEF LockTask
  <2> QED
    BY <1>1, <1>4, <2>1, GotoKeepsTInv DEF PCs, PCsOf
<1> QED
  BY <1>2, <1>3, <1>4

LEMMA StartSubmitKeepsTInv ==
  ASSUME TInv, NEW p \in Requests, StartSubmit(p)
  PROVE  TInv'
<1> DEFINE t == [Idle EXCEPT !.op = "submit", !.pc = "reference task"]
<1>1. t \in Transactions /\ t.op = "submit" /\ t.pc = "reference task" /\ t.held = {}
  <2>1. Idle \in Transactions /\ Idle.held = {}
    BY IdleType DEF Idle
  <2> QED
    BY <2>1 DEF Transactions, Ops, PCs
<1>2. Become(p, t) /\ UNCHANGED <<task, submissions>> /\ task # NoTask
  BY DEF StartSubmit
<1> HIDE DEF t
<1>3. Shaped(t) /\ EditsWhatDiffers(t) /\ WritesAPatch(t)
  BY <1>1 DEF Shaped, EditsWhatDiffers, WritesAPatch, PCsOf, Ops
<1> QED
  BY <1>1, <1>2, <1>3, Statement

LEMMA ReferenceTaskKeepsTInv ==
  ASSUME TInv, NEW p \in Requests, ReferenceTask(p)
  PROVE  TInv'
<1>1. /\ UNCHANGED <<task, submissions>> /\ tx[p].op = "submit" /\ task # NoTask
      /\ tx[p].pc = "reference task" /\ ~At(p, "commit") /\ ~At(p, "idle")
  BY OpsByPC DEF ReferenceTask, TInv, KnowsItself, Knows, At
<1>2. CASE There
  <2>1. Granted(p, KeyShare("task", 0)) /\ Lock(p, KeyShare("task", 0))
    BY <1>2 DEF ReferenceTask
  <2>2. LockOf(tx[p].op) = KeyShare("task", 0)
    BY <1>1, LocksByOperation
  <2> QED
    BY <1>1, <1>2, <2>1, <2>2, LockKeepsTInv
<1>3. CASE ~There
  <2>1. Goto(p, "raise") /\ task = DeletedTask
    BY <1>1, <1>3 DEF ReferenceTask, TInv, TaskTypeOK, There
  <2> QED
    BY <1>1, <2>1, GotoKeepsTInv DEF PCs, PCsOf
<1> QED
  BY <1>2, <1>3
-----------------------------------------------------------------------------
\* The commits. What an edit or a script writes is part of a valid row.
LEMMA WritesPartOfAForm ==
  ASSUME TInv, NEW p \in Requests, At(p, "commit"), tx[p].op \in {"edit", "script"}
  PROVE  \E form \in Forms, D \in SUBSET Columns : tx[p].patch = Restrict(form, D)
<1>1. CASE tx[p].op = "edit"
  <2>1. PICK form \in Forms : tx[p].patch = Dirty(tx[p].read, form)
    BY <1>1 DEF TInv, KnowsItself, EditsWhatDiffers, At
  <2> QED
    BY <2>1 DEF Dirty
<1>2. CASE tx[p].op = "script"
  <2>1. PICK r \in Forms :
          tx[p].patch \in {Restrict(r, D) : D \in {Columns, Columns \ {Optional(r)}}}
    BY <1>2 DEF TInv, KnowsItself, WritesAPatch, Patches
  <2> QED
    BY <2>1
<1> QED
  BY <1>1, <1>2

LEMMA CommitUpdateKeepsTInv ==
  ASSUME TInv, NEW p \in Requests, CommitUpdate(p)
  PROVE  TInv'
<1>1. /\ At(p, "commit") /\ tx[p].op \in {"edit", "script"} /\ There
      /\ End(p) /\ submissions' = submissions
  BY DEF CommitUpdate, TInv, KnowsItself, Knows
<1>2. task' \in Rows /\ task' # NoTask
  <2>1. PICK form \in Forms, D \in SUBSET Columns : tx[p].patch = Restrict(form, D)
    BY <1>1, WritesPartOfAForm
  <2>2. task' = Written(task, Restrict(form, D))
    BY <2>1 DEF CommitUpdate
  <2> QED
    BY <1>1, <2>2, WrittenType, TaskEditAssumption DEF Forms, There
<1>3. /\ tx' \in [Requests -> Transactions]
      /\ tx'[p] = Idle
      /\ \A q \in Requests : q # p => tx'[q] = tx[q]
  BY <1>1, EndsIdle
<1>4. TaskTypeOK'
  BY <1>1, <1>2, <1>3 DEF TInv, TaskTypeOK
<1>5. \A q \in Requests : KnowsItself(q)'
  BY <1>1, <1>2, <1>3, IdleShape DEF TInv, KnowsItself, Knows, At, There
<1>6. CommitsAgree'
  BY <1>3, IdleShape DEF TInv, CommitsAgree, At
<1>7. DeletionsAreClean'
  <2>1. SubmissionsHaveATask'
    BY <1>1, <1>2 DEF SubmissionsHaveATask, There
  <2>2. ErrorsNeedADeletion'
    BY <1>1, <1>3, IdleShape, TaskEditAssumption
       DEF TInv, DeletionsAreClean, ErrorsNeedADeletion, At, There
  <2> QED
    BY <2>1, <2>2 DEF DeletionsAreClean
<1> QED
  BY <1>4, <1>5, <1>6, <1>7 DEF TInv

\* A deletion commits alone: no other commit holds the row.
LEMMA CommitDeleteKeepsTInv ==
  ASSUME TInv, NEW p \in Requests, CommitDelete(p)
  PROVE  TInv'
<1>1. /\ At(p, "commit") /\ tx[p].op = "delete" /\ submissions = {}
      /\ End(p) /\ task' = DeletedTask /\ submissions' = submissions
  BY DEF CommitDelete, TInv, KnowsItself, Knows
<1>2. /\ tx' \in [Requests -> Transactions]
      /\ tx'[p] = Idle
      /\ \A q \in Requests : q # p => tx'[q] = tx[q]
  BY <1>1, EndsIdle
<1>3. \A q \in Requests : q # p => ~At(q, "commit")
  BY <1>1 DEF TInv, CommitsAgree
<1>4. TaskTypeOK'
  BY <1>1, <1>2 DEF TInv, TaskTypeOK
<1>5. \A q \in Requests : KnowsItself(q)'
  BY <1>1, <1>2, <1>3, IdleShape, TaskEditAssumption DEF TInv, KnowsItself, Knows, At
<1>6. CommitsAgree'
  BY <1>2, IdleShape DEF TInv, CommitsAgree, At
<1>7. DeletionsAreClean'
  <2>1. SubmissionsHaveATask'
    BY <1>1 DEF SubmissionsHaveATask
  <2>2. ErrorsNeedADeletion'
    BY <1>1, <1>2, IdleShape DEF TInv, DeletionsAreClean, ErrorsNeedADeletion, At
  <2> QED
    BY <2>1, <2>2 DEF DeletionsAreClean
<1> QED
  BY <1>4, <1>5, <1>6, <1>7 DEF TInv

\* A submission commits while the row is there and nobody can delete it.
LEMMA CommitSubmitKeepsTInv ==
  ASSUME TInv, NEW p \in Requests, CommitSubmit(p)
  PROVE  TInv'
<1>1. /\ At(p, "commit") /\ tx[p].op = "submit" /\ There
      /\ End(p) /\ task' = task
  BY DEF CommitSubmit, TInv, KnowsItself, Knows
<1>2. /\ tx' \in [Requests -> Transactions]
      /\ tx'[p] = Idle
      /\ \A q \in Requests : q # p => tx'[q] = tx[q]
  BY <1>1, EndsIdle
<1>3. submissions' \subseteq Submissions /\ submissions' # {}
  BY DEF CommitSubmit, TInv, TaskTypeOK
<1>4. \A q \in Requests : q # p /\ At(q, "commit") => tx[q].op # "delete"
  BY <1>1 DEF TInv, CommitsAgree
<1>5. TaskTypeOK'
  BY <1>1, <1>2, <1>3 DEF TInv, TaskTypeOK
<1>6. \A q \in Requests : KnowsItself(q)'
  BY <1>1, <1>2, <1>4, IdleShape DEF TInv, KnowsItself, Knows, At, There
<1>7. CommitsAgree'
  BY <1>2, IdleShape DEF TInv, CommitsAgree, At
<1>8. DeletionsAreClean'
  <2>1. SubmissionsHaveATask'
    BY <1>1 DEF SubmissionsHaveATask, There
  <2>2. ErrorsNeedADeletion'
    BY <1>1, <1>2, <1>3, IdleShape DEF TInv, DeletionsAreClean, ErrorsNeedADeletion, At
  <2> QED
    BY <2>1, <2>2 DEF DeletionsAreClean
<1> QED
  BY <1>5, <1>6, <1>7, <1>8 DEF TInv

LEMMA NextTInv == TInv /\ [TaskNext]_taskVars => TInv'
<1> SUFFICES ASSUME TInv, [TaskNext]_taskVars
             PROVE  TInv'
  OBVIOUS
<1>1. CASE UNCHANGED taskVars
  <2> USE <1>1 DEF taskVars
  <2>1. TaskTypeOK' /\ CommitsAgree' /\ DeletionsAreClean'
    BY DEF TInv, TaskTypeOK, CommitsAgree, At, There, DeletionsAreClean,
           SubmissionsHaveATask, ErrorsNeedADeletion
  <2>2. \A p \in Requests : KnowsItself(p)'
    BY DEF TInv, KnowsItself, Knows, At, There
  <2> QED
    BY <2>1, <2>2 DEF TInv
<1>2. CASE CreateTask
  BY <1>2, CreateKeepsTInv
<1>3. ASSUME NEW p \in Requests, Step(p)
      PROVE  TInv'
  <2>1. CASE \E op \in {"edit", "delete"} : FindTask(p, op)
    BY <2>1, FindTaskKeepsTInv
  <2>2. CASE SubmitForm(p)
    BY <2>2, SubmitFormKeepsTInv
  <2>3. CASE StartScript(p)
    BY <2>3, StartScriptKeepsTInv
  <2>4. CASE Update(p)
    BY <2>4, UpdateKeepsTInv
  <2>5. CASE CommitUpdate(p)
    BY <2>5, CommitUpdateKeepsTInv
  <2>6. CASE RefuseDeletion(p)
    BY <2>6, RefuseDeletionKeepsTInv
  <2>7. CASE LoadSubmissions(p)
    BY <2>7, LoadSubmissionsKeepsTInv
  <2>8. CASE LockTask(p)
    BY <2>8, LockTaskKeepsTInv
  <2>9. CASE CommitDelete(p)
    BY <2>9, CommitDeleteKeepsTInv
  <2>10. CASE StartSubmit(p)
    BY <2>10, StartSubmitKeepsTInv
  <2>11. CASE ReferenceTask(p)
    BY <2>11, ReferenceTaskKeepsTInv
  <2>12. CASE CommitSubmit(p)
    BY <2>12, CommitSubmitKeepsTInv
  <2>13. CASE Abort(p)
    BY <2>13, EndKeepsTInv DEF Abort
  <2> QED
    BY <1>3, <2>1, <2>2, <2>3, <2>4, <2>5, <2>6, <2>7, <2>8, <2>9, <2>10, <2>11,
       <2>12, <2>13 DEF Step
<1> QED
  BY <1>1, <1>2, <1>3 DEF TaskNext

\* The inductive invariant of a task's requests: locks, what each request has
\* read and is about to write, and the rows fit together.
THEOREM TaskInvariant == TaskSpec => []TInv
<1> QED
  BY InitTInv, NextTInv, PTL DEF TaskSpec

\* The deletion of a task orphans no submission, and only it makes another
\* request fail (delete_task_page, create_submission_page).
THEOREM DeletionsAreCleanAlways == TaskSpec => []DeletionsAreClean
<1>1. TInv => DeletionsAreClean
  BY DEF TInv
<1> QED
  BY <1>1, TaskInvariant, PTL
-----------------------------------------------------------------------------
\* Only commits of edits, scripts and deletions write the task once it is
\* there, and they change no other transaction.
LEMMA WhoWrites ==
  ASSUME TInv, TaskNext, task' # task, tx' # tx
  PROVE  \E p \in Requests : /\ CommitUpdate(p) \/ CommitDelete(p)
                             /\ tx'[p] = Idle /\ tx[p] # Idle
                             /\ \A q \in Requests : q # p => tx'[q] = tx[q]
<1>1. ~CreateTask
  BY DEF CreateTask
<1>2. PICK p \in Requests : Step(p)
  BY <1>1 DEF TaskNext
<1>3. CommitUpdate(p) \/ CommitDelete(p)
  BY <1>2 DEF Step, FindTask, SubmitForm, StartScript, Update, RefuseDeletion,
              LoadSubmissions, LockTask, StartSubmit, ReferenceTask, CommitSubmit, Abort
<1>4. End(p) /\ tx[p] # Idle
  BY <1>3 DEF CommitUpdate, CommitDelete, At, Idle
<1> QED
  BY <1>3, <1>4, EndsIdle

\* What a commit of an edit writes: the valid form in the columns in which it
\* differs from what was read, and the row as it is in the others.
LEMMA EditsWriteTheirForm ==
  ASSUME TInv, NEW p \in Requests, CommitUpdate(p), tx[p].op = "edit"
  PROVE  \E form \in Forms :
           /\ tx[p].locked => ~ChangesLockedFields(tx[p].read, form)
           /\ task' \in Rows
           /\ \A c \in Columns :
                task'[c] = IF form[c] # tx[p].read[c] THEN form[c] ELSE task[c]
<1>1. At(p, "commit") /\ There
  BY DEF CommitUpdate, TInv, KnowsItself, Knows
<1>2. PICK form \in Forms : /\ tx[p].patch = Dirty(tx[p].read, form)
                            /\ tx[p].locked => ~ChangesLockedFields(tx[p].read, form)
  BY <1>1 DEF TInv, KnowsItself, EditsWhatDiffers, At
<1> DEFINE D == {c \in Columns : form[c] # tx[p].read[c]}
<1>3. task' = Written(task, Restrict(form, D)) /\ D \in SUBSET Columns
  BY <1>2 DEF CommitUpdate, Dirty
<1>4. \A c \in Columns : c \in D <=> form[c] # tx[p].read[c]
  OBVIOUS
<1> HIDE DEF D
<1>5. /\ task' \in Rows
      /\ \A c \in Columns : task'[c] = IF c \in D THEN form[c] ELSE task[c]
  BY <1>1, <1>3, WrittenType DEF Forms, There
<1> QED
  BY <1>2, <1>4, <1>5

\* A page edit that has seen submissions leaves the prompt, the tag and the
\* runtime as they are at its commit, whatever edits and scripts commit
\* between its check and its UPDATE (update_task_page, _changes_locked_fields).
THEOREM LockedEditsKeepFieldsAlways == TaskSpec => LockedEditsKeepFields
<1> DEFINE Keeps == \A p \in Requests :
                      /\ tx[p].op = "edit"
                      /\ tx[p].locked
                      /\ task' # task
                      /\ tx'[p] # tx[p]
                      => Evaluation(task') = Evaluation(task)
<1>1. ASSUME TInv, [TaskNext]_taskVars
      PROVE  [Keeps]_taskVars
  <2> SUFFICES ASSUME TaskNext, NEW p \in Requests, tx[p].op = "edit", tx[p].locked,
                      task' # task, tx'[p] # tx[p]
               PROVE  Evaluation(task') = Evaluation(task)
    BY <1>1
  <2>1. PICK q \in Requests : /\ CommitUpdate(q) \/ CommitDelete(q)
                              /\ \A r \in Requests : r # q => tx'[r] = tx[r]
    BY <1>1, WhoWrites
  <2>2. CommitUpdate(p)
    BY <2>1 DEF CommitDelete
  <2>3. PICK form \in Forms :
          /\ ~ChangesLockedFields(tx[p].read, form)
          /\ \A c \in Columns :
               task'[c] = IF form[c] # tx[p].read[c] THEN form[c] ELSE task[c]
    BY <1>1, <2>2, EditsWriteTheirForm
  <2>4. \A c \in LockedFields : task'[c] = task[c]
    BY <2>3 DEF ChangesLockedFields, LockedFields, Columns
  <2> QED
    BY <2>4 DEF Evaluation
<1>2. TInv /\ [TaskNext]_taskVars => [Keeps]_taskVars
  BY <1>1
<1> QED
  BY <1>2, TaskInvariant, PTL DEF TaskSpec, LockedEditsKeepFields

\* A script's object as a whole satisfies the rule on reset_docker_tag by what
\* it gives, whatever it leaves out.
LEMMA ScriptsKeepTheRule ==
  ASSUME TInv, NEW p \in Requests, CommitUpdate(p), tx[p].op = "script"
  PROVE  Valid(task')
<1>1. At(p, "commit") /\ There /\ tx[p].patch \in Patches
  BY DEF CommitUpdate, TInv, KnowsItself, Knows, WritesAPatch
<1>2. PICK r \in Forms :
        tx[p].patch \in {Restrict(r, D) : D \in {Columns, Columns \ {Optional(r)}}}
  BY <1>1 DEF Patches
<1>3. PICK D \in {Columns, Columns \ {Optional(r)}} : tx[p].patch = Restrict(r, D)
  BY <1>2
<1>4. \A c \in Columns : task'[c] = IF c \in D THEN r[c] ELSE task[c]
  BY <1>1, <1>3, WrittenType DEF CommitUpdate, Forms, There
<1>5. r \in Rows /\ Valid(r)
  BY DEF Forms
<1>6. CASE r.runtime = "OpenArm Cell"
  <2>1. r.tag # NoTag
    BY <1>5, <1>6 DEF Valid
  <2>2. "tag" \in D
    BY <1>6 DEF Optional, Columns
  <2> QED
    BY <1>4, <2>1, <2>2 DEF Valid, Columns
<1>7. CASE r.runtime # "OpenArm Cell"
  <2>1. r.runtime = "MuJoCo" /\ "runtime" \in D
    BY <1>5, <1>7 DEF Rows, Runtimes, Optional, Columns
  <2> QED
    BY <1>4, <2>1 DEF Valid, Columns
<1> QED
  BY <1>6, <1>7

\* An OpenArm Cell task loses its reset_docker_tag only when an edit writes
\* over another one that it has not seen (update_task_page checks the form, and
\* the UPDATE writes what differs from the row that the page has read).
THEOREM RuleBreaksOnlyByOverlapAlways == TaskSpec => RuleBreaksOnlyByOverlap
<1> DEFINE Breaks == There /\ Valid(task) /\ task' \in Rows /\ ~Valid(task') =>
                       \E p \in Requests : /\ tx'[p] # tx[p]
                                           /\ tx[p].op = "edit"
                                           /\ tx[p].read # task
<1>1. ASSUME TInv, [TaskNext]_taskVars
      PROVE  [Breaks]_taskVars
  <2> SUFFICES ASSUME TaskNext, There, Valid(task), task' \in Rows, ~Valid(task')
               PROVE  \E p \in Requests : /\ tx'[p] # tx[p]
                                          /\ tx[p].op = "edit"
                                          /\ tx[p].read # task
    BY <1>1
  <2>1. task' # task /\ ~CreateTask
    BY TaskEditAssumption DEF CreateTask, There
  <2>2. tx' # tx
    <3>1. PICK p \in Requests : Step(p)
      BY <2>1 DEF TaskNext
    <3>2. CommitUpdate(p) \/ CommitDelete(p)
      BY <2>1, <3>1 DEF Step, FindTask, SubmitForm, StartScript, Update, RefuseDeletion,
              LoadSubmissions, LockTask, StartSubmit, ReferenceTask, CommitSubmit, Abort
    <3>3. End(p) /\ tx[p] # Idle
      BY <3>2 DEF CommitUpdate, CommitDelete, At, Idle
    <3> QED
      BY <1>1, <3>3, EndsIdle
  <2>3. PICK p \in Requests : /\ CommitUpdate(p) \/ CommitDelete(p)
                              /\ tx'[p] = Idle /\ tx[p] # Idle
    BY <1>1, <2>1, <2>2, WhoWrites
  <2>4. CommitUpdate(p) /\ tx[p].op \in {"edit", "script"}
    BY <2>3, TaskEditAssumption DEF CommitDelete, CommitUpdate
  <2>5. tx[p].op = "edit"
    BY <1>1, <2>4, ScriptsKeepTheRule
  <2>6. ASSUME tx[p].read = task PROVE FALSE
    <3>1. PICK form \in Forms :
            \A c \in Columns :
               task'[c] = IF form[c] # tx[p].read[c] THEN form[c] ELSE task[c]
      BY <1>1, <2>4, <2>5, EditsWriteTheirForm
    <3>2. task'.tag = form.tag /\ task'.runtime = form.runtime
      BY <2>6, <3>1 DEF Columns
    <3> QED
      BY <3>2 DEF Forms, Valid
  <2> QED
    BY <2>3, <2>5, <2>6
<1>2. TInv /\ [TaskNext]_taskVars => [Breaks]_taskVars
  BY <1>1
<1> QED
  BY <1>2, TaskInvariant, PTL DEF TaskSpec, RuleBreaksOnlyByOverlap
-----------------------------------------------------------------------------
(***************************************************************************)
(* The pages of results                                                    *)
(***************************************************************************)
\* A row is inserted once and stays as it is: no id is used twice, and what a
\* walk has found at its beginning is still there.
RowsStay ==
  /\ IsFiniteSet(drawn)
  /\ \A i \in Ids : rollout[i] # NoRow \/ adding[i] # NoRow => i \in drawn
  /\ \A i \in Ids : adding[i] # NoRow => rollout[i] = NoRow
  /\ \A i \in Ids : walk.old[i] # NoRow => rollout[i] = walk.old[i]

\* The pages whose rows the walk has read.
PagesRead ==
  IF walk.at \in {"statistics", "shown", "done"} THEN walk.page ELSE walk.page - 1

Walking == walk.at # "idle"
Counted == walk.at \in {"read", "statistics", "shown", "done"}

\* Some rollout with a smaller id was committed after the walk had begun.
Overtaken(i) ==
  \E j \in RolloutsOf(rollout, walk.submission) : j < i /\ walk.old[j] = NoRow

\* How many rollouts of the submission are listed before i.
Smaller(i) == {j \in RolloutsOf(rollout, walk.submission) : j < i}

\* A rollout that was there has been seen, has been overtaken, or is still on
\* the pages to come.
RolloutsSoFar ==
  Walking /\ walk.list = "rollouts" =>
    \A i \in RolloutsOf(walk.old, walk.submission) :
      i \in walk.seen \/ Overtaken(i) \/ Cardinality(Smaller(i)) >= PagesRead * Size

\* The list has been counted after the walk has begun, and before now.
RolloutsCounted ==
  Counted /\ walk.list = "rollouts" =>
    /\ Cardinality(RolloutsOf(walk.old, walk.submission)) <= walk.total
    /\ walk.total <= Count(rollout, walk.submission)
    /\ walk.at \in {"shown", "done"} => walk.total <= walk.count

\* As long as no result has come in, the leaderboard is the one that the walk
\* has begun with, and whoever has not been seen is on the pages to come.
LeadersAhead(s) == {t \in Ranked(walk.old) : Ahead(walk.old, t, s)}

SubmissionsSoFar ==
  Walking /\ walk.list = "leaderboard" /\ rollout = walk.old =>
    \A s \in Ranked(walk.old) :
      s \in walk.seen \/ Cardinality(LeadersAhead(s)) >= PagesRead * Size

SubmissionsCounted ==
  Counted /\ walk.list = "leaderboard" /\ rollout = walk.old =>
    walk.total = Cardinality(Ranked(walk.old))

LastPageRead == walk.at = "done" => walk.total <= walk.page * Size

PInv ==
  /\ ResultsTypeOK
  /\ RowsStay
  /\ RolloutsSoFar
  /\ RolloutsCounted
  /\ SubmissionsSoFar
  /\ SubmissionsCounted
  /\ LastPageRead
-----------------------------------------------------------------------------
(***************************************************************************)
(* Tables of rollouts                                                      *)
(***************************************************************************)
\* A table with finitely many rows has finitely many rollouts of a submission,
\* and no more successes than rollouts ...
LEMMA FiniteTables ==
  ASSUME NEW r \in Tables, NEW D, IsFiniteSet(D),
         \A i \in Ids : r[i] # NoRow => i \in D,
         NEW s
  PROVE  /\ IsFiniteSet(RolloutsOf(r, s))
         /\ Count(r, s) \in Nat
         /\ Successes(r, s) \in Nat
         /\ Successes(r, s) <= Count(r, s)
<1> DEFINE S == {i \in RolloutsOf(r, s) : r[i].success}
<1>1. RolloutsOf(r, s) \in SUBSET D
  BY DEF RolloutsOf, Committed
<1>2. IsFiniteSet(RolloutsOf(r, s))
  BY <1>1, FS_Subset
<1>3. S \in SUBSET RolloutsOf(r, s)
  OBVIOUS
<1>4. IsFiniteSet(S) /\ Cardinality(S) <= Cardinality(RolloutsOf(r, s))
  BY <1>2, <1>3, FS_Subset
<1>5. Cardinality(S) \in Nat /\ Cardinality(RolloutsOf(r, s)) \in Nat
  BY <1>2, <1>4, FS_CardinalityType
<1> QED
  BY <1>2, <1>4, <1>5 DEF Count, Successes

\* ... and a finite leaderboard.
LEMMA FiniteRankings ==
  ASSUME NEW r \in Tables, NEW D, IsFiniteSet(D),
         \A i \in Ids : r[i] # NoRow => i \in D
  PROVE  IsFiniteSet(Ranked(r))
<1> DEFINE C == Committed(r)
           T == {r[i].submission : i \in C}
           f == [i \in C |-> r[i].submission]
<1>1. C \in SUBSET D
  BY DEF Committed
<1>2. IsFiniteSet(C)
  BY <1>1, FS_Subset
<1>3. f \in Surjection(C, T)
  BY DEF Surjection
<1>4. IsFiniteSet(T)
  BY <1>2, <1>3, FS_Surjection
<1>5. Ranked(r) \in SUBSET T
  <2> SUFFICES ASSUME NEW s \in Ranked(r)
               PROVE  s \in T
    OBVIOUS
  <2>1. Cardinality(RolloutsOf(r, s)) # 0
    BY FiniteTables DEF Ranked, Count
  <2>2. RolloutsOf(r, s) # {}
    BY <2>1, FS_EmptySet
  <2> QED
    BY <2>2 DEF RolloutsOf
<1> HIDE DEF T
<1> QED
  BY <1>4, <1>5, FS_Subset

\* A table that grows keeps its rollouts.
LEMMA TablesGrow ==
  ASSUME NEW old \in Tables, NEW new \in Tables,
         \A i \in Ids : old[i] # NoRow => new[i] = old[i],
         NEW s
  PROVE  RolloutsOf(old, s) \subseteq RolloutsOf(new, s)
BY DEF RolloutsOf, Committed

\* Nobody is ahead of itself.
LEMMA AheadIrreflexive ==
  ASSUME NEW r, NEW s \in SubmissionIds, Count(r, s) \in Nat, Successes(r, s) \in Nat
  PROVE  ~Ahead(r, s, s)
<1>1. s \in Nat
  BY ResultPagesAssumption
<1>2. Successes(r, s) * Count(r, s) \in Nat
  OBVIOUS
<1> QED
  BY <1>1, <1>2 DEF Ahead, HigherRate
-----------------------------------------------------------------------------
(***************************************************************************)
(* The invariant                                                           *)
(***************************************************************************)
LEMMA NoWalkType == NoWalk \in Walks
<1>1. [i \in Ids |-> NoRow] \in Tables
  BY DEF Tables
<1> QED
  BY <1>1 DEF NoWalk, Walks

\* The invariant holds initially ...
LEMMA InitPInv == ResultsInit => PInv
<1> SUFFICES ASSUME ResultsInit
             PROVE  PInv
  OBVIOUS
<1>1. walk = NoWalk /\ walk.at = "idle" /\ walk.old = [i \in Ids |-> NoRow]
  BY DEF ResultsInit, NoWalk
<1>2. ResultsTypeOK
  BY <1>1, NoWalkType DEF ResultsInit, ResultsTypeOK, Tables
<1>3. RowsStay
  BY <1>1, FS_EmptySet DEF ResultsInit, RowsStay
<1>4. /\ RolloutsSoFar /\ RolloutsCounted /\ SubmissionsSoFar
      /\ SubmissionsCounted /\ LastPageRead
  BY <1>1 DEF RolloutsSoFar, RolloutsCounted, SubmissionsSoFar,
              SubmissionsCounted, LastPageRead, Walking, Counted
<1> QED
  BY <1>2, <1>3, <1>4 DEF PInv

\* ... a step that changes neither the committed rows nor the walk keeps it ...
LEMMA OthersKeepPInv ==
  ASSUME PInv, UNCHANGED <<rollout, walk>>, ResultsTypeOK', RowsStay'
  PROVE  PInv'
<1>1. RolloutsSoFar'
  BY DEF PInv, RolloutsSoFar, Walking, Overtaken, Smaller, PagesRead
<1>2. RolloutsCounted'
  BY DEF PInv, RolloutsCounted, Counted
<1>3. SubmissionsSoFar' /\ SubmissionsCounted'
  BY DEF PInv, SubmissionsSoFar, SubmissionsCounted, Walking, Counted, LeadersAhead, PagesRead
<1>4. LastPageRead'
  BY DEF PInv, LastPageRead
<1> QED
  BY <1>1, <1>2, <1>3, <1>4 DEF PInv

LEMMA InsertKeepsPInv ==
  ASSUME PInv, Insert
  PROVE  PInv'
<1>1. PICK i \in Ids \ drawn, new \in RolloutRows :
        /\ adding' = [adding EXCEPT ![i] = new]
        /\ drawn' = drawn \cup {i}
        /\ UNCHANGED <<rollout, walk>>
  BY DEF Insert
<1>2. ResultsTypeOK'
  BY <1>1 DEF PInv, ResultsTypeOK, Tables
<1>3. IsFiniteSet(drawn')
  BY <1>1, FS_AddElement DEF PInv, RowsStay
<1>4. \A j \in Ids : adding'[j] = IF j = i THEN new ELSE adding[j]
  BY <1>1 DEF PInv, ResultsTypeOK, Tables
<1>5. rollout[i] = NoRow
  BY <1>1 DEF PInv, RowsStay
<1>6. RowsStay'
  BY <1>1, <1>3, <1>4, <1>5 DEF PInv, RowsStay
<1> QED
  BY <1>1, <1>2, <1>6, OthersKeepPInv

LEMMA AbortKeepsPInv ==
  ASSUME PInv, NEW i \in Ids, AbortRollout(i)
  PROVE  PInv'
<1>1. \A j \in Ids : adding'[j] = IF j = i THEN NoRow ELSE adding[j]
  BY DEF AbortRollout, PInv, ResultsTypeOK, Tables
<1>2. ResultsTypeOK'
  BY DEF AbortRollout, PInv, ResultsTypeOK, Tables
<1>3. RowsStay'
  BY <1>1 DEF AbortRollout, PInv, RowsStay
<1> QED
  BY <1>2, <1>3, OthersKeepPInv DEF AbortRollout

\* ... as does a commit, which only adds a row: whoever was on the pages to come
\* still is, as no row before it goes ...
LEMMA CommitKeepsPInv ==
  ASSUME PInv, NEW i \in Ids, Commit(i)
  PROVE  PInv'
<1>1. /\ \A j \in Ids : rollout'[j] = IF j = i THEN adding[i] ELSE rollout[j]
      /\ \A j \in Ids : adding'[j] = IF j = i THEN NoRow ELSE adding[j]
      /\ adding[i] # NoRow /\ rollout[i] = NoRow /\ walk' = walk /\ drawn' = drawn
  BY DEF Commit, PInv, ResultsTypeOK, RowsStay, Tables
<1>2. ResultsTypeOK'
  BY DEF Commit, PInv, ResultsTypeOK, Tables
<1>3. RowsStay'
  BY <1>1 DEF PInv, RowsStay
<1>4. rollout \in Tables /\ rollout' \in Tables /\ walk.old \in Tables
  BY <1>2 DEF PInv, ResultsTypeOK, Walks
<1>5. \A s : RolloutsOf(rollout, s) \subseteq RolloutsOf(rollout', s)
  BY <1>1, <1>4, TablesGrow
<1>6. \A s : IsFiniteSet(RolloutsOf(rollout', s))
  BY <1>3, <1>4, FiniteTables DEF RowsStay
<1>7. RolloutsSoFar'
  <2> SUFFICES ASSUME walk.at # "idle", walk.list = "rollouts",
                      NEW k \in RolloutsOf(walk.old, walk.submission)
               PROVE  \/ k \in walk.seen \/ Overtaken(k)'
                      \/ Cardinality(Smaller(k)') >= PagesRead * Size
    BY <1>1 DEF RolloutsSoFar, Walking, PagesRead
  <2>1. k \in walk.seen \/ Overtaken(k) \/ Cardinality(Smaller(k)) >= PagesRead * Size
    BY DEF PInv, RolloutsSoFar, Walking
  <2>2. Overtaken(k) => Overtaken(k)'
    BY <1>1, <1>5 DEF Overtaken
  <2>3. Smaller(k) \in SUBSET Smaller(k)'
    BY <1>1, <1>5 DEF Smaller
  <2>4. IsFiniteSet(Smaller(k)')
    <3>1. Smaller(k)' \in SUBSET RolloutsOf(rollout', walk'.submission)
      BY DEF Smaller
    <3> QED
      BY <1>6, <3>1, FS_Subset
  <2>5. /\ Cardinality(Smaller(k)) <= Cardinality(Smaller(k)')
        /\ Cardinality(Smaller(k)) \in Nat /\ Cardinality(Smaller(k)') \in Nat
    BY <2>3, <2>4, FS_Subset, FS_CardinalityType
  <2>6. PagesRead * Size \in Int
    BY ResultPagesAssumption DEF PagesRead, PInv, ResultsTypeOK, Walks
  <2> QED
    BY <2>1, <2>2, <2>5, <2>6
<1>8. RolloutsCounted'
  <2>1. /\ Count(rollout, walk.submission) \in Nat
        /\ Count(rollout', walk.submission) \in Nat
        /\ Count(rollout, walk.submission) <= Count(rollout', walk.submission)
    BY <1>5, <1>6, FS_Subset, FS_CardinalityType DEF Count
  <2>2. walk.total \in Nat
    BY DEF PInv, ResultsTypeOK, Walks
  <2> QED
    BY <1>1, <2>1, <2>2 DEF PInv, RolloutsCounted, Counted
<1>9. rollout' # walk.old
  BY <1>1 DEF PInv, RowsStay
<1>10. SubmissionsSoFar' /\ SubmissionsCounted'
  BY <1>1, <1>9 DEF SubmissionsSoFar, SubmissionsCounted
<1>11. LastPageRead'
  BY <1>1 DEF PInv, LastPageRead
<1> QED
  BY <1>2, <1>3, <1>7, <1>8, <1>10, <1>11 DEF PInv
\* The sets whose cardinalities the invariant is about are finite.
LEMMA WalkSetsAreFinite ==
  ASSUME PInv
  PROVE  /\ rollout \in Tables /\ walk.old \in Tables
         /\ \A s : /\ IsFiniteSet(RolloutsOf(rollout, s))
                   /\ IsFiniteSet(RolloutsOf(walk.old, s))
                   /\ RolloutsOf(walk.old, s) \subseteq RolloutsOf(rollout, s)
                   /\ Cardinality(RolloutsOf(walk.old, s)) \in Nat
                   /\ Cardinality(RolloutsOf(walk.old, s)) <= Count(rollout, s)
                   /\ Count(rollout, s) \in Nat
         /\ IsFiniteSet(Ranked(rollout)) /\ IsFiniteSet(Ranked(walk.old))
         /\ \A i : IsFiniteSet(Smaller(i)) /\ Cardinality(Smaller(i)) \in Nat
         /\ \A s : IsFiniteSet(LeadersAhead(s)) /\ Cardinality(LeadersAhead(s)) \in Nat
<1>1. /\ rollout \in Tables /\ walk.old \in Tables /\ IsFiniteSet(drawn)
      /\ \A i \in Ids : rollout[i] # NoRow => i \in drawn
      /\ \A i \in Ids : walk.old[i] # NoRow => i \in drawn
      /\ \A i \in Ids : walk.old[i] # NoRow => rollout[i] = walk.old[i]
  BY DEF PInv, ResultsTypeOK, Walks, RowsStay
<1>2. \A s : IsFiniteSet(RolloutsOf(rollout, s)) /\ IsFiniteSet(RolloutsOf(walk.old, s))
  BY <1>1, FiniteTables
<1>3. \A s : RolloutsOf(walk.old, s) \subseteq RolloutsOf(rollout, s)
  BY <1>1, TablesGrow
<1>4. \A s : /\ Cardinality(RolloutsOf(walk.old, s)) \in Nat
             /\ Cardinality(RolloutsOf(walk.old, s)) <= Count(rollout, s)
             /\ Count(rollout, s) \in Nat
  BY <1>2, <1>3, FS_Subset, FS_CardinalityType DEF Count
<1>5. IsFiniteSet(Ranked(rollout)) /\ IsFiniteSet(Ranked(walk.old))
  BY <1>1, FiniteRankings
<1>6. ASSUME NEW i
      PROVE  IsFiniteSet(Smaller(i)) /\ Cardinality(Smaller(i)) \in Nat
  <2>1. Smaller(i) \in SUBSET RolloutsOf(rollout, walk.submission)
    BY DEF Smaller
  <2> QED
    BY <1>2, <2>1, FS_Subset, FS_CardinalityType
<1>7. ASSUME NEW s
      PROVE  IsFiniteSet(LeadersAhead(s)) /\ Cardinality(LeadersAhead(s)) \in Nat
  <2>1. LeadersAhead(s) \in SUBSET Ranked(walk.old)
    BY DEF LeadersAhead
  <2> QED
    BY <1>5, <2>1, FS_Subset, FS_CardinalityType
<1> QED
  BY <1>1, <1>2, <1>3, <1>4, <1>5, <1>6, <1>7

\* A step of the walk leaves the rows alone.
LEMMA WalkKeepsRows ==
  ASSUME PInv, UNCHANGED <<rollout, adding, drawn>>, walk' \in Walks,
         walk'.old \in {walk.old, rollout}
  PROVE  ResultsTypeOK' /\ RowsStay'
<1>1. ResultsTypeOK'
  BY DEF PInv, ResultsTypeOK
<1>2. RowsStay'
  BY DEF PInv, RowsStay
<1> QED
  BY <1>1, <1>2

\* A walk begins with nothing read ...
LEMMA OpenKeepsPInv ==
  ASSUME PInv, Open
  PROVE  PInv'
<1>1. PICK l \in {"leaderboard", "rollouts"}, s \in SubmissionIds :
        walk' = [NoWalk EXCEPT !.list = l, !.submission = s, !.at = "count",
                               !.page = 1, !.old = rollout]
  BY DEF Open
<1>2. UNCHANGED <<rollout, adding, drawn>>
  BY DEF Open
<1>3. /\ walk' \in Walks
      /\ walk'.at = "count" /\ walk'.page = 1 /\ walk'.old = rollout
  <2>1. NoWalk \in Walks /\ rollout \in Tables
    BY NoWalkType DEF PInv, ResultsTypeOK
  <2> QED
    BY <1>1, <2>1 DEF Walks
<1>4. ResultsTypeOK' /\ RowsStay'
  BY <1>2, <1>3, WalkKeepsRows
<1>5. PagesRead' = 0 /\ 0 * Size = 0
  BY <1>3, ResultPagesAssumption DEF PagesRead
<1>6. rollout \in Tables /\ IsFiniteSet(drawn) /\ \A i \in Ids : rollout[i] # NoRow => i \in drawn
  BY DEF PInv, ResultsTypeOK, RowsStay
<1>7. \A i : Cardinality(Smaller(i)') \in Nat
  <2> TAKE i
  <2>1. Smaller(i)' \in SUBSET RolloutsOf(rollout, walk'.submission)
    BY <1>2 DEF Smaller
  <2> QED
    BY <1>6, <2>1, FiniteTables, FS_Subset, FS_CardinalityType
<1>8. \A t : Cardinality(LeadersAhead(t)') \in Nat
  <2> TAKE t
  <2>1. LeadersAhead(t)' \in SUBSET Ranked(rollout)
    BY <1>3 DEF LeadersAhead
  <2> QED
    BY <1>6, <2>1, FiniteRankings, FS_Subset, FS_CardinalityType
<1>9. RolloutsSoFar'
  BY <1>5, <1>7 DEF RolloutsSoFar
<1>10. SubmissionsSoFar'
  BY <1>5, <1>8 DEF SubmissionsSoFar
<1>11. RolloutsCounted' /\ SubmissionsCounted' /\ LastPageRead'
  BY <1>3 DEF RolloutsCounted, SubmissionsCounted, LastPageRead, Counted
<1> QED
  BY <1>4, <1>9, <1>10, <1>11 DEF PInv

\* ... counts ...
LEMMA CountKeepsPInv ==
  ASSUME PInv, CountRows
  PROVE  PInv'
<1> DEFINE n == Cardinality(Listed(rollout))
<1>1. /\ UNCHANGED <<rollout, adding, drawn>> /\ walk.at = "count"
      /\ walk' = [walk EXCEPT !.at = "read", !.total = n] /\ walk \in Walks
  BY DEF CountRows, PInv, ResultsTypeOK
<1>2. Listed(rollout) = IF walk.list = "leaderboard" THEN Ranked(rollout)
                        ELSE RolloutsOf(rollout, walk.submission)
  BY DEF Listed
<1>3. n \in Nat
  BY <1>2, WalkSetsAreFinite, FS_CardinalityType
<1> HIDE DEF n
<1>4. /\ walk' \in Walks
      /\ walk'.at = "read" /\ walk'.total = n /\ walk'.list = walk.list
      /\ walk'.submission = walk.submission /\ walk'.page = walk.page
      /\ walk'.seen = walk.seen /\ walk'.old = walk.old
  BY <1>1, <1>3 DEF Walks
<1>5. ResultsTypeOK' /\ RowsStay'
  BY <1>1, <1>4, WalkKeepsRows
<1>6. PagesRead' = PagesRead
  BY <1>1, <1>4 DEF PagesRead
<1>7. RolloutsSoFar'
  BY <1>1, <1>4, <1>6 DEF PInv, RolloutsSoFar, Walking, Overtaken, Smaller
<1>8. SubmissionsSoFar'
  BY <1>1, <1>4, <1>6 DEF PInv, SubmissionsSoFar, Walking, LeadersAhead
<1>9. RolloutsCounted'
  <2> SUFFICES ASSUME walk.list = "rollouts"
               PROVE  /\ Cardinality(RolloutsOf(walk.old, walk.submission)) <= n
                      /\ n <= Count(rollout, walk.submission)
    BY <1>1, <1>4 DEF RolloutsCounted, Counted
  <2>1. n = Count(rollout, walk.submission)
    BY <1>2 DEF n, Count
  <2> QED
    BY <2>1, WalkSetsAreFinite
<1>10. SubmissionsCounted'
  BY <1>1, <1>2, <1>4 DEF SubmissionsCounted, n
<1>11. LastPageRead'
  BY <1>4 DEF LastPageRead
<1> QED
  BY <1>5, <1>7, <1>8, <1>9, <1>10, <1>11 DEF PInv

\* ... reads the page: who was on the pages to come is on it or still to come ...
LEMMA ReadKeepsPInv ==
  ASSUME PInv, ReadRows
  PROVE  PInv'
<1> DEFINE at == IF walk.list = "rollouts" THEN "statistics" ELSE "shown"
           seen == walk.seen \cup Page(rollout, walk.page)
<1>1. /\ UNCHANGED <<rollout, adding, drawn>> /\ walk.at = "read" /\ walk \in Walks
      /\ walk' = [walk EXCEPT !.seen = seen, !.at = at]
  BY DEF ReadRows, PInv, ResultsTypeOK
<1>2. seen \in SUBSET (Ids \cup SubmissionIds)
  BY <1>1 DEF Page, Listed, Ranked, RolloutsOf, Committed, Walks
<1>3. at \in {"statistics", "shown"} /\ (walk.list = "rollouts" => at = "statistics")
  OBVIOUS
<1>4. seen = walk.seen \cup Page(rollout, walk.page)
  OBVIOUS
<1> HIDE DEF at, seen
<1>5. /\ walk' \in Walks
      /\ walk'.at = at /\ walk'.total = walk.total /\ walk'.list = walk.list
      /\ walk'.submission = walk.submission /\ walk'.page = walk.page
      /\ walk'.seen = seen /\ walk'.old = walk.old /\ walk'.count = walk.count
  BY <1>1, <1>2, <1>3 DEF Walks
<1>6. ResultsTypeOK' /\ RowsStay'
  BY <1>1, <1>5, WalkKeepsRows
<1>7. /\ PagesRead' = walk.page /\ PagesRead = walk.page - 1
      /\ walk.page \in Nat /\ Size \in Nat
      /\ walk.page * Size \in Int /\ (walk.page - 1) * Size \in Int
  BY <1>1, <1>3, <1>5, ResultPagesAssumption DEF PagesRead, Walks
<1>8. RolloutsSoFar'
  <2> SUFFICES ASSUME walk.list = "rollouts",
                      NEW i \in RolloutsOf(walk.old, walk.submission),
                      ~Overtaken(i), Cardinality(Smaller(i)) < walk.page * Size
               PROVE  i \in seen
    <3>1. \A i : (Overtaken(i)' <=> Overtaken(i)) /\ Smaller(i)' = Smaller(i)
      BY <1>1, <1>5 DEF Overtaken, Smaller
    <3>2. \A i : Cardinality(Smaller(i)) \in Nat
      BY WalkSetsAreFinite
    <3>3. \A i : ~(Cardinality(Smaller(i)) < walk.page * Size)
                  => Cardinality(Smaller(i)) >= walk.page * Size
      BY <1>7, <3>2
    <3> QED
      BY <1>5, <1>7, <3>1, <3>3 DEF RolloutsSoFar
  <2>1. CASE i \in walk.seen
    BY <2>1, <1>4
  <2>2. CASE i \notin walk.seen
    <3>1. Cardinality(Smaller(i)) >= (walk.page - 1) * Size
      BY <1>1, <1>7, <2>2 DEF PInv, RolloutsSoFar, Walking
    <3>2. i \in Listed(rollout) /\ Before(rollout, i) = Smaller(i)
      BY WalkSetsAreFinite DEF Listed, Before, Smaller
    <3>3. Cardinality(Smaller(i)) \in (walk.page - 1) * Size .. walk.page * Size - 1
      BY <1>7, <3>1, WalkSetsAreFinite
    <3> QED
      BY <1>4, <3>2, <3>3 DEF Page
  <2> QED
    BY <2>1, <2>2
<1>9. SubmissionsSoFar'
  <2> SUFFICES ASSUME walk.list = "leaderboard", rollout = walk.old,
                      NEW s \in Ranked(walk.old),
                      Cardinality(LeadersAhead(s)) < walk.page * Size
               PROVE  s \in seen
    <3>1. \A s : LeadersAhead(s)' = LeadersAhead(s)
      BY <1>5 DEF LeadersAhead
    <3>2. \A s : Cardinality(LeadersAhead(s)) \in Nat
      BY WalkSetsAreFinite
    <3>3. \A s : ~(Cardinality(LeadersAhead(s)) < walk.page * Size)
                  => Cardinality(LeadersAhead(s)) >= walk.page * Size
      BY <1>7, <3>2
    <3> QED
      BY <1>1, <1>5, <1>7, <3>1, <3>3 DEF SubmissionsSoFar
  <2>1. CASE s \in walk.seen
    BY <2>1, <1>4
  <2>2. CASE s \notin walk.seen
    <3>1. Cardinality(LeadersAhead(s)) >= (walk.page - 1) * Size
      BY <1>1, <1>7, <2>2 DEF PInv, SubmissionsSoFar, Walking
    <3>2. s \in Listed(rollout) /\ Before(rollout, s) = LeadersAhead(s)
      BY DEF Listed, Before, LeadersAhead
    <3>3. Cardinality(LeadersAhead(s)) \in (walk.page - 1) * Size .. walk.page * Size - 1
      BY <1>7, <3>1, WalkSetsAreFinite
    <3> QED
      BY <1>4, <3>2, <3>3 DEF Page
  <2> QED
    BY <2>1, <2>2
<1>10. RolloutsCounted'
  BY <1>1, <1>3, <1>5 DEF PInv, RolloutsCounted, Counted
<1>11. SubmissionsCounted'
  BY <1>1, <1>5 DEF PInv, SubmissionsCounted, Counted
<1>12. LastPageRead'
  BY <1>3, <1>5 DEF LastPageRead
<1> QED
  BY <1>6, <1>8, <1>9, <1>10, <1>11, <1>12 DEF PInv
\* ... reads the statistics of the submission, which count what has come in
\* since the list was counted, too ...
LEMMA StatisticsKeepPInv ==
  ASSUME PInv, ReadStatistics
  PROVE  PInv'
<1> DEFINE n == Count(rollout, walk.submission)
<1>1. /\ UNCHANGED <<rollout, adding, drawn>> /\ walk.at = "statistics" /\ walk \in Walks
      /\ walk' = [walk EXCEPT !.at = "shown", !.count = n]
  BY DEF ReadStatistics, PInv, ResultsTypeOK
<1>2. n \in Nat
  BY WalkSetsAreFinite
<1>3. n = Count(rollout, walk.submission)
  OBVIOUS
<1> HIDE DEF n
<1>4. /\ walk' \in Walks
      /\ walk'.at = "shown" /\ walk'.total = walk.total /\ walk'.list = walk.list
      /\ walk'.submission = walk.submission /\ walk'.page = walk.page
      /\ walk'.seen = walk.seen /\ walk'.old = walk.old /\ walk'.count = n
  BY <1>1, <1>2 DEF Walks
<1>5. ResultsTypeOK' /\ RowsStay'
  BY <1>1, <1>4, WalkKeepsRows
<1>6. PagesRead' = PagesRead
  BY <1>1, <1>4 DEF PagesRead
<1>7. RolloutsSoFar'
  BY <1>1, <1>4, <1>6 DEF PInv, RolloutsSoFar, Walking, Overtaken, Smaller
<1>8. SubmissionsSoFar'
  BY <1>1, <1>4, <1>6 DEF PInv, SubmissionsSoFar, Walking, LeadersAhead
<1>9. RolloutsCounted'
  BY <1>1, <1>3, <1>4 DEF PInv, RolloutsCounted, Counted
<1>10. SubmissionsCounted'
  BY <1>1, <1>4 DEF PInv, SubmissionsCounted, Counted
<1>11. LastPageRead'
  BY <1>4 DEF LastPageRead
<1> QED
  BY <1>5, <1>7, <1>8, <1>9, <1>10, <1>11 DEF PInv

\* ... and goes on, or stops when all that was counted has been on a page.
LEMMA NextPageKeepsPInv ==
  ASSUME PInv, NextPage
  PROVE  PInv'
<1>1. /\ UNCHANGED <<rollout, adding, drawn>> /\ walk.at = "shown" /\ walk \in Walks
      /\ walk' = IF More THEN [walk EXCEPT !.at = "count", !.page = @ + 1]
                 ELSE [walk EXCEPT !.at = "done"]
  BY DEF NextPage, PInv, ResultsTypeOK
<1>2. /\ walk' \in Walks
      /\ walk'.at = (IF More THEN "count" ELSE "done")
      /\ walk'.page = (IF More THEN walk.page + 1 ELSE walk.page)
      /\ walk'.total = walk.total /\ walk'.list = walk.list
      /\ walk'.submission = walk.submission
      /\ walk'.seen = walk.seen /\ walk'.old = walk.old /\ walk'.count = walk.count
  <2>1. CASE More
    <3>1. walk.page \in Nat /\ walk.page + 1 \in Nat
      BY <1>1 DEF Walks
    <3> DEFINE next == walk.page + 1
    <3>2. walk' = [walk EXCEPT !.at = "count", !.page = next]
      BY <1>1, <2>1
    <3>3. next \in Nat
      BY <3>1
    <3> HIDE DEF next
    <3>4. /\ walk' \in Walks /\ walk'.at = "count" /\ walk'.page = next
          /\ walk'.total = walk.total /\ walk'.list = walk.list
          /\ walk'.submission = walk.submission
          /\ walk'.seen = walk.seen /\ walk'.old = walk.old /\ walk'.count = walk.count
      BY <1>1, <3>2, <3>3 DEF Walks
    <3> QED
      BY <2>1, <3>4 DEF next
  <2>2. CASE ~More
    BY <1>1, <2>2 DEF Walks
  <2> QED
    BY <2>1, <2>2
<1>3. ResultsTypeOK' /\ RowsStay'
  BY <1>1, <1>2, WalkKeepsRows
<1>4. PagesRead' = PagesRead
  BY <1>1, <1>2 DEF PagesRead, Walks
<1>5. RolloutsSoFar'
  BY <1>1, <1>2, <1>4 DEF PInv, RolloutsSoFar, Walking, Overtaken, Smaller
<1>6. SubmissionsSoFar'
  BY <1>1, <1>2, <1>4 DEF PInv, SubmissionsSoFar, Walking, LeadersAhead
<1>7. RolloutsCounted'
  BY <1>1, <1>2 DEF PInv, RolloutsCounted, Counted
<1>8. SubmissionsCounted'
  BY <1>1, <1>2 DEF PInv, SubmissionsCounted, Counted
<1>9. LastPageRead'
  <2> SUFFICES ASSUME ~More
               PROVE  walk.total <= walk.page * Size
    BY <1>2 DEF LastPageRead
  <2>1. walk.page * Size \in Int /\ walk.total \in Int
    BY <1>1, ResultPagesAssumption DEF Walks
  <2> QED
    BY <2>1 DEF More
<1> QED
  BY <1>3, <1>5, <1>6, <1>7, <1>8, <1>9 DEF PInv

LEMMA NextPInv == PInv /\ [ResultsNext]_resultsVars => PInv'
<1> SUFFICES ASSUME PInv, [ResultsNext]_resultsVars
             PROVE  PInv'
  OBVIOUS
<1>1. CASE UNCHANGED resultsVars
  <2>1. ResultsTypeOK' /\ RowsStay' /\ UNCHANGED <<rollout, walk>>
    BY <1>1 DEF resultsVars, PInv, ResultsTypeOK, RowsStay
  <2> QED
    BY <2>1, OthersKeepPInv
<1>2. CASE Insert
  BY <1>2, InsertKeepsPInv
<1>3. CASE Open
  BY <1>3, OpenKeepsPInv
<1>4. CASE CountRows
  BY <1>4, CountKeepsPInv
<1>5. CASE ReadRows
  BY <1>5, ReadKeepsPInv
<1>6. CASE ReadStatistics
  BY <1>6, StatisticsKeepPInv
<1>7. CASE NextPage
  BY <1>7, NextPageKeepsPInv
<1>8. ASSUME NEW i \in Ids, Commit(i) \/ AbortRollout(i)
      PROVE  PInv'
  BY <1>8, CommitKeepsPInv, AbortKeepsPInv
<1> QED
  BY <1>1, <1>2, <1>3, <1>4, <1>5, <1>6, <1>7, <1>8 DEF ResultsNext

\* The inductive invariant of the pages: whoever has not been seen is on the
\* pages to come, or has been overtaken.
THEOREM PagesInvariant == ResultsSpec => []PInv
<1> QED
  BY InitPInv, NextPInv, PTL DEF ResultsSpec

\* A walk through all pages misses a rollout only if one with a smaller id was
\* committed late, and a submission only if a result came in; and the count
\* above a list of rollouts covers the list (paginate, list_rollouts_page).
THEOREM PagesShowWhatWasThereAlways == ResultsSpec => []PagesShowWhatWasThere
<1>1. ASSUME PInv
      PROVE  MissedRolloutsWereOvertaken
  <2> SUFFICES ASSUME walk.at = "done", walk.list = "rollouts",
                      NEW i \in RolloutsOf(walk.old, walk.submission) \ walk.seen,
                      ~Overtaken(i)
               PROVE  FALSE
    BY DEF MissedRolloutsWereOvertaken, Overtaken
  <2> DEFINE old == RolloutsOf(walk.old, walk.submission)
  <2>1. Cardinality(Smaller(i)) >= walk.page * Size
    BY <1>1 DEF PInv, RolloutsSoFar, Walking, PagesRead
  <2>2. Cardinality(old) <= walk.total /\ walk.total <= walk.page * Size
    BY <1>1 DEF PInv, RolloutsCounted, Counted, LastPageRead
  <2>3. Smaller(i) \in SUBSET (old \ {i})
    <3> SUFFICES ASSUME NEW j \in Smaller(i)
                 PROVE  j \in old \ {i}
      OBVIOUS
    <3>1. /\ j \in Ids /\ rollout[j].submission = walk.submission
          /\ j < i /\ walk.old[j] # NoRow
      BY DEF Smaller, Overtaken, RolloutsOf, Committed
    <3>2. rollout[j] = walk.old[j]
      BY <1>1, <3>1 DEF PInv, RowsStay
    <3>3. j # i
      BY <3>1, ResultPagesAssumption
    <3> QED
      BY <3>1, <3>2, <3>3 DEF RolloutsOf, Committed
  <2>4. IsFiniteSet(old) /\ Cardinality(old) \in Nat /\ i \in old
    BY <1>1, WalkSetsAreFinite
  <2> HIDE DEF old
  <2>5. IsFiniteSet(old \ {i}) /\ Cardinality(old \ {i}) = Cardinality(old) - 1
    BY <2>4, FS_RemoveElement
  <2>6. Cardinality(Smaller(i)) <= Cardinality(old) - 1 /\ Cardinality(Smaller(i)) \in Nat
    BY <1>1, <2>3, <2>5, FS_Subset, WalkSetsAreFinite
  <2>7. walk.total \in Nat /\ walk.page * Size \in Int
    BY <1>1, ResultPagesAssumption DEF PInv, ResultsTypeOK, Walks
  <2> QED
    BY <2>1, <2>2, <2>4, <2>6, <2>7
<1>2. ASSUME PInv
      PROVE  MissedSubmissionsMeanNews
  <2> SUFFICES ASSUME walk.at = "done", walk.list = "leaderboard", rollout = walk.old,
                      NEW s \in Ranked(walk.old), s \notin walk.seen
               PROVE  FALSE
    BY DEF MissedSubmissionsMeanNews
  <2> DEFINE old == Ranked(walk.old)
  <2>1. Cardinality(LeadersAhead(s)) >= walk.page * Size
    BY <1>2 DEF PInv, SubmissionsSoFar, Walking, PagesRead
  <2>2. Cardinality(old) = walk.total /\ walk.total <= walk.page * Size
    BY <1>2 DEF PInv, SubmissionsCounted, Counted, LastPageRead
  <2>3. Count(walk.old, s) \in Nat /\ Successes(walk.old, s) \in Nat /\ s \in SubmissionIds
    BY <1>2, FiniteTables DEF PInv, ResultsTypeOK, RowsStay, Ranked
  <2>4. LeadersAhead(s) \in SUBSET (old \ {s})
    BY <2>3, AheadIrreflexive DEF LeadersAhead
  <2>5. IsFiniteSet(old) /\ Cardinality(old) \in Nat /\ s \in old
    BY <1>2, WalkSetsAreFinite, FS_CardinalityType
  <2> HIDE DEF old
  <2>6. IsFiniteSet(old \ {s}) /\ Cardinality(old \ {s}) = Cardinality(old) - 1
    BY <2>5, FS_RemoveElement
  <2>7. Cardinality(LeadersAhead(s)) <= Cardinality(old) - 1
    BY <2>4, <2>6, FS_Subset
  <2>8. /\ walk.total \in Nat /\ walk.page * Size \in Int
        /\ Cardinality(LeadersAhead(s)) \in Nat
    BY <1>2, ResultPagesAssumption, WalkSetsAreFinite DEF PInv, ResultsTypeOK, Walks
  <2> QED
    BY <2>1, <2>2, <2>5, <2>7, <2>8
<1>3. ASSUME PInv
      PROVE  StatisticsCoverTheList
  BY <1>3 DEF StatisticsCoverTheList, PInv, RolloutsCounted, Counted, ResultsTypeOK, Walks
<1>4. PInv => PagesShowWhatWasThere
  BY <1>1, <1>2, <1>3 DEF PagesShowWhatWasThere
<1> QED
  BY <1>4, PagesInvariant, PTL
-----------------------------------------------------------------------------
(***************************************************************************)
(* The ranking: a of b rollouts of s were successes, and c of d of t.      *)
(***************************************************************************)
\* One more success raises a rate, or leaves it at all successes.
LEMMA OneMoreSuccess ==
  ASSUME NEW a \in Nat, NEW b \in Nat, NEW c \in Nat, NEW d \in Nat,
         a <= b, c <= d, d > 0
  PROVE  /\ a * d > c * b => (a + 1) * d > c * (b + 1)
         /\ a * d = c * b /\ c < d => (a + 1) * d > c * (b + 1)
         /\ a * d = c * b /\ c = d => (a + 1) * d = c * (b + 1)
<1> DEFINE x == a * d
           y == c * b
<1>1. x \in Nat /\ y \in Nat
  OBVIOUS
<1>2. (a + 1) * d = x + d /\ c * (b + 1) = y + c
  OBVIOUS
<1> HIDE DEF x, y
<1>3. /\ x > y => x + d > y + c
      /\ x = y /\ c < d => x + d > y + c
      /\ x = y /\ c = d => x + d = y + c
  BY <1>1
<1> QED
  BY <1>2, <1>3 DEF x, y

\* One more failure wins a place only from nothing, against nothing.
LEMMA OneMoreFailure ==
  ASSUME NEW a \in Nat, NEW b \in Nat, NEW c \in Nat, NEW d \in Nat,
         d > 0, c * b >= a * d, a * d >= c * (b + 1)
  PROVE  a = 0 /\ c = 0
<1> DEFINE x == a * d
           y == c * b
<1>1. x \in Nat /\ y \in Nat
  OBVIOUS
<1>2. c * (b + 1) = y + c
  OBVIOUS
<1>3. c = 0 /\ x <= y
  <2>1. y >= x /\ x >= y + c
    BY <1>2
  <2> HIDE DEF x, y
  <2> QED
    BY <1>1, <2>1
<1>4. y = 0
  BY <1>3
<1>5. x = 0
  BY <1>1, <1>3, <1>4
<1>6. a > 0 => a * d > 0
  OBVIOUS
<1> QED
  BY <1>3, <1>5, <1>6

\* A step that adds a result of s changes the rollouts of s by that one, and
\* those of nobody else.
LEMMA AddedResult ==
  ASSUME PInv, [ResultsNext]_resultsVars, NEW s \in SubmissionIds,
         NEW success \in BOOLEAN, Adds(s, success)
  PROVE  /\ Count(rollout', s) = Count(rollout, s) + 1
         /\ Successes(rollout', s) = Successes(rollout, s) + (IF success THEN 1 ELSE 0)
         /\ \A t : t # s => /\ Count(rollout', t) = Count(rollout, t)
                            /\ Successes(rollout', t) = Successes(rollout, t)
<1>1. PICK i \in Ids : /\ rollout[i] = NoRow
                       /\ rollout'[i] = [submission |-> s, success |-> success]
  BY DEF Adds
<1>2. rollout'[i] \in RolloutRows /\ rollout'[i] # NoRow
  BY <1>1, ResultPagesAssumption DEF RolloutRows
<1>3. Commit(i)
  <2>1. \E k \in Ids : Commit(k)
    BY <1>1, <1>2 DEF ResultsNext, Insert, Open, CountRows, ReadRows, ReadStatistics,
                      NextPage, AbortRollout, resultsVars
  <2>2. PICK k \in Ids : Commit(k)
    BY <2>1
  <2>3. k = i
    BY <1>1, <1>2, <2>2 DEF Commit, PInv, ResultsTypeOK, Tables
  <2> QED
    BY <2>2, <2>3
<1>4. \A j \in Ids : rollout'[j] = IF j = i THEN rollout'[i] ELSE rollout[j]
  BY <1>3 DEF Commit, PInv, ResultsTypeOK, Tables
<1>5. ASSUME NEW t
      PROVE  RolloutsOf(rollout', t)
               = IF t = s THEN RolloutsOf(rollout, t) \cup {i} ELSE RolloutsOf(rollout, t)
  BY <1>1, <1>2, <1>4 DEF RolloutsOf, Committed
<1>6. \A t : i \notin RolloutsOf(rollout, t) /\ IsFiniteSet(RolloutsOf(rollout, t))
  BY <1>1, WalkSetsAreFinite DEF RolloutsOf, Committed
<1>7. Count(rollout', s) = Count(rollout, s) + 1
  BY <1>5, <1>6, FS_AddElement DEF Count
<1> DEFINE Good(r, t) == {j \in RolloutsOf(r, t) : r[j].success}
<1>8. ASSUME NEW t
      PROVE  Good(rollout', t)
               = IF t = s /\ success THEN Good(rollout, t) \cup {i} ELSE Good(rollout, t)
  <2>1. \A j \in RolloutsOf(rollout, t) : rollout'[j] = rollout[j]
    BY <1>4, <1>6 DEF RolloutsOf, Committed
  <2>2. rollout'[i].success = success
    BY <1>1
  <2> QED
    BY <1>5, <1>6, <2>1, <2>2
<1>9. \A t : i \notin Good(rollout, t) /\ IsFiniteSet(Good(rollout, t))
  <2> TAKE t
  <2>1. Good(rollout, t) \in SUBSET RolloutsOf(rollout, t)
    OBVIOUS
  <2> QED
    BY <1>6, <2>1, FS_Subset
<1>10. \A r, t : Successes(r, t) = Cardinality(Good(r, t))
  BY DEF Successes
<1> HIDE DEF Good
<1>11. Successes(rollout', s) = Successes(rollout, s) + (IF success THEN 1 ELSE 0)
  <2>1. CASE success
    BY <1>8, <1>9, <1>10, <2>1, FS_AddElement
  <2>2. CASE ~success
    <3>1. Successes(rollout', s) = Successes(rollout, s)
      BY <1>8, <1>10, <2>2
    <3>2. Successes(rollout, s) \in Nat
      BY <1>9, <1>10, FS_CardinalityType
    <3> QED
      BY <2>2, <3>1, <3>2
  <2> QED
    BY <2>1, <2>2
<1>12. \A t : t # s => /\ Count(rollout', t) = Count(rollout, t)
                       /\ Successes(rollout', t) = Successes(rollout, t)
  BY <1>5, <1>8, <1>10 DEF Count
<1> QED
  BY <1>7, <1>11, <1>12

\* For any tables of rollouts: one more success costs a submission no place,
\* and one more failure wins it one only from a submission without a success
\* (the order of get_paginated_top_submissions_by_task_id).
THEOREM ResultsMoveTheRankingAlways == ResultsSpec => ResultsMoveTheRanking
<1> DEFINE Keeps == \A s \in Ranked(rollout), t \in Ranked(rollout) :
                      Adds(s, TRUE) /\ Ahead(rollout, s, t) => Ahead(rollout', s, t)
           Gains == \A s \in Ranked(rollout), t \in Ranked(rollout) :
                      Adds(s, FALSE) /\ Ahead(rollout, t, s) /\ Ahead(rollout', s, t)
                        => Successes(rollout, s) = 0 /\ Successes(rollout, t) = 0
<1>1. ASSUME PInv, NEW s \in Ranked(rollout)
      PROVE  /\ s \in SubmissionIds /\ s \in Nat
             /\ Count(rollout, s) \in Nat /\ Count(rollout, s) > 0
             /\ Successes(rollout, s) \in Nat
             /\ Successes(rollout, s) <= Count(rollout, s)
             /\ ~Ahead(rollout, s, s)
  <2>1. s \in SubmissionIds /\ s \in Nat /\ Count(rollout, s) > 0
    BY ResultPagesAssumption DEF Ranked
  <2>2. /\ Count(rollout, s) \in Nat /\ Successes(rollout, s) \in Nat
        /\ Successes(rollout, s) <= Count(rollout, s)
    BY <1>1, FiniteTables DEF PInv, ResultsTypeOK, RowsStay
  <2> QED
    BY <2>1, <2>2, AheadIrreflexive
<1>2. ASSUME PInv, [ResultsNext]_resultsVars
      PROVE  Keeps
  <2> SUFFICES ASSUME NEW s \in Ranked(rollout), NEW t \in Ranked(rollout),
                      Adds(s, TRUE), Ahead(rollout, s, t)
               PROVE  Ahead(rollout', s, t)
    OBVIOUS
  <2> DEFINE a == Successes(rollout, s)
             b == Count(rollout, s)
             c == Successes(rollout, t)
             d == Count(rollout, t)
  <2>1. t # s
    BY <1>1, <1>2
  <2>2. /\ Count(rollout', s) = b + 1 /\ Successes(rollout', s) = a + 1
        /\ Count(rollout', t) = d /\ Successes(rollout', t) = c
    BY <1>1, <1>2, <2>1, AddedResult
  <2>3. /\ a \in Nat /\ b \in Nat /\ c \in Nat /\ d \in Nat
        /\ a <= b /\ c <= d /\ d > 0 /\ s \in Nat /\ t \in Nat
    BY <1>1, <1>2
  <2>4. \/ a * d > c * b
        \/ a * d = c * b /\ (b > d \/ (b = d /\ s < t))
    <3> DEFINE x == a * d
               y == c * b
    <3>1. x \in Nat /\ y \in Nat
      BY <2>3
    <3>2. /\ HigherRate(rollout, s, t) <=> x > y
          /\ HigherRate(rollout, t, s) <=> y > x
      BY DEF HigherRate
    <3>3. \/ HigherRate(rollout, s, t)
          \/ /\ ~HigherRate(rollout, s, t) /\ ~HigherRate(rollout, t, s)
             /\ b > d \/ (b = d /\ s < t)
      BY DEF Ahead
    <3> HIDE DEF x, y
    <3>4. x > y \/ (x = y /\ (b > d \/ (b = d /\ s < t)))
      BY <3>1, <3>2, <3>3
    <3> QED
      BY <3>4 DEF x, y
  <2>5. /\ HigherRate(rollout', s, t) <=> (a + 1) * d > c * (b + 1)
        /\ HigherRate(rollout', t, s) <=> c * (b + 1) > (a + 1) * d
    BY <2>2 DEF HigherRate
  <2> HIDE DEF a, b, c, d
  <2>6. CASE a * d > c * b \/ (a * d = c * b /\ c < d)
    BY <2>3, <2>5, <2>6, OneMoreSuccess DEF Ahead
  <2>7. CASE a * d = c * b /\ c = d /\ b >= d
    <3>1. (a + 1) * d = c * (b + 1) /\ c * (b + 1) \in Nat
      BY <2>3, <2>7, OneMoreSuccess
    <3>2. ~HigherRate(rollout', s, t) /\ ~HigherRate(rollout', t, s)
      BY <2>5, <3>1
    <3>3. b + 1 > d
      BY <2>3, <2>7
    <3> QED
      BY <2>2, <3>2, <3>3 DEF Ahead
  <2> QED
    BY <2>3, <2>4, <2>6, <2>7
<1>3. ASSUME PInv, [ResultsNext]_resultsVars
      PROVE  Gains
  <2> SUFFICES ASSUME NEW s \in Ranked(rollout), NEW t \in Ranked(rollout),
                      Adds(s, FALSE), Ahead(rollout, t, s), Ahead(rollout', s, t)
               PROVE  Successes(rollout, s) = 0 /\ Successes(rollout, t) = 0
    OBVIOUS
  <2> DEFINE a == Successes(rollout, s)
             b == Count(rollout, s)
             c == Successes(rollout, t)
             d == Count(rollout, t)
  <2>1. t # s
    BY <1>1, <1>3
  <2>2. /\ a \in Nat /\ b \in Nat /\ c \in Nat /\ d \in Nat /\ d > 0
    BY <1>1, <1>3
  <2>3. /\ Count(rollout', s) = b + 1 /\ Successes(rollout', s) = a
        /\ Count(rollout', t) = d /\ Successes(rollout', t) = c
    <3>1. /\ Count(rollout', s) = b + 1 /\ Successes(rollout', s) = a + 0
          /\ Count(rollout', t) = d /\ Successes(rollout', t) = c
      BY <1>1, <1>3, <2>1, AddedResult
    <3>2. a + 0 = a
      BY <2>2
    <3> QED
      BY <3>1, <3>2
  <2>4. c * b >= a * d
    <3>1. a * d \in Nat /\ c * b \in Nat
      BY <2>2
    <3> QED
      BY <3>1 DEF Ahead, HigherRate
  <2>5. a * d >= c * (b + 1)
    <3>1. a * d \in Nat /\ c * (b + 1) \in Nat
      BY <2>2
    <3> QED
      BY <2>3, <3>1 DEF Ahead, HigherRate
  <2> HIDE DEF a, b, c, d
  <2>6. a = 0 /\ c = 0
    BY <2>2, <2>4, <2>5, OneMoreFailure
  <2> QED
    BY <2>6 DEF a, c
<1>4. PInv /\ [ResultsNext]_resultsVars => [Keeps]_resultsVars /\ [Gains]_resultsVars
  BY <1>2, <1>3
<1> QED
  BY <1>4, PagesInvariant, PTL
     DEF ResultsSpec, ResultsMoveTheRanking, SuccessNeverLosesGround,
         FailureGainsOnlyWithoutSuccess
-----------------------------------------------------------------------------
(***************************************************************************)
(* The runner protocol                                                     *)
(***************************************************************************)
\* The transactions that are open have locked different jobs.
JobsLockedOnce == \A p, q \in open : p.job = q.job => p = q

\* What a transaction has found under its lock is still so: the job is ready,
\* or claimed by its runner.
FoundStaysTrue ==
  \A q \in open :
    IF q.op = "claim" THEN state[q.job] = "ready" ELSE ClaimedBy(q.job, q.by)

\* A request that a runner waits for is the one that it has sent last, about
\* the job that it is busy with.
AwaitedIsLast ==
  \A q \in sent \cup open :
    /\ q.n <= runner[q.by].n
    /\ Awaited(q) => IF q.op = "claim" THEN runner[q.by].at = "asking"
                     ELSE runner[q.by].at = "reporting" /\ runner[q.by].job = q.job

\* What is claimed, and what is under way, is with a key that exists.
ClaimsHaveAKey == \A j \in Jobs : state[j] = "claimed" => owner[j] \in keys
RequestsHaveAKey == \A q \in open : q.by \in keys

\* Reports, and runners that will report, are about a job.
ReportsHaveAJob ==
  /\ \A q \in sent : q.op # "claim" => q.job \in Jobs
  /\ \A r \in Runners :
       runner[r].at \in {"running", "reporting"} => runner[r].job \in Jobs

\* Some transaction is about to claim j for r.
Claiming(j, r) == \E q \in open : q.op = "claim" /\ q.job = j /\ q.by = r

\* Whoever is busy with a job has a claim, or is about to have one, or its claim
\* is over; and whoever was refused, the last of these.
Busy(r) ==
  /\ runner[r].at \in {"running", "reporting"} =>
       \/ <<r, runner[r].job>> \in ended
       \/ ClaimedBy(runner[r].job, r)
       \/ Claiming(runner[r].job, r)
  /\ runner[r].at = "refused" => <<r, runner[r].job>> \in ended

BusyWithAClaim == \A r \in Runners : Busy(r)

RInv ==
  /\ RunnerTypeOK
  /\ JobsLockedOnce
  /\ FoundStaysTrue
  /\ AwaitedIsLast
  /\ ReportsHaveAJob
  /\ BusyWithAClaim
  /\ ClaimsHaveAKey
  /\ RequestsHaveAKey
  /\ OneResultForEachClaim
-----------------------------------------------------------------------------
\* Types, one variable at a time.
LEMMA RunnerType ==
  ASSUME RunnerTypeOK, NEW r \in Runners
  PROVE  /\ runner[r].at \in {"idle", "asking", "running", "reporting", "refused"}
         /\ runner[r].job \in Jobs \cup {NoJob}
         /\ runner[r].n \in 0..Sends /\ runner[r].n \in Nat
BY RunnerProtocolAssumption DEF RunnerTypeOK

LEMMA RequestType ==
  ASSUME RunnerTypeOK, NEW q \in sent \cup open
  PROVE  /\ q \in Request
         /\ q.by \in Runners /\ q.n \in Nat
         /\ q.op \in {"claim", "complete", "fail"}
         /\ q.job \in Jobs \cup {NoJob}
         /\ q \in open => q.job \in Jobs
BY RunnerProtocolAssumption DEF RunnerTypeOK, Request
-----------------------------------------------------------------------------
(***************************************************************************)
(* What leaves a part of the invariant alone                               *)
(***************************************************************************)
\* No transaction begins.
LEMMA LockedKept ==
  ASSUME JobsLockedOnce, open' \subseteq open
  PROVE  JobsLockedOnce'
BY DEF JobsLockedOnce

\* Nor does one begin without a key, and no key is deleted.
LEMMA KeysKept ==
  ASSUME RequestsHaveAKey, keys' = keys,
         \A q \in open' : q \in open \/ q.by \in keys
  PROVE  RequestsHaveAKey'
BY DEF RequestsHaveAKey

\* No transaction begins and no job moves.
LEMMA FoundKept ==
  ASSUME FoundStaysTrue, open' \subseteq open, state' = state, owner' = owner
  PROVE  FoundStaysTrue'
BY DEF FoundStaysTrue, ClaimedBy

\* Requests come from requests, and nobody begins to wait.
LEMMA AwaitedKept ==
  ASSUME RunnerTypeOK, AwaitedIsLast,
         \A q \in (sent \cup open)' : \E p \in sent \cup open :
           /\ q.by = p.by /\ q.n = p.n /\ q.op = p.op
           /\ q.job = p.job \/ q.op = "claim",
         \A r \in Runners :
           \/ runner'[r] = runner[r]
           \/ runner'[r].n = runner[r].n /\ runner'[r].at \notin {"asking", "reporting"}
  PROVE  AwaitedIsLast'
<1> SUFFICES ASSUME NEW q \in (sent \cup open)'
             PROVE  /\ q.n <= runner'[q.by].n
                    /\ Awaited(q)' => IF q.op = "claim" THEN runner'[q.by].at = "asking"
                         ELSE runner'[q.by].at = "reporting" /\ runner'[q.by].job = q.job
  BY DEF AwaitedIsLast
<1>1. PICK p \in sent \cup open :
        /\ q.by = p.by /\ q.n = p.n /\ q.op = p.op
        /\ q.job = p.job \/ q.op = "claim"
  OBVIOUS
<1>2. p.by \in Runners
  BY RequestType
<1>3. CASE runner'[p.by] = runner[p.by]
  BY <1>1, <1>2, <1>3 DEF AwaitedIsLast, Awaited
<1>4. CASE /\ runner'[p.by].n = runner[p.by].n
           /\ runner'[p.by].at \notin {"asking", "reporting"}
  BY <1>1, <1>2, <1>4 DEF AwaitedIsLast, Awaited
<1> QED
  BY <1>2, <1>3, <1>4

\* Nobody sends a report, and nobody is given anything but a job.
LEMMA ReportsKept ==
  ASSUME ReportsHaveAJob, sent' \subseteq sent,
         \A r \in Runners :
           \/ runner'[r].at \notin {"running", "reporting"}
           \/ runner'[r].job \in Jobs
           \/ /\ runner'[r].job = runner[r].job
              /\ runner[r].at \in {"running", "reporting"}
  PROVE  ReportsHaveAJob'
BY DEF ReportsHaveAJob

\* No job moves, no claim is dropped, and who is busy afterwards was it before.
LEMMA BusyKept ==
  ASSUME BusyWithAClaim, state' = state, owner' = owner,
         open \subseteq open', ended \subseteq ended',
         \A r \in Runners :
           \/ runner'[r].at \in {"idle", "asking"}
           \/ /\ runner'[r].job = runner[r].job
              /\ \/ runner'[r].at = runner[r].at
                 \/ {runner[r].at, runner'[r].at} \subseteq {"running", "reporting"}
  PROVE  BusyWithAClaim'
<1> SUFFICES ASSUME NEW r \in Runners
             PROVE  Busy(r)'
  BY DEF BusyWithAClaim
<1>1. Busy(r)
  BY DEF BusyWithAClaim
<1>2. CASE runner'[r].at \in {"idle", "asking"}
  BY <1>2 DEF Busy
<1>3. CASE runner'[r].at \notin {"idle", "asking"}
  <2>1. runner'[r].job = runner[r].job
    BY <1>3
  <2>2. ClaimedBy(runner[r].job, r) => ClaimedBy(runner[r].job, r)'
    BY <2>1 DEF ClaimedBy
  <2>3. Claiming(runner[r].job, r) => Claiming(runner[r].job, r)'
    BY <2>1 DEF Claiming
  <2> QED
    BY <1>1, <1>3, <2>1, <2>2, <2>3 DEF Busy
<1> QED
  BY <1>2, <1>3

\* No job moves and nothing is counted.
LEMMA ResultsKept ==
  ASSUME OneResultForEachClaim, ClaimsHaveAKey,
         UNCHANGED <<keys, state, owner, claims, results, released>>
  PROVE  OneResultForEachClaim' /\ ClaimsHaveAKey'
BY DEF OneResultForEachClaim, ClaimsHaveAKey
-----------------------------------------------------------------------------
(***************************************************************************)
(* The steps of the runners and of the network                             *)
(***************************************************************************)
\* A runner sends a request: it waits for the response, in the same business as
\* before if it reports.
LEMMA SendHolds ==
  ASSUME RInv, NEW r \in Runners, AskForJob(r) \/ Report(r)
  PROVE  RInv'
<1> USE RunnerProtocolAssumption DEF RInv
<1>1. PICK op \in {"claim", "complete", "fail"}, j \in Jobs \cup {NoJob},
           at \in {"asking", "reporting"} :
        /\ SendRequest(r, op, j, at)
        /\ op = "claim" <=> at = "asking"
        /\ op # "claim" => runner[r].at = "running" /\ j = runner[r].job
  BY RunnerType DEF AskForJob, Report
<1> DEFINE n == runner[r].n + 1
           q == [by |-> r, n |-> n, op |-> op, job |-> j]
<1>2. /\ n \in 1..Sends
      /\ sent' = sent \cup {q}
      /\ runner' = [runner EXCEPT ![r] = [at |-> at, job |-> j, n |-> n]]
      /\ UNCHANGED <<keys, state, owner, claims, results, released, open, ended>>
  BY <1>1, RunnerType DEF SendRequest
<1>3. runner'[r] = [at |-> at, job |-> j, n |-> n]
  BY <1>2 DEF RunnerTypeOK
<1>4. \A s \in Runners : s # r => runner'[s] = runner[s]
  BY <1>2 DEF RunnerTypeOK
<1>5. RunnerTypeOK'
  BY <1>2 DEF RunnerTypeOK, Request
<1>6. /\ JobsLockedOnce' /\ FoundStaysTrue' /\ RequestsHaveAKey'
      /\ OneResultForEachClaim' /\ ClaimsHaveAKey'
  BY <1>2, LockedKept, FoundKept, ResultsKept, KeysKept
<1>7. AwaitedIsLast'
  <2> SUFFICES ASSUME NEW p \in (sent \cup open)'
               PROVE  /\ p.n <= runner'[p.by].n
                      /\ Awaited(p)' => IF p.op = "claim" THEN runner'[p.by].at = "asking"
                           ELSE runner'[p.by].at = "reporting" /\ runner'[p.by].job = p.job
    BY DEF AwaitedIsLast
  <2>1. CASE p = q
    <3>1. /\ p.by = r /\ p.n = n /\ p.op = op /\ p.job = j
          /\ runner'[r].n = n /\ runner'[r].at = at /\ runner'[r].job = j
      BY <1>3, <2>1
    <3>2. n <= n
      BY <1>2
    <3> QED
      BY <1>1, <3>1, <3>2
  <2>2. CASE p \in sent \cup open
    <3>1. p.by \in Runners /\ p.n <= runner[p.by].n /\ p.n \in Nat
      BY <2>2, RequestType DEF AwaitedIsLast
    <3>2. CASE p.by = r
      BY <1>3, <3>1, <3>2, RunnerType DEF Awaited
    <3>3. CASE p.by # r
      BY <1>4, <2>2, <3>1, <3>3 DEF AwaitedIsLast, Awaited
    <3> QED
      BY <3>2, <3>3
  <2> QED
    BY <1>2, <2>1, <2>2
<1>8. BusyWithAClaim'
  BY <1>1, <1>2, <1>3, <1>4, BusyKept
<1>9. ReportsHaveAJob'
  BY <1>1, <1>2, <1>3, <1>4 DEF ReportsHaveAJob
<1> QED
  BY <1>5, <1>6, <1>7, <1>8, <1>9

\* A runner no longer waits, or has forgotten what it was busy with.
LEMMA RunnerHolds ==
  ASSUME RInv, NEW r \in Runners, GiveUp(r) \/ Restart(r)
  PROVE  RInv'
<1> USE RunnerProtocolAssumption DEF RInv
<1>1. UNCHANGED <<keys, state, owner, claims, results, released, sent, open, ended>>
  BY DEF GiveUp, Restart
<1>2. /\ runner'[r].n = runner[r].n
      /\ \/ runner'[r].at = "idle"
         \/ /\ runner[r].at = "reporting" /\ runner'[r].at = "running"
            /\ runner'[r].job = runner[r].job
  BY DEF GiveUp, Restart, RunnerTypeOK
<1>3. \A s \in Runners : s # r => runner'[s] = runner[s]
  BY DEF GiveUp, Restart, RunnerTypeOK
<1>4. RunnerTypeOK'
  BY <1>1 DEF GiveUp, Restart, RunnerTypeOK
<1>5. /\ JobsLockedOnce' /\ FoundStaysTrue' /\ RequestsHaveAKey'
      /\ OneResultForEachClaim' /\ ClaimsHaveAKey'
  BY <1>1, LockedKept, FoundKept, ResultsKept, KeysKept
<1>6. AwaitedIsLast'
  BY <1>1, <1>2, <1>3, AwaitedKept
<1>7. BusyWithAClaim'
  BY <1>1, <1>2, <1>3, BusyKept
<1>8. ReportsHaveAJob'
  BY <1>1, <1>2, <1>3, ReportsKept
<1> QED
  BY <1>4, <1>5, <1>6, <1>7, <1>8

\* A request is lost, or nothing is ready for it.
LEMMA NothingHolds ==
  ASSUME RInv, NEW q \in sent, Lose(q) \/ NothingReady(q)
  PROVE  RInv'
<1> USE RunnerProtocolAssumption DEF RInv
<1>1. q.by \in Runners
  BY RequestType
<1>2. sent' \subseteq sent /\ UNCHANGED <<keys, state, owner, claims, results, released, open, ended>>
  BY DEF Lose, NothingReady
<1>3. \A s \in Runners :
        \/ runner'[s] = runner[s]
        \/ runner'[s].n = runner[s].n /\ runner'[s].at = "idle"
  BY <1>1 DEF Lose, NothingReady, Answer, RunnerTypeOK
<1>4. RunnerTypeOK'
  BY <1>2 DEF Lose, NothingReady, Answer, RunnerTypeOK
<1>5. /\ JobsLockedOnce' /\ FoundStaysTrue' /\ RequestsHaveAKey'
      /\ OneResultForEachClaim' /\ ClaimsHaveAKey'
  BY <1>2, LockedKept, FoundKept, ResultsKept, KeysKept
<1>6. AwaitedIsLast'
  BY <1>2, <1>3, AwaitedKept
<1>7. BusyWithAClaim'
  BY <1>2, <1>3, BusyKept
<1>8. ReportsHaveAJob'
  BY <1>2, <1>3, ReportsKept
<1> QED
  BY <1>4, <1>5, <1>6, <1>7, <1>8
-----------------------------------------------------------------------------
(***************************************************************************)
(* The steps of the server                                                 *)
(***************************************************************************)
\* What an answer does to runners: nobody begins to wait.
LEMMA AnswerTells ==
  ASSUME RInv, NEW q \in sent \cup open,
         NEW at \in {"idle", "running", "refused"}, NEW j \in Jobs \cup {NoJob},
         Answer(q, at, j)
  PROVE  /\ runner'[q.by].at = at /\ runner'[q.by].job = j
         /\ \A s \in Runners : s # q.by => runner'[s] = runner[s]
         /\ runner' \in [Runners -> [at : {"idle", "asking", "running", "reporting",
                                           "refused"},
                                     job : Jobs \cup {NoJob}, n : 0..Sends]]
         /\ \A s \in Runners :
              \/ runner'[s] = runner[s]
              \/ runner'[s].n = runner[s].n /\ runner'[s].at \notin {"asking", "reporting"}
<1>1. q.by \in Runners
  BY RequestType DEF RInv
<1>2. runner' = [runner EXCEPT ![q.by] = [runner[q.by] EXCEPT !.at = at, !.job = j]]
  BY DEF Answer
<1> QED
  BY <1>1, <1>2 DEF RInv, RunnerTypeOK

\* A claim finds a ready job that nobody has locked.
LEMMA ClaimNextHolds ==
  ASSUME RInv, NEW q \in sent, ClaimNext(q)
  PROVE  RInv'
<1> USE RunnerProtocolAssumption DEF RInv
<1>1. PICK j \in Ready : ~Locked(j) /\ open' = open \cup {[q EXCEPT !.job = j]}
  BY DEF ClaimNext
<1> DEFINE p == [q EXCEPT !.job = j]
<1>2. /\ q.op = "claim"
      /\ sent' = sent \ {q}
      /\ UNCHANGED <<keys, state, owner, claims, results, released, runner, ended>>
  BY DEF ClaimNext
<1>3. /\ q \in Request /\ j \in Jobs /\ state[j] = "ready"
      /\ p \in Request /\ p.by = q.by /\ p.n = q.n /\ p.op = q.op /\ p.job = j
  BY RequestType DEF Ready, Request
<1> HIDE DEF p
<1>4. RunnerTypeOK'
  <2>1. p \in {a \in Request : a.job \in Jobs}
    BY <1>3
  <2>2. open' \subseteq {a \in Request : a.job \in Jobs}
    BY <1>1, <2>1 DEF RunnerTypeOK, p
  <2> QED
    BY <1>2, <2>2 DEF RunnerTypeOK
<1>a. open' = open \cup {p} /\ q.by \in keys
  BY <1>1 DEF p, ClaimNext
<1>b. JobsLockedOnce'
  BY <1>1, <1>2, <1>3, <1>a DEF JobsLockedOnce, Locked
<1>c. RequestsHaveAKey'
  BY <1>2, <1>3, <1>a DEF RequestsHaveAKey
<1>5. JobsLockedOnce' /\ RequestsHaveAKey'
  BY <1>b, <1>c
<1>6. FoundStaysTrue'
  <2> SUFFICES ASSUME NEW a \in open'
               PROVE  IF a.op = "claim" THEN state'[a.job] = "ready" ELSE ClaimedBy(a.job, a.by)'
    BY DEF FoundStaysTrue
  <2>1. CASE a \in open
    BY <1>2, <2>1 DEF FoundStaysTrue, ClaimedBy
  <2>2. CASE a = p
    BY <1>2, <1>3, <2>2
  <2> QED
    BY <1>1, <2>1, <2>2 DEF p
<1>7. AwaitedIsLast'
  <2>1. \A a \in (sent \cup open)' : \E b \in sent \cup open :
          /\ a.by = b.by /\ a.n = b.n /\ a.op = b.op
          /\ a.job = b.job \/ a.op = "claim"
    BY <1>1, <1>2, <1>3 DEF p
  <2> QED
    BY <1>2, <2>1, AwaitedKept
<1>8. BusyWithAClaim' /\ OneResultForEachClaim' /\ ClaimsHaveAKey'
  BY <1>1, <1>2, BusyKept, ResultsKept
<1>9. ReportsHaveAJob'
  BY <1>2, ReportsKept DEF ReportsHaveAJob
<1> QED
  BY <1>4, <1>5, <1>6, <1>7, <1>8, <1>9

\* A report finds its claim, or it is refused: then nobody has the job locked,
\* no claim of it is about to commit, and its own is over.
LEMMA FindJobHolds ==
  ASSUME RInv, NEW q \in sent, FindJob(q)
  PROVE  RInv'
<1> USE RunnerProtocolAssumption DEF RInv
<1>1. /\ q.op # "claim" /\ ~Locked(q.job)
      /\ sent' = sent \ {q}
      /\ UNCHANGED <<keys, state, owner, claims, results, released, ended>>
      /\ IF ClaimedBy(q.job, q.by)
         THEN open' = open \cup {q} /\ UNCHANGED runner
         ELSE /\ Answer(q, "refused", q.job) \/ UNCHANGED runner
              /\ UNCHANGED open
  BY DEF FindJob
<1>2. q \in Request /\ q.by \in Runners /\ q.job \in Jobs
  BY <1>1, RequestType DEF ReportsHaveAJob
<1>3. OneResultForEachClaim' /\ ClaimsHaveAKey'
  BY <1>1, ResultsKept
<1>4. CASE ClaimedBy(q.job, q.by)
  <2>1. open' = open \cup {q} /\ UNCHANGED runner
    BY <1>1, <1>4
  <2>2. RunnerTypeOK'
    <3>1. open' \subseteq {a \in Request : a.job \in Jobs}
      BY <1>2, <2>1 DEF RunnerTypeOK
    <3> QED
      BY <1>1, <2>1, <3>1 DEF RunnerTypeOK
  <2>3. JobsLockedOnce' /\ RequestsHaveAKey'
    BY <1>1, <2>1, KeysKept DEF JobsLockedOnce, Locked, FindJob
  <2>4. FoundStaysTrue'
    <3> SUFFICES ASSUME NEW a \in open'
                 PROVE  IF a.op = "claim" THEN state'[a.job] = "ready"
                        ELSE ClaimedBy(a.job, a.by)'
      BY DEF FoundStaysTrue
    <3> QED
      BY <1>1, <1>4, <2>1 DEF FoundStaysTrue, ClaimedBy
  <2>5. AwaitedIsLast'
    BY <1>1, <2>1, AwaitedKept
  <2>6. BusyWithAClaim'
    BY <1>1, <2>1, BusyKept
  <2>7. ReportsHaveAJob'
    BY <1>1, <2>1, ReportsKept DEF ReportsHaveAJob
  <2> QED
    BY <1>3, <2>2, <2>3, <2>4, <2>5, <2>6, <2>7
<1>5. CASE ~ClaimedBy(q.job, q.by) /\ UNCHANGED runner
  <2>1. open' = open
    BY <1>1, <1>5
  <2>2. RunnerTypeOK'
    BY <1>1, <1>5, <2>1 DEF RunnerTypeOK
  <2>3. JobsLockedOnce' /\ FoundStaysTrue' /\ RequestsHaveAKey'
    BY <1>1, <2>1, LockedKept, FoundKept, KeysKept
  <2>4. AwaitedIsLast'
    BY <1>1, <1>5, <2>1, AwaitedKept
  <2>5. BusyWithAClaim'
    BY <1>1, <1>5, <2>1, BusyKept
  <2>6. ReportsHaveAJob'
    BY <1>1, <1>5, ReportsKept DEF ReportsHaveAJob
  <2> QED
    BY <1>3, <2>2, <2>3, <2>4, <2>5, <2>6
<1>6. CASE ~ClaimedBy(q.job, q.by) /\ Answer(q, "refused", q.job)
  <2>1. open' = open
    BY <1>1, <1>6
  <2>2. /\ runner'[q.by].at = "refused" /\ runner'[q.by].job = q.job
        /\ \A s \in Runners : s # q.by => runner'[s] = runner[s]
        /\ runner' \in [Runners -> [at : {"idle", "asking", "running", "reporting",
                                          "refused"},
                                    job : Jobs \cup {NoJob}, n : 0..Sends]]
        /\ \A s \in Runners :
             \/ runner'[s] = runner[s]
             \/ runner'[s].n = runner[s].n /\ runner'[s].at \notin {"asking", "reporting"}
    BY <1>2, <1>6, AnswerTells
  <2>3. RunnerTypeOK'
    BY <1>1, <2>1, <2>2 DEF RunnerTypeOK
  <2>4. JobsLockedOnce' /\ FoundStaysTrue' /\ RequestsHaveAKey'
    BY <1>1, <2>1, LockedKept, FoundKept, KeysKept
  <2>5. AwaitedIsLast'
    BY <1>1, <2>1, <2>2, AwaitedKept
  <2>6. <<q.by, q.job>> \in ended
    <3>1. runner[q.by].at = "reporting" /\ runner[q.by].job = q.job
      BY <1>1, <1>6 DEF Answer, AwaitedIsLast
    <3>2. ~Claiming(q.job, q.by)
      BY <1>1 DEF Claiming, Locked
    <3> QED
      BY <1>2, <1>6, <3>1, <3>2 DEF BusyWithAClaim, Busy
  <2>7. BusyWithAClaim'
    <3> SUFFICES ASSUME NEW r \in Runners
                 PROVE  Busy(r)'
      BY DEF BusyWithAClaim
    <3>1. CASE r = q.by
      <4>1. runner'[r].at = "refused" /\ runner'[r].job = q.job
        BY <2>2, <3>1
      <4> QED
        BY <1>1, <2>6, <3>1, <4>1 DEF Busy
    <3>2. CASE r # q.by
      <4>1. Busy(r) /\ runner'[r] = runner[r]
        BY <2>2, <3>2 DEF BusyWithAClaim
      <4> QED
        BY <1>1, <2>1, <4>1 DEF Busy, ClaimedBy, Claiming
    <3> QED
      BY <3>1, <3>2
  <2>8. ReportsHaveAJob'
    BY <1>1, <1>2, <2>2, ReportsKept DEF ReportsHaveAJob
  <2> QED
    BY <1>3, <2>3, <2>4, <2>5, <2>7, <2>8
<1> QED
  BY <1>1, <1>4, <1>5, <1>6

\* The response before the commit: the runner is busy with a job that its claim
\* still holds locked.
LEMMA RespondEarlyHolds ==
  ASSUME RInv, NEW q \in open, RespondEarly(q)
  PROVE  RInv'
<1> USE RunnerProtocolAssumption DEF RInv
<1> DEFINE at == IF q.op = "claim" THEN "running" ELSE "idle"
<1>1. /\ UNCHANGED <<keys, state, owner, claims, results, released, sent, open>>
      /\ ended' = IF q.op = "claim" THEN ended \ {<<q.by, q.job>>} ELSE ended
      /\ Answer(q, at, q.job)
  BY DEF RespondEarly, Accepted
<1>2. q.by \in Runners /\ q.job \in Jobs
  BY RequestType
<1>3. /\ runner'[q.by].at = at /\ runner'[q.by].job = q.job
      /\ \A s \in Runners : s # q.by => runner'[s] = runner[s]
      /\ runner' \in [Runners -> [at : {"idle", "asking", "running", "reporting",
                                        "refused"},
                                  job : Jobs \cup {NoJob}, n : 0..Sends]]
      /\ \A s \in Runners :
           \/ runner'[s] = runner[s]
           \/ runner'[s].n = runner[s].n /\ runner'[s].at \notin {"asking", "reporting"}
  BY <1>1, <1>2, AnswerTells
<1>4. RunnerTypeOK'
  BY <1>1, <1>3 DEF RunnerTypeOK
<1>5. /\ JobsLockedOnce' /\ FoundStaysTrue' /\ RequestsHaveAKey'
      /\ OneResultForEachClaim' /\ ClaimsHaveAKey'
  BY <1>1, LockedKept, FoundKept, ResultsKept, KeysKept
<1>6. AwaitedIsLast'
  BY <1>1, <1>3, AwaitedKept
<1>7. ReportsHaveAJob'
  BY <1>1, <1>2, <1>3, ReportsKept DEF ReportsHaveAJob
<1>8. BusyWithAClaim'
  <2> SUFFICES ASSUME NEW r \in Runners
               PROVE  Busy(r)'
    BY DEF BusyWithAClaim
  <2>1. CASE r = q.by
    BY <1>1, <1>3, <2>1 DEF Busy, Claiming
  <2>2. CASE r # q.by
    <3>1. Busy(r) /\ runner'[r] = runner[r]
      BY <1>3, <2>2 DEF BusyWithAClaim
    <3>2. <<r, runner[r].job>> \in ended => <<r, runner[r].job>> \in ended'
      BY <1>1, <2>2
    <3> QED
      BY <1>1, <3>1, <3>2 DEF Busy, ClaimedBy, Claiming
  <2> QED
    BY <2>1, <2>2
<1> QED
  BY <1>4, <1>5, <1>6, <1>7, <1>8

\* The commit of a claim: its job was ready, and no other transaction has it.
LEMMA CommitClaimHolds ==
  ASSUME RInv, NEW q \in open, CommitClaim(q)
  PROVE  RInv'
<1> USE RunnerProtocolAssumption DEF RInv
<1>1. /\ q.op = "claim" /\ open' = open \ {q} /\ UNCHANGED <<keys, results, released, sent>>
      /\ state' = [state EXCEPT ![q.job] = "claimed"]
      /\ owner' = [owner EXCEPT ![q.job] = q.by]
      /\ claims' = [claims EXCEPT ![q.job] = @ + 1]
  BY DEF CommitClaim
<1>2. q.by \in Runners /\ q.job \in Jobs /\ state[q.job] = "ready"
  BY <1>1, RequestType DEF FoundStaysTrue
<1>3. \/ UNCHANGED <<runner, ended>>
      \/ /\ ended' = ended \ {<<q.by, q.job>>}
         /\ runner'[q.by].at = "running" /\ runner'[q.by].job = q.job
         /\ \A s \in Runners : s # q.by => runner'[s] = runner[s]
         /\ runner' \in [Runners -> [at : {"idle", "asking", "running", "reporting",
                                           "refused"},
                                     job : Jobs \cup {NoJob}, n : 0..Sends]]
         /\ \A s \in Runners :
              \/ runner'[s] = runner[s]
              \/ runner'[s].n = runner[s].n /\ runner'[s].at \notin {"asking", "reporting"}
  <2>1. Accepted(q) <=> Answer(q, "running", q.job)
    BY <1>1 DEF Accepted
  <2> QED
    BY <1>2, <2>1, AnswerTells DEF CommitClaim
<1>4. /\ state' \in [Jobs -> {"ready", "claimed", "failed", "done"}]
      /\ owner' \in [Jobs -> Runners \cup {NoRunner}]
      /\ claims' \in [Jobs -> Nat]
      /\ state'[q.job] = "claimed" /\ owner'[q.job] = q.by
      /\ claims'[q.job] = claims[q.job] + 1
      /\ \A j \in Jobs \ {q.job} :
           state'[j] = state[j] /\ owner'[j] = owner[j] /\ claims'[j] = claims[j]
  BY <1>1, <1>2 DEF RunnerTypeOK
<1>5. RunnerTypeOK'
  BY <1>1, <1>3, <1>4 DEF RunnerTypeOK
<1>6. JobsLockedOnce' /\ RequestsHaveAKey'
  BY <1>1, LockedKept, KeysKept
<1>7. \A a \in open' : a \in open /\ a.job \in Jobs \ {q.job}
  BY <1>1, RequestType DEF JobsLockedOnce
<1>8. FoundStaysTrue'
  BY <1>4, <1>7 DEF FoundStaysTrue, ClaimedBy
<1>9. AwaitedIsLast'
  BY <1>1, <1>3, AwaitedKept
<1>10. ReportsHaveAJob'
  BY <1>1, <1>2, <1>3, ReportsKept DEF ReportsHaveAJob
<1>11. OneResultForEachClaim' /\ ClaimsHaveAKey'
  BY <1>1, <1>2, <1>4
     DEF OneResultForEachClaim, ClaimsHaveAKey, RequestsHaveAKey, RunnerTypeOK
<1>12. BusyWithAClaim'
  <2> SUFFICES ASSUME NEW r \in Runners
               PROVE  Busy(r)'
    BY DEF BusyWithAClaim
  <2>1. CASE r = q.by /\ runner'[r].at = "running" /\ runner'[r].job = q.job
    BY <1>4, <2>1 DEF Busy, ClaimedBy
  <2>2. CASE runner'[r] = runner[r] /\ (<<r, runner[r].job>> \in ended
                                          => <<r, runner[r].job>> \in ended')
    <3> DEFINE j == runner[r].job
    <3>1. Busy(r)
      BY DEF BusyWithAClaim
    <3>2. ASSUME j \in Jobs, ClaimedBy(j, r)
          PROVE  state'[j] = "claimed" /\ owner'[j] = r
      BY <1>2, <1>4, <3>2 DEF ClaimedBy
    <3>3. ASSUME Claiming(j, r)
          PROVE  \/ state'[j] = "claimed" /\ owner'[j] = r
                 \/ \E a \in open' : a.op = "claim" /\ a.job = j /\ a.by = r
      BY <1>1, <1>4, <3>3 DEF Claiming
    <3>4. runner[r].at \in {"running", "reporting"} => j \in Jobs
      BY DEF ReportsHaveAJob
    <3> QED
      BY <2>2, <3>1, <3>2, <3>3, <3>4 DEF Busy, ClaimedBy, Claiming
  <2> QED
    BY <1>3, <2>1, <2>2
<1> QED
  BY <1>5, <1>6, <1>8, <1>9, <1>10, <1>11, <1>12

\* The end of a claim by its runner, whether the runner gets to know or not.
LEMMA CommitResultHolds ==
  ASSUME RInv, NEW q \in open, CommitResult(q)
  PROVE  RInv'
<1> USE RunnerProtocolAssumption DEF RInv
<1>1. /\ q.op # "claim" /\ open' = open \ {q} /\ UNCHANGED <<keys, claims, released, sent>>
      /\ state' = [state EXCEPT ![q.job] = IF q.op = "fail" THEN "failed" ELSE "done"]
      /\ owner' = [owner EXCEPT ![q.job] = NoRunner]
      /\ results' = [results EXCEPT ![q.job] = @ + 1]
      /\ ended' = ended \cup {<<q.by, q.job>>}
  BY DEF CommitResult
<1>2. q.by \in Runners /\ q.job \in Jobs /\ ClaimedBy(q.job, q.by)
  BY <1>1, RequestType DEF FoundStaysTrue
<1>3. \/ UNCHANGED runner
      \/ /\ runner'[q.by].at = "idle" /\ runner'[q.by].job = q.job
         /\ \A s \in Runners : s # q.by => runner'[s] = runner[s]
         /\ runner' \in [Runners -> [at : {"idle", "asking", "running", "reporting",
                                           "refused"},
                                     job : Jobs \cup {NoJob}, n : 0..Sends]]
         /\ \A s \in Runners :
              \/ runner'[s] = runner[s]
              \/ runner'[s].n = runner[s].n /\ runner'[s].at \notin {"asking", "reporting"}
  <2>1. Accepted(q) <=> Answer(q, "idle", q.job)
    BY <1>1 DEF Accepted
  <2> QED
    BY <1>2, <2>1, AnswerTells DEF CommitResult
<1>4. /\ state' \in [Jobs -> {"ready", "claimed", "failed", "done"}]
      /\ owner' \in [Jobs -> Runners \cup {NoRunner}]
      /\ results' \in [Jobs -> Nat]
      /\ state'[q.job] # "claimed"
      /\ results'[q.job] = results[q.job] + 1
      /\ \A j \in Jobs \ {q.job} :
           state'[j] = state[j] /\ owner'[j] = owner[j] /\ results'[j] = results[j]
  BY <1>1, <1>2 DEF RunnerTypeOK
<1>5. RunnerTypeOK'
  BY <1>1, <1>2, <1>3, <1>4 DEF RunnerTypeOK
<1>6. JobsLockedOnce' /\ RequestsHaveAKey'
  BY <1>1, LockedKept, KeysKept
<1>7. \A a \in open' : a \in open /\ a.job \in Jobs \ {q.job}
  BY <1>1, RequestType DEF JobsLockedOnce
<1>8. FoundStaysTrue'
  BY <1>4, <1>7 DEF FoundStaysTrue, ClaimedBy
<1>9. AwaitedIsLast'
  BY <1>1, <1>3, AwaitedKept
<1>10. ReportsHaveAJob'
  BY <1>1, <1>2, <1>3, ReportsKept DEF ReportsHaveAJob
<1>11. OneResultForEachClaim' /\ ClaimsHaveAKey'
  BY <1>1, <1>2, <1>4
     DEF OneResultForEachClaim, ClaimsHaveAKey, ClaimedBy, RunnerTypeOK
<1>12. BusyWithAClaim'
  <2> SUFFICES ASSUME NEW r \in Runners
               PROVE  Busy(r)'
    BY DEF BusyWithAClaim
  <2>1. CASE runner'[r].at = "idle"
    BY <2>1 DEF Busy
  <2>2. CASE runner'[r] = runner[r]
    <3> DEFINE j == runner[r].job
    <3>1. Busy(r)
      BY DEF BusyWithAClaim
    <3>2. ASSUME j \in Jobs, ClaimedBy(j, r)
          PROVE  <<r, j>> \in ended' \/ (state'[j] = "claimed" /\ owner'[j] = r)
      BY <1>1, <1>2, <1>4, <3>2 DEF ClaimedBy
    <3>3. ASSUME Claiming(j, r)
          PROVE  \E a \in open' : a.op = "claim" /\ a.job = j /\ a.by = r
      BY <1>1, <3>3 DEF Claiming
    <3>4. runner[r].at \in {"running", "reporting"} => j \in Jobs
      BY DEF ReportsHaveAJob
    <3> QED
      BY <1>1, <2>2, <3>1, <3>2, <3>3, <3>4 DEF Busy, ClaimedBy, Claiming
  <2> QED
    BY <1>3, <2>1, <2>2
<1> QED
  BY <1>5, <1>6, <1>8, <1>9, <1>10, <1>11, <1>12

\* A transaction is rolled back: whoever was told of its claim has none.
LEMMA AbortRequestHolds ==
  ASSUME RInv, NEW q \in open, AbortRequest(q)
  PROVE  RInv'
<1> USE RunnerProtocolAssumption DEF RInv
<1>1. /\ open' = open \ {q}
      /\ ended' = IF q.op = "claim" THEN ended \cup {<<q.by, q.job>>} ELSE ended
      /\ UNCHANGED <<keys, state, owner, claims, results, released, sent, runner>>
  BY DEF AbortRequest
<1>2. q.by \in Runners /\ q.job \in Jobs
  BY RequestType
<1>3. RunnerTypeOK'
  BY <1>1, <1>2 DEF RunnerTypeOK
<1>4. /\ JobsLockedOnce' /\ FoundStaysTrue' /\ RequestsHaveAKey'
      /\ OneResultForEachClaim' /\ ClaimsHaveAKey'
  BY <1>1, LockedKept, FoundKept, ResultsKept, KeysKept
<1>5. AwaitedIsLast'
  BY <1>1, AwaitedKept
<1>6. ReportsHaveAJob'
  BY <1>1, ReportsKept DEF ReportsHaveAJob
<1>7. BusyWithAClaim'
  <2> SUFFICES ASSUME NEW r \in Runners
               PROVE  Busy(r)'
    BY DEF BusyWithAClaim
  <2>1. Busy(r) /\ ended \subseteq ended'
    BY <1>1 DEF BusyWithAClaim
  <2>2. ASSUME Claiming(runner[r].job, r)
        PROVE  \/ <<r, runner[r].job>> \in ended'
               \/ \E a \in open' : a.op = "claim" /\ a.job = runner[r].job /\ a.by = r
    BY <1>1, <2>2 DEF Claiming
  <2> QED
    BY <1>1, <2>1, <2>2 DEF Busy, ClaimedBy, Claiming
<1> QED
  BY <1>3, <1>4, <1>5, <1>6, <1>7

\* The worker ends a claim that no transaction is about to end.
LEMMA TimeoutHolds ==
  ASSUME RInv, NEW j \in Jobs, Timeout(j)
  PROVE  RInv'
<1> USE RunnerProtocolAssumption DEF RInv
<1>1. /\ state[j] = "claimed" /\ ~Locked(j) /\ owner[j] \in Runners
      /\ state' = [state EXCEPT ![j] = "failed"]
      /\ owner' = [owner EXCEPT ![j] = NoRunner]
      /\ results' = [results EXCEPT ![j] = @ + 1]
      /\ ended' = ended \cup {<<owner[j], j>>}
      /\ UNCHANGED <<keys, claims, released, sent, open, runner>>
  BY DEF Timeout, ClaimsHaveAKey, RunnerTypeOK
<1>2. /\ state' \in [Jobs -> {"ready", "claimed", "failed", "done"}]
      /\ owner' \in [Jobs -> Runners \cup {NoRunner}]
      /\ results' \in [Jobs -> Nat]
      /\ state'[j] # "claimed"
      /\ results'[j] = results[j] + 1
      /\ \A i \in Jobs \ {j} :
           state'[i] = state[i] /\ owner'[i] = owner[i] /\ results'[i] = results[i]
  BY <1>1 DEF RunnerTypeOK
<1>3. RunnerTypeOK'
  BY <1>1, <1>2 DEF RunnerTypeOK
<1>4. JobsLockedOnce' /\ RequestsHaveAKey'
  BY <1>1, LockedKept, KeysKept
<1>5. \A a \in open : a.job \in Jobs \ {j}
  BY <1>1, RequestType DEF Locked
<1>6. FoundStaysTrue'
  BY <1>1, <1>2, <1>5 DEF FoundStaysTrue, ClaimedBy
<1>7. AwaitedIsLast'
  BY <1>1, AwaitedKept
<1>8. ReportsHaveAJob'
  BY <1>1, ReportsKept DEF ReportsHaveAJob
<1>9. OneResultForEachClaim' /\ ClaimsHaveAKey'
  BY <1>1, <1>2 DEF OneResultForEachClaim, ClaimsHaveAKey, RunnerTypeOK
<1>10. BusyWithAClaim'
  <2> SUFFICES ASSUME NEW r \in Runners
               PROVE  Busy(r)'
    BY DEF BusyWithAClaim
  <2> DEFINE i == runner[r].job
  <2>1. Busy(r)
    BY DEF BusyWithAClaim
  <2>2. ASSUME i \in Jobs, ClaimedBy(i, r)
        PROVE  <<r, i>> \in ended' \/ (state'[i] = "claimed" /\ owner'[i] = r)
    BY <1>1, <1>2, <2>2 DEF ClaimedBy
  <2>3. runner[r].at \in {"running", "reporting"} => i \in Jobs
    BY DEF ReportsHaveAJob
  <2> QED
    BY <1>1, <2>1, <2>2, <2>3 DEF Busy, ClaimedBy, Claiming
<1> QED
  BY <1>3, <1>4, <1>6, <1>7, <1>8, <1>9, <1>10

\* A failed job is ready again.
LEMMA RetryHolds ==
  ASSUME RInv, NEW j \in Jobs, Retry(j)
  PROVE  RInv'
<1> USE RunnerProtocolAssumption DEF RInv
<1>1. /\ state[j] = "failed" /\ ~Locked(j)
      /\ state' = [state EXCEPT ![j] = "ready"]
      /\ UNCHANGED <<keys, owner, claims, results, released, sent, open, runner, ended>>
  BY DEF Retry
<1>2. /\ state' \in [Jobs -> {"ready", "claimed", "failed", "done"}]
      /\ \A i \in Jobs : state'[i] = "claimed" <=> state[i] = "claimed"
      /\ \A i \in Jobs \ {j} : state'[i] = state[i]
  BY <1>1 DEF RunnerTypeOK
<1>3. RunnerTypeOK'
  BY <1>1, <1>2 DEF RunnerTypeOK
<1>4. JobsLockedOnce' /\ RequestsHaveAKey'
  BY <1>1, LockedKept, KeysKept
<1>5. \A a \in open : a.job \in Jobs \ {j}
  BY <1>1, RequestType DEF Locked
<1>6. FoundStaysTrue'
  BY <1>1, <1>2, <1>5 DEF FoundStaysTrue, ClaimedBy
<1>7. AwaitedIsLast'
  BY <1>1, AwaitedKept
<1>8. ReportsHaveAJob'
  BY <1>1, ReportsKept DEF ReportsHaveAJob
<1>9. OneResultForEachClaim' /\ ClaimsHaveAKey'
  BY <1>1, <1>2 DEF OneResultForEachClaim, ClaimsHaveAKey
<1>10. BusyWithAClaim'
  BY <1>1, <1>2 DEF BusyWithAClaim, Busy, ClaimedBy, Claiming, ReportsHaveAJob
<1> QED
  BY <1>3, <1>4, <1>6, <1>7, <1>8, <1>9, <1>10
\* A request without a key is refused; a runner that waits for it has no claim
\* any more, because no claim is with a key that is gone.
LEMMA InvalidApiKeyHolds ==
  ASSUME RInv, NEW q \in sent, InvalidApiKey(q)
  PROVE  RInv'
<1> USE RunnerProtocolAssumption DEF RInv
<1> DEFINE at == IF q.op = "claim" THEN "idle" ELSE "refused"
<1>1. /\ q.by \notin keys /\ sent' = sent \ {q}
      /\ UNCHANGED <<keys, state, owner, claims, results, released, open, ended>>
      /\ Answer(q, at, q.job) \/ UNCHANGED runner
  BY DEF InvalidApiKey
<1>2. q.by \in Runners /\ q.job \in Jobs \cup {NoJob} /\ at \in {"idle", "refused"}
  BY RequestType
<1> HIDE DEF at
<1>3. \/ UNCHANGED runner
      \/ /\ runner'[q.by].at = at /\ runner'[q.by].job = q.job
         /\ \A s \in Runners : s # q.by => runner'[s] = runner[s]
         /\ runner' \in [Runners -> [at : {"idle", "asking", "running", "reporting",
                                           "refused"},
                                     job : Jobs \cup {NoJob}, n : 0..Sends]]
         /\ \A s \in Runners :
              \/ runner'[s] = runner[s]
              \/ runner'[s].n = runner[s].n /\ runner'[s].at \notin {"asking", "reporting"}
  BY <1>1, <1>2, AnswerTells
<1>4. RunnerTypeOK'
  BY <1>1, <1>3 DEF RunnerTypeOK
<1>5. /\ JobsLockedOnce' /\ FoundStaysTrue' /\ RequestsHaveAKey'
      /\ OneResultForEachClaim' /\ ClaimsHaveAKey'
  BY <1>1, LockedKept, FoundKept, ResultsKept, KeysKept
<1>6. AwaitedIsLast'
  BY <1>1, <1>3, AwaitedKept
<1>7. ReportsHaveAJob'
  BY <1>1, <1>2, <1>3, ReportsKept DEF ReportsHaveAJob
<1>8. CASE UNCHANGED runner
  <2>1. BusyWithAClaim'
    BY <1>1, <1>8, BusyKept
  <2> QED
    BY <1>4, <1>5, <1>6, <1>7, <2>1
<1>9. CASE Answer(q, at, q.job)
  <2>0. /\ runner'[q.by].at = at /\ runner'[q.by].job = q.job
        /\ \A s \in Runners : s # q.by => runner'[s] = runner[s]
    BY <1>2, <1>9, AnswerTells
  <2>1. q.op # "claim" => <<q.by, q.job>> \in ended
    <3> SUFFICES ASSUME q.op # "claim" PROVE <<q.by, q.job>> \in ended
      OBVIOUS
    <3>1. runner[q.by].at = "reporting" /\ runner[q.by].job = q.job
      BY <1>9 DEF Answer, AwaitedIsLast
    <3>2. ~Claiming(q.job, q.by)
      BY <1>1 DEF Claiming, RequestsHaveAKey
    <3>3. q.job \in Jobs => ~ClaimedBy(q.job, q.by)
      BY <1>1 DEF ClaimedBy, ClaimsHaveAKey
    <3> QED
      BY <1>2, <3>1, <3>2, <3>3 DEF BusyWithAClaim, Busy, ReportsHaveAJob
  <2>2. BusyWithAClaim'
    <3> SUFFICES ASSUME NEW r \in Runners
                 PROVE  Busy(r)'
      BY DEF BusyWithAClaim
    <3>1. CASE r = q.by
      BY <1>1, <2>0, <2>1, <3>1 DEF Busy, at
    <3>2. CASE r # q.by
      <4>1. Busy(r) /\ runner'[r] = runner[r]
        BY <2>0, <3>2 DEF BusyWithAClaim
      <4> QED
        BY <1>1, <4>1 DEF Busy, ClaimedBy, Claiming
    <3> QED
      BY <3>1, <3>2
  <2> QED
    BY <1>4, <1>5, <1>6, <1>7, <2>2
<1> QED
  BY <1>1, <1>8, <1>9

\* The key of a runner is deleted: nothing under way is with this key, because
\* a report under way has locked a job of its runner.
LEMMA DeleteKeyHolds ==
  ASSUME RInv, NEW r \in Runners, DeleteKey(r)
  PROVE  RInv'
<1> USE RunnerProtocolAssumption DEF RInv
<1> DEFINE C == Claimed(r)
<1>1. /\ \A j \in C : ~Locked(j)
      /\ keys' = keys \ {r}
      /\ state' = [j \in Jobs |-> IF j \in C THEN "ready" ELSE state[j]]
      /\ owner' = [j \in Jobs |-> IF j \in C THEN NoRunner ELSE owner[j]]
      /\ released' = [j \in Jobs |-> released[j] + (IF j \in C THEN 1 ELSE 0)]
      /\ ended' = ended \cup ({r} \X C)
      /\ UNCHANGED <<claims, results, sent, open, runner>>
  BY DEF DeleteKey
<1>2. C \subseteq Jobs /\ \A j \in Jobs : j \in C <=> ClaimedBy(j, r)
  BY DEF Claimed
<1>3. \A q \in open : q.by # r /\ q.job \in Jobs \ C
  <2> SUFFICES ASSUME NEW q \in open PROVE q.by # r /\ q.job \in Jobs \ C
    OBVIOUS
  <2>1. q.job \in Jobs /\ q.job \notin C
    BY <1>1, RequestType DEF Locked
  <2>2. CASE q.op = "claim"
    BY <2>1, <2>2 DEF DeleteKey
  <2>3. CASE q.op # "claim"
    BY <1>2, <2>1, <2>3 DEF FoundStaysTrue
  <2> QED
    BY <2>1, <2>2, <2>3
<1> HIDE DEF C
<1>4. /\ state' \in [Jobs -> {"ready", "claimed", "failed", "done"}]
      /\ owner' \in [Jobs -> Runners \cup {NoRunner}]
      /\ released' \in [Jobs -> Nat]
      /\ \A j \in Jobs \ C :
           state'[j] = state[j] /\ owner'[j] = owner[j] /\ released'[j] = released[j]
      /\ \A j \in C :
           /\ state[j] = "claimed" /\ state'[j] = "ready"
           /\ released'[j] = released[j] + 1
  BY <1>1, <1>2 DEF RunnerTypeOK, ClaimedBy
<1>5. RunnerTypeOK'
  <2>1. keys' \subseteq Runners /\ ended' \subseteq Runners \X Jobs
    BY <1>1, <1>2 DEF RunnerTypeOK
  <2> QED
    BY <1>1, <1>4, <2>1 DEF RunnerTypeOK
<1>6. JobsLockedOnce' /\ RequestsHaveAKey'
  BY <1>1, <1>3 DEF JobsLockedOnce, RequestsHaveAKey
<1>7. FoundStaysTrue'
  BY <1>1, <1>3, <1>4 DEF FoundStaysTrue, ClaimedBy
<1>8. AwaitedIsLast'
  BY <1>1, AwaitedKept
<1>9. ReportsHaveAJob'
  BY <1>1, ReportsKept DEF ReportsHaveAJob
<1>10. ClaimsHaveAKey'
  BY <1>1, <1>2, <1>4 DEF ClaimsHaveAKey, ClaimedBy
<1>11. OneResultForEachClaim'
  <2> SUFFICES ASSUME NEW j \in Jobs
               PROVE  claims'[j] = results'[j] + released'[j]
                                     + (IF state'[j] = "claimed" THEN 1 ELSE 0)
    BY DEF OneResultForEachClaim
  <2>1. claims[j] = results[j] + released[j] + (IF state[j] = "claimed" THEN 1 ELSE 0)
    BY DEF OneResultForEachClaim
  <2>2. results[j] \in Nat /\ released[j] \in Nat
    BY DEF RunnerTypeOK
  <2>3. CASE j \in C
    BY <1>1, <1>4, <2>1, <2>2, <2>3
  <2>4. CASE j \notin C
    BY <1>1, <1>4, <2>1, <2>4
  <2> QED
    BY <2>3, <2>4
<1>12. BusyWithAClaim'
  <2> SUFFICES ASSUME NEW s \in Runners
               PROVE  Busy(s)'
    BY DEF BusyWithAClaim
  <2> DEFINE i == runner[s].job
  <2>1. Busy(s)
    BY DEF BusyWithAClaim
  <2>2. ASSUME i \in Jobs, ClaimedBy(i, s)
        PROVE  <<s, i>> \in ended' \/ (state'[i] = "claimed" /\ owner'[i] = s)
    BY <1>1, <1>2, <1>4, <2>2 DEF ClaimedBy
  <2>3. runner[s].at \in {"running", "reporting"} => i \in Jobs
    BY DEF ReportsHaveAJob
  <2> QED
    BY <1>1, <2>1, <2>2, <2>3 DEF Busy, ClaimedBy, Claiming
<1> QED
  BY <1>5, <1>6, <1>7, <1>8, <1>9, <1>10, <1>11, <1>12
-----------------------------------------------------------------------------
\* The invariant holds initially ...
LEMMA InitRInv == RunnerInit => RInv
<1> SUFFICES ASSUME RunnerInit
             PROVE  RInv
  OBVIOUS
<1> USE RunnerProtocolAssumption DEF RunnerInit
<1>1. RunnerTypeOK
  BY DEF RunnerTypeOK
<1>2. JobsLockedOnce /\ FoundStaysTrue /\ AwaitedIsLast
  BY DEF JobsLockedOnce, FoundStaysTrue, AwaitedIsLast
<1>3. ReportsHaveAJob /\ BusyWithAClaim
  BY DEF ReportsHaveAJob, BusyWithAClaim, Busy
<1>4. OneResultForEachClaim /\ ClaimsHaveAKey /\ RequestsHaveAKey
  BY DEF OneResultForEachClaim, ClaimsHaveAKey, RequestsHaveAKey
<1> QED
  BY <1>1, <1>2, <1>3, <1>4 DEF RInv

\* ... and every step preserves it.
LEMMA NextRInv == RInv /\ [RunnerNext]_runnerVars => RInv'
<1> SUFFICES ASSUME RInv, [RunnerNext]_runnerVars
             PROVE  RInv'
  OBVIOUS
<1>1. ASSUME NEW r \in Runners,
             AskForJob(r) \/ Report(r) \/ GiveUp(r) \/ Restart(r) \/ DeleteKey(r)
      PROVE  RInv'
  BY <1>1, SendHolds, RunnerHolds, DeleteKeyHolds
<1>2. ASSUME NEW q \in sent,
             \/ Lose(q) \/ InvalidApiKey(q)
             \/ ClaimNext(q) \/ NothingReady(q) \/ FindJob(q)
      PROVE  RInv'
  BY <1>2, NothingHolds, InvalidApiKeyHolds, ClaimNextHolds, FindJobHolds
<1>3. ASSUME NEW q \in open,
             RespondEarly(q) \/ CommitClaim(q) \/ CommitResult(q) \/ AbortRequest(q)
      PROVE  RInv'
  BY <1>3, RespondEarlyHolds, CommitClaimHolds, CommitResultHolds, AbortRequestHolds
<1>4. ASSUME NEW j \in Jobs, Timeout(j) \/ Retry(j)
      PROVE  RInv'
  BY <1>4, TimeoutHolds, RetryHolds
<1>5. CASE UNCHANGED runnerVars
  <2>1. UNCHANGED <<keys, state, owner, claims, results, released, sent, open, runner, ended>>
    BY <1>5 DEF runnerVars
  <2>2. RunnerTypeOK'
    BY <2>1 DEF RInv, RunnerTypeOK
  <2>3. /\ JobsLockedOnce' /\ FoundStaysTrue' /\ RequestsHaveAKey'
        /\ OneResultForEachClaim' /\ ClaimsHaveAKey'
    BY <2>1, LockedKept, FoundKept, ResultsKept, KeysKept DEF RInv
  <2>4. AwaitedIsLast' /\ ReportsHaveAJob' /\ BusyWithAClaim'
    BY <2>1, AwaitedKept, ReportsKept, BusyKept DEF RInv, ReportsHaveAJob
  <2> QED
    BY <2>2, <2>3, <2>4 DEF RInv
<1> QED
  BY <1>1, <1>2, <1>3, <1>4, <1>5 DEF RunnerNext

\* The variables keep their types (all of RunnerProtocol).
THEOREM RunnerTypesCorrect == RunnerSpec => []RunnerTypeOK
<1>1. RInv => RunnerTypeOK
  BY DEF RInv
<1> QED
  BY <1>1, InitRInv, NextRInv, PTL DEF RunnerSpec

\* Every claim that is over has left one result (complete_job, fail_job, the
\* worker) or was released with its key (delete_api_key_page), whatever was lost,
\* repeated or delayed.
THEOREM OneResultForEachClaimAlways == RunnerSpec => []OneResultForEachClaim
<1>1. RInv => OneResultForEachClaim
  BY DEF RInv
<1> QED
  BY <1>1, InitRInv, NextRInv, PTL DEF RunnerSpec

\* A runner whose claim is not over is not refused, and no other runner runs its
\* job (find_job and claim_next_job under the lock of the job).
THEOREM OnlyEndedClaimsGoWrongAlways == RunnerSpec => []OnlyEndedClaimsGoWrong
<1>1. RInv => OnlyEndedClaimsGoWrong
  <2> SUFFICES ASSUME RInv
               PROVE  OnlyEndedClaimsGoWrong
    OBVIOUS
  <2> USE DEF RInv
  <2>1. RefusedReportsNeedACause
    BY DEF RefusedReportsNeedACause, BusyWithAClaim, Busy
  <2>2. RunsOverlapOnlyOnceEnded
    <3> SUFFICES ASSUME NEW r \in Runners, NEW s \in Runners, r # s,
                        runner[r].at = "running", runner[s].at = "running",
                        runner[r].job = runner[s].job,
                        <<r, runner[r].job>> \notin ended,
                        <<s, runner[r].job>> \notin ended
                 PROVE  FALSE
      BY DEF RunsOverlapOnlyOnceEnded
    <3> DEFINE j == runner[r].job
    <3>1. ClaimedBy(j, r) \/ Claiming(j, r)
      BY DEF BusyWithAClaim, Busy
    <3>2. ClaimedBy(j, s) \/ Claiming(j, s)
      BY DEF BusyWithAClaim, Busy
    <3>3. \A t \in Runners : Claiming(j, t) => state[j] = "ready"
      BY DEF Claiming, FoundStaysTrue
    <3>4. Claiming(j, r) /\ Claiming(j, s) => r = s
      BY DEF Claiming, JobsLockedOnce
    <3> QED
      BY <3>1, <3>2, <3>3, <3>4 DEF ClaimedBy
  <2> QED
    BY <2>1, <2>2 DEF OnlyEndedClaimsGoWrong
<1> QED
  BY <1>1, InitRInv, NextRInv, PTL DEF RunnerSpec
-----------------------------------------------------------------------------
(***************************************************************************)
(* The components side by side                                             *)
(***************************************************************************)
\* Each component behaves in MCServices as in its own specification, and so
\* what is proved of it above holds of the instance that TLC checks.
THEOREM PartsAreComponents ==
  Spec => /\ TaskSpec /\ RunnerSpec /\ AccessSpec
          /\ TurnSpec /\ KeyboardSpec /\ ResultsSpec
<1>1. Init => /\ TaskInit /\ RunnerInit /\ AccessInit
              /\ TurnInit /\ KeyboardInit /\ ResultsInit
  BY DEF Init
<1>2. ASSUME [Next]_vars
      PROVE  /\ [TaskNext]_taskVars /\ [RunnerNext]_runnerVars
             /\ [AccessNext]_accessVars /\ [TurnNext]_turnVars
             /\ [KeyboardNext]_keyboardVars /\ [ResultsNext]_resultsVars
  <2>1. CASE UNCHANGED vars
    BY <2>1 DEF vars
  <2>2. CASE Next
    BY <2>2 DEF Next
  <2> QED
    BY <1>2, <2>1, <2>2
<1> QED
  BY <1>1, <1>2, PTL DEF Spec, TaskSpec, RunnerSpec, AccessSpec, TurnSpec,
                         KeyboardSpec, ResultsSpec

\* Whichever component takes the steps, all variables keep their types.
THEOREM ServicesTypesCorrect == Spec => []TypeOK
<1>1. TInv => TaskTypeOK
  BY DEF TInv
<1>2. PInv => ResultsTypeOK
  BY DEF PInv
<1>3. (TaskTypeOK /\ RunnerTypeOK /\ AccessTypeOK
        /\ TurnTypeOK /\ KeyboardTypeOK /\ ResultsTypeOK) => TypeOK
  BY DEF TypeOK
<1> QED
  BY <1>1, <1>2, <1>3, PartsAreComponents, TaskInvariant, RunnerTypesCorrect,
     AccessTypesCorrect, TurnTypeCorrect, KeyboardTypeCorrect, PagesInvariant, PTL
=============================================================================
