-------------------------- MODULE Teleoperation_proofs -----------------------
(***************************************************************************)
(* The two teleoperation pages and the credentials that they connect with: *)
(* the keyboard page, the WebXR page and the cache of TURN credentials.    *)
(***************************************************************************)
EXTENDS KeyboardTeleop, WebXRSession, TurnCache, TLAPS
-----------------------------------------------------------------------------
(***************************************************************************)
(* The keyboard page for any keyboard. That an unfocused page holds no key *)
(* rests on three other facts: the robot holds no key the page does not    *)
(* show, it holds none unless the channel is open, and the channel opens   *)
(* only once the button cannot make another. That released keys are up     *)
(* needs to know by which name each key that is down was heard.            *)
(***************************************************************************)
\* The robot holds keys only over an open channel.
OnlyOpenChannelsHold == channel # "open" => told = {}

\* Only the connection that is made last is open.
OnlyConnectedIsOpen == attempt # "connected" => channel # "open"

\* A key is heard by one of its names, ...
HeardByName == \A k \in Keys : heardAs[k] \subseteq {Plain[k], Shifted[k]}

\* ... and the robot holds what was heard of a key that is down, or slipped.
ToldWasHeard ==
  \A n \in told : n \in slipped \/ \E k \in down : n \in heardAs[k]

KeyInv ==
  /\ KeyboardTypeOK
  /\ HeardByName
  /\ ToldWasHeard
  /\ UnfocusedPageHoldsNothing
  /\ PageShowsWhatIsTold
  /\ OnlyOpenChannelsHold
  /\ OnlyConnectedIsOpen

\* What the page hears of a key is one of its names, if anything.
LEMMA HearsType ==
  ASSUME NEW k \in Keys, NEW D
  PROVE  /\ Hears(k, D) \subseteq {Plain[k], Shifted[k]}
         /\ Hears(k, D) \subseteq KeyNames
         /\ ~focused => Hears(k, D) = {}
BY DEF Hears, KeyName, KeyNames

\* The page starts with no key held.
LEMMA InitKeyInv == KeyboardInit => KeyInv
<1> SUFFICES ASSUME KeyboardInit PROVE KeyInv
  OBVIOUS
<1>1. KeyboardTypeOK
  <2>1. heardAs \in [Keys -> SUBSET KeyNames]
    BY DEF KeyboardInit
  <2> QED BY <2>1 DEF KeyboardInit, KeyboardTypeOK
<1>2. HeardByName /\ ToldWasHeard
  BY DEF KeyboardInit, HeardByName, ToldWasHeard
<1> QED BY <1>1, <1>2 DEF KeyboardInit, KeyInv, UnfocusedPageHoldsNothing,
           PageShowsWhatIsTold, OnlyOpenChannelsHold, OnlyConnectedIsOpen

\* A key that goes down is told and heard by the same name.
LEMMA KeyDownKeyInv ==
  ASSUME KeyInv, NEW k \in Keys, KeyDown(k) PROVE KeyInv'
<1> DEFINE heard == Hears(k, down')
<1>0. KeyboardTypeOK
  BY DEF KeyInv
<1>1. /\ heard \subseteq {Plain[k], Shifted[k]} /\ heard \subseteq KeyNames
      /\ ~focused => heard = {}
  BY HearsType
<1>2. /\ down' = down \cup {k} /\ held' = held \cup heard
      /\ slipped' = slipped \ heard
      /\ UNCHANGED <<chord, focused, channel, attempt>>
  BY DEF KeyDown
<1>3. heardAs' = [heardAs EXCEPT ![k] = heard]
  BY DEF KeyDown
<1>4. told' = IF channel # "open" THEN told ELSE told \cup heard
  BY DEF KeyDown, Tell
<1>5. k \notin down
  BY DEF KeyDown
<1> HIDE DEF heard
<1>6. heardAs' \in [Keys -> SUBSET KeyNames]
  BY <1>0, <1>1, <1>3 DEF KeyboardTypeOK
<1>7. heardAs'[k] = heard /\ \A l \in Keys \ {k} : heardAs'[l] = heardAs[l]
  BY <1>0, <1>3 DEF KeyboardTypeOK
<1>8. KeyboardTypeOK'
  BY <1>0, <1>1, <1>2, <1>4, <1>6 DEF KeyboardTypeOK
<1>9. HeardByName'
  BY <1>1, <1>7 DEF KeyInv, HeardByName
<1>10. ToldWasHeard'
  <2> SUFFICES ASSUME NEW n \in told'
               PROVE  n \in slipped' \/ \E l \in down' : n \in heardAs'[l]
    BY DEF ToldWasHeard
  <2>1. CASE n \in heard
    BY <1>2, <1>7, <2>1
  <2>2. CASE n \notin heard
    <3>1. n \in slipped \/ \E l \in down : n \in heardAs[l]
      BY <1>4, <2>2 DEF KeyInv, ToldWasHeard
    <3> QED BY <1>0, <1>2, <1>5, <1>7, <2>2, <3>1 DEF KeyboardTypeOK
  <2> QED BY <2>1, <2>2
<1> QED BY <1>1, <1>2, <1>4, <1>8, <1>9, <1>10 DEF KeyInv, UnfocusedPageHoldsNothing,
           PageShowsWhatIsTold, OnlyOpenChannelsHold, OnlyConnectedIsOpen

\* A key that comes up is told by the name it was heard by, or slips.
LEMMA KeyUpKeyInv ==
  ASSUME KeyInv, NEW k \in Keys, KeyUp(k) PROVE KeyInv'
<1> DEFINE heard == Hears(k, down')
<1>0. KeyboardTypeOK
  BY DEF KeyInv
<1>1. heard \subseteq KeyNames /\ (~focused => heard = {})
  BY HearsType
<1>2. /\ down' = down \ {k} /\ held' = held \ heard
      /\ slipped' = (slipped \cup heardAs[k]) \ heard
      /\ UNCHANGED <<chord, focused, channel, attempt>>
  BY DEF KeyUp, Slips
<1>3. heardAs' = [heardAs EXCEPT ![k] = {}]
  BY DEF KeyUp, Slips
<1>4. told' = IF channel # "open" THEN told ELSE told \ heard
  BY DEF KeyUp, Tell
<1> HIDE DEF heard
<1>5. channel # "open" => told = {}
  BY DEF KeyInv, OnlyOpenChannelsHold
<1>6. heardAs' \in [Keys -> SUBSET KeyNames]
  BY <1>0, <1>3 DEF KeyboardTypeOK
<1>7. heardAs'[k] = {} /\ \A l \in Keys \ {k} : heardAs'[l] = heardAs[l]
  BY <1>0, <1>3 DEF KeyboardTypeOK
<1>8. KeyboardTypeOK'
  <2>1. heardAs[k] \subseteq KeyNames
    BY <1>0 DEF KeyboardTypeOK
  <2> QED BY <1>0, <1>2, <1>4, <1>6, <2>1 DEF KeyboardTypeOK
<1>9. HeardByName'
  BY <1>7 DEF KeyInv, HeardByName
<1>10. ToldWasHeard'
  <2> SUFFICES ASSUME NEW n \in told'
               PROVE  n \in slipped' \/ \E l \in down' : n \in heardAs'[l]
    BY DEF ToldWasHeard
  <2>1. n \in told /\ n \notin heard
    BY <1>4, <1>5
  <2>2. n \in slipped \/ \E l \in down : n \in heardAs[l]
    BY <2>1 DEF KeyInv, ToldWasHeard
  <2> QED BY <1>0, <1>2, <1>7, <2>1, <2>2 DEF KeyboardTypeOK
<1> QED BY <1>1, <1>2, <1>4, <1>5, <1>8, <1>9, <1>10 DEF KeyInv, UnfocusedPageHoldsNothing,
           PageShowsWhatIsTold, OnlyOpenChannelsHold, OnlyConnectedIsOpen

\* No event of the keyboard, the window or the connection breaks the invariant.
LEMMA StepKeyInv == KeyInv /\ [KeyboardNext]_keyboardVars => KeyInv'
<1> SUFFICES ASSUME KeyInv, [KeyboardNext]_keyboardVars PROVE KeyInv'
  OBVIOUS
<1>0. KeyboardTypeOK
  BY DEF KeyInv
<1> USE DEF KeyInv, HeardByName, ToldWasHeard, UnfocusedPageHoldsNothing,
            PageShowsWhatIsTold, OnlyOpenChannelsHold, OnlyConnectedIsOpen
<1>1. ASSUME NEW k \in Keys, KeyDown(k) \/ KeyUp(k) PROVE KeyInv'
  BY <1>1, KeyDownKeyInv, KeyUpKeyInv
<1>3. CASE Chord
  BY <1>0, <1>3 DEF Chord, KeyboardTypeOK
<1>4. CASE Blur
  <2>1. told' = {}
    BY <1>4 DEF Blur, Tell
  <2>2. heardAs' \in [Keys -> SUBSET KeyNames] /\ \A k \in Keys : heardAs'[k] = {}
    BY <1>4 DEF Blur
  <2> QED BY <1>0, <1>4, <2>1, <2>2 DEF Blur, KeyboardTypeOK
<1>5. CASE Focus
  BY <1>0, <1>5 DEF Focus, KeyboardTypeOK
<1>6. CASE ClickConnect
  BY <1>0, <1>6 DEF ClickConnect, KeyboardTypeOK
<1>7. CASE ConnectFails
  BY <1>0, <1>7 DEF ConnectFails, KeyboardTypeOK
<1>8. CASE AnswerSet
  BY <1>0, <1>8 DEF AnswerSet, KeyboardTypeOK
<1>9. CASE ChannelOpens
  BY <1>0, <1>9 DEF ChannelOpens, KeyboardTypeOK
<1>10. CASE ChannelCloses
  BY <1>0, <1>10 DEF ChannelCloses, KeyboardTypeOK
<1>11. CASE UNCHANGED keyboardVars
  BY <1>0, <1>11 DEF keyboardVars, KeyboardTypeOK
<1> QED BY <1>1, <1>3, <1>4, <1>5, <1>6, <1>7, <1>8, <1>9, <1>10, <1>11
        DEF KeyboardNext

\* The invariant holds in every reachable state.
LEMMA KeyInvAlways == KeyboardSpec => []KeyInv
BY InitKeyInv, StepKeyInv, PTL DEF KeyboardSpec

\* The script's variables have their types in every reachable state.
THEOREM KeyboardTypeCorrect == KeyboardSpec => []KeyboardTypeOK
<1>1. KeyInv => KeyboardTypeOK
  BY DEF KeyInv
<1> QED BY <1>1, KeyInvAlways, PTL

\* "An unfocused page must never keep the robot moving", whatever the keyboard.
THEOREM UnfocusedPageHoldsNothingAlways == KeyboardSpec => []UnfocusedPageHoldsNothing
<1>1. KeyInv => UnfocusedPageHoldsNothing
  BY DEF KeyInv
<1> QED BY <1>1, KeyInvAlways, PTL

\* What the robot holds is on the page, so that releaseAll reaches it.
THEOREM PageShowsWhatIsToldAlways == KeyboardSpec => []PageShowsWhatIsTold
<1>1. KeyInv => PageShowsWhatIsTold
  BY DEF KeyInv
<1> QED BY <1>1, KeyInvAlways, PTL
\* A key "pairs its keydown with its keyup", whatever the keyboard and the user's
\* chords: what the robot holds is pressed, or slipped in one of the two ways that
\* the comment of usableKey does not think of.
THEOREM ReleasedKeysAreUpAlways == KeyboardSpec => []ReleasedKeysAreUp
<1>1. KeyInv => ReleasedKeysAreUp
  BY DEF KeyInv, KeyboardTypeOK, HeardByName, ToldWasHeard, ReleasedKeysAreUp, IsDown
<1> QED BY <1>1, KeyInvAlways, PTL
-----------------------------------------------------------------------------
(***************************************************************************)
(* The WebXR page for any number of connections alive at a time: its type  *)
(* invariant, why an operator may be in a frozen view, and when the page   *)
(* leads nowhere. A session starts without a connection only if the loss   *)
(* of the connection came while an answer of the browser was awaited that  *)
(* enables the start; when it comes later, the start is disabled.          *)
(***************************************************************************)
\* The browser's event handlers on one connection keep the variables in their
\* types.
LEMMA ConnectionStepsType ==
  ASSUME SessionTypeOK, NEW c \in Conn,
         \/ Connect(c) \/ SignalingFails(c) \/ OfferAnswered(c) \/ Opens(c)
         \/ Configured(c) \/ Supported(c) \/ NotSupported(c)
         \/ Dies(c) \/ Noticed(c)
  PROVE  SessionTypeOK'
<1> USE ConnectionsAssumption DEF SessionTypeOK, Conn, Pending
<1>1. CASE Connect(c) BY <1>1 DEF Connect
<1>2. CASE SignalingFails(c) BY <1>2 DEF SignalingFails
<1>3. CASE OfferAnswered(c) BY <1>3 DEF OfferAnswered
<1>4. CASE Opens(c) BY <1>4 DEF Opens
<1>5. CASE Configured(c) BY <1>5 DEF Configured
<1>6. CASE Supported(c) BY <1>6 DEF Supported
<1>7. CASE NotSupported(c) BY <1>7 DEF NotSupported
<1>8. CASE Dies(c) BY <1>8 DEF Dies
<1>9. CASE Noticed(c)
  <2>1. link' \in [Conn -> {"none", "open", "dead", "noticed", "closed"}]
    BY <1>9 DEF Noticed
  <2>2. phase' \in [Conn -> Pending \cup {"unused", "ready", "failed"}]
    BY <1>9 DEF Noticed
  <2>3. based' \in 0 .. Connections
    BY <1>9 DEF Noticed
  <2>4. connection' \in 0 .. Connections
    BY <1>9 DEF Noticed, OnClose
  <2>5. running' \in BOOLEAN /\ connectOn' \in BOOLEAN /\ startOn' \in BOOLEAN
    BY <1>9 DEF Noticed, OnClose
  <2>6. /\ session' \in {"none", "requested", "active", "ending"}
        /\ parted' \in {"never", "lost", "overtaken", "left"}
    BY <1>9 DEF Noticed, OnClose
  <2> QED BY <2>1, <2>2, <2>3, <2>4, <2>5, <2>6
<1> QED BY <1>1, <1>2, <1>3, <1>4, <1>5, <1>6, <1>7, <1>8, <1>9

\* So do the handlers of the session.
LEMMA SessionStepsType ==
  ASSUME SessionTypeOK,
         Start \/ SessionRefused \/ OnSessionStart \/ SessionEnds \/ OnSessionEnd
  PROVE  SessionTypeOK'
<1> USE ConnectionsAssumption DEF SessionTypeOK, Conn, Pending
<1>1. CASE Start BY <1>1 DEF Start
<1>2. CASE SessionRefused BY <1>2 DEF SessionRefused
<1>3. CASE OnSessionStart BY <1>3 DEF OnSessionStart
<1>4. CASE SessionEnds BY <1>4 DEF SessionEnds
<1>5. CASE OnSessionEnd
  <2>1. link' \in [Conn -> {"none", "open", "dead", "noticed", "closed"}]
    BY <1>5 DEF OnSessionEnd
  <2>2. connection' \in 0 .. Connections /\ based' \in 0 .. Connections
    BY <1>5 DEF OnSessionEnd
  <2>3. /\ phase' = phase /\ connectOn' = connectOn /\ startOn' = startOn
        /\ running' = FALSE /\ session' = "none" /\ parted' = "left"
    BY <1>5 DEF OnSessionEnd
  <2> QED BY <2>1, <2>2, <2>3
<1> QED BY <1>1, <1>2, <1>3, <1>4, <1>5

\* The page starts without connections.
LEMMA InitSessionType == SessionInit => SessionTypeOK
<1> SUFFICES ASSUME SessionInit PROVE SessionTypeOK
  OBVIOUS
<1>1. phase \in [Conn -> Pending \cup {"unused", "ready", "failed"}]
  BY DEF SessionInit
<1>2. link \in [Conn -> {"none", "open", "dead", "noticed", "closed"}]
  BY DEF SessionInit
<1>3. connection \in 0 .. Connections /\ based \in 0 .. Connections
  BY ConnectionsAssumption DEF SessionInit
<1>4. /\ running = FALSE /\ session = "none"
      /\ connectOn = TRUE /\ startOn = FALSE /\ parted = "never"
  BY DEF SessionInit
<1> QED BY <1>1, <1>2, <1>3, <1>4 DEF SessionTypeOK

\* No event leads out of the types.
LEMMA StepSessionType ==
  ASSUME SessionTypeOK, [SessionNext]_sessionVars PROVE SessionTypeOK'
<1>1. CASE SessionNext
  BY <1>1, ConnectionStepsType, SessionStepsType DEF SessionNext
<1>2. CASE UNCHANGED sessionVars
  BY <1>2 DEF sessionVars, SessionTypeOK
<1> QED BY <1>1, <1>2

\* The script's variables have their types in every reachable state.
THEOREM SessionTypeCorrect == SessionSpec => []SessionTypeOK
<1>1. SessionTypeOK /\ [SessionNext]_sessionVars => SessionTypeOK'
  BY StepSessionType
<1> QED BY <1>1, InitSessionType, PTL DEF SessionSpec

\* A session is on, or something leads to one without another look at the
\* connection.
LedToSession ==
  running \/ startOn \/ AboutToStart

FrozenInv ==
  /\ SessionTypeOK
  /\ running /\ connection = 0 => based = 0
  /\ LedToSession /\ connection = 0 => parted \in {"overtaken", "left"}

\* While a connection is made or used the invariant asks for nothing; when one is
\* forgotten, the handler that does so also disables the start and ends the
\* session, or the loss has overtaken an answer.
LEMMA FrozenInvAlways == SessionSpec => []FrozenInv
<1> USE DEF FrozenInv, LedToSession, AboutToStart
<1>1. SessionInit => FrozenInv
  <2> SUFFICES ASSUME SessionInit, SessionTypeOK PROVE FrozenInv
    BY InitSessionType
  <2>1. \A c \in Conn : phase[c] = "unused"
    BY DEF SessionInit
  <2> QED BY <2>1 DEF SessionInit
<1>2. FrozenInv /\ [SessionNext]_sessionVars => FrozenInv'
  <2> SUFFICES ASSUME FrozenInv, [SessionNext]_sessionVars PROVE FrozenInv'
    OBVIOUS
  <2>0. SessionTypeOK /\ SessionTypeOK'
    BY StepSessionType
  <2>1. ASSUME NEW c \in Conn, NEW p, p # "checking",
               phase' = [phase EXCEPT ![c] = p],
               UNCHANGED <<connection, session, running, startOn, based, parted>>
        PROVE  FrozenInv'
    <3>1. \A d \in Conn : phase'[d] = "checking" => phase[d] = "checking"
      BY <2>0, <2>1 DEF SessionTypeOK
    <3> QED BY <2>0, <2>1, <3>1
  <2>2. ASSUME NEW c \in Conn,
               \/ Connect(c) \/ SignalingFails(c) \/ OfferAnswered(c)
               \/ NotSupported(c)
        PROVE FrozenInv'
    BY <2>1, <2>2 DEF Connect, SignalingFails, OfferAnswered, NotSupported
  <2>3. ASSUME NEW c \in Conn, Configured(c) PROVE FrozenInv'
    <3>1. connection' # 0
      BY <2>3, ConnectionsAssumption DEF Configured, Conn
    <3> QED BY <2>0, <3>1
  <2>4. ASSUME NEW c \in Conn, Supported(c) PROVE FrozenInv'
    <3>1. phase[c] = "checking" /\ UNCHANGED <<connection, running, based, parted>>
      BY <2>4 DEF Supported
    <3> QED BY <2>0, <3>1
  <2>5. ASSUME NEW c \in Conn, Noticed(c), phase[c] = "configuring" PROVE FrozenInv'
    BY <2>1, <2>5 DEF Noticed
  <2>6. ASSUME NEW c \in Conn, Noticed(c), phase[c] # "configuring" PROVE FrozenInv'
    <3>1. /\ connection' = 0 /\ running' = FALSE /\ startOn' = FALSE
          /\ session' = "requested" => session = "requested"
          /\ parted' = IF AboutToStart THEN "overtaken" ELSE "lost"
          /\ phase' = phase
      BY <2>6 DEF Noticed, OnClose
    <3> QED BY <2>0, <3>1
  <2>7. ASSUME NEW c \in Conn, Opens(c) \/ Dies(c) PROVE FrozenInv'
    BY <2>0, <2>7 DEF Opens, Dies
  <2>8. CASE Start \/ SessionRefused \/ SessionEnds
    BY <2>0, <2>8 DEF Start, SessionRefused, SessionEnds
  <2>9. CASE OnSessionStart
    BY <2>0, <2>9 DEF OnSessionStart
  <2>10. CASE OnSessionEnd
    BY <2>0, <2>10 DEF OnSessionEnd
  <2>11. CASE UNCHANGED sessionVars
    BY <2>0, <2>11 DEF sessionVars
  <2> QED BY <2>2, <2>3, <2>4, <2>5, <2>6, <2>7, <2>8, <2>9, <2>10, <2>11
          DEF SessionNext
<1> QED BY <1>1, <1>2, PTL DEF SessionSpec

\* An operator is in a frozen view only because a loss overtook an answer of the
\* browser, or because the session is a second one on a closed connection.
THEOREM FrozenViewsHaveACauseAlways == SessionSpec => []FrozenViewsHaveACause
<1>1. FrozenInv => FrozenViewsHaveACause
  BY DEF FrozenInv, LedToSession, FrozenViewsHaveACause
<1> QED BY <1>1, FrozenInvAlways, PTL

\* A click is being dealt with whose connection is not there yet.
Connecting == \E c \in Conn : phase[c] \in {"signaling", "configuring"}

\* A button is enabled or a click is being dealt with; without a connection it
\* is not enough that "Start" is enabled.
LeadsInv ==
  /\ SessionTypeOK
  /\ connectOn \/ startOn \/ \E c \in Conn : phase[c] \in Pending
  /\ connection = 0 => connectOn \/ Connecting \/ parted = "left"

\* Whatever ends a click, and whatever disables a button, enables one; what
\* forgets a connection enables "Connect", but for the end of a session.
LEMMA LeadsInvAlways == SessionSpec => []LeadsInv
<1> USE DEF LeadsInv, Connecting
<1>1. SessionInit => LeadsInv
  BY InitSessionType DEF SessionInit
<1>2. LeadsInv /\ [SessionNext]_sessionVars => LeadsInv'
  <2> SUFFICES ASSUME LeadsInv, [SessionNext]_sessionVars PROVE LeadsInv'
    OBVIOUS
  <2>0. SessionTypeOK /\ SessionTypeOK'
    BY StepSessionType
  <2>1. ASSUME NEW c \in Conn, Connect(c) \/ OfferAnswered(c) PROVE LeadsInv'
    <3>1. phase'[c] \in {"signaling", "configuring"}
      BY <2>0, <2>1 DEF SessionTypeOK, Connect, OfferAnswered
    <3> QED BY <2>0, <3>1 DEF Pending
  <2>2. ASSUME NEW c \in Conn, Configured(c) PROVE LeadsInv'
    <3>1. phase'[c] = "checking" /\ connection' # 0
      BY <2>0, <2>2, ConnectionsAssumption DEF SessionTypeOK, Configured, Conn
    <3> QED BY <2>0, <3>1 DEF Pending
  <2>3. ASSUME NEW c \in Conn, SignalingFails(c) \/ NotSupported(c) \/ Noticed(c)
        PROVE LeadsInv'
    <3>1. connectOn'
      BY <2>3 DEF SignalingFails, NotSupported, Noticed, OnClose
    <3> QED BY <2>0, <3>1
  <2>4. ASSUME NEW c \in Conn, Supported(c) PROVE LeadsInv'
    <3>1. /\ startOn' /\ UNCHANGED <<connection, connectOn, parted>>
          /\ \A d \in Conn : phase[d] \in {"signaling", "configuring"} => phase'[d] = phase[d]
      BY <2>0, <2>4 DEF SessionTypeOK, Supported
    <3> QED BY <2>0, <3>1
  <2>5. CASE UNCHANGED <<phase, connectOn, startOn, connection, parted>>
    BY <2>0, <2>5
  <2>6. ASSUME NEW c \in Conn, Opens(c) \/ Dies(c)
        PROVE UNCHANGED <<phase, connectOn, startOn, connection, parted>>
    BY <2>6 DEF Opens, Dies
  <2>7. ASSUME Start \/ SessionRefused \/ OnSessionStart \/ SessionEnds
        PROVE UNCHANGED <<phase, connectOn, startOn, connection, parted>>
    BY <2>7 DEF Start, SessionRefused, OnSessionStart, SessionEnds
  <2>8. CASE OnSessionEnd
    BY <2>0, <2>8 DEF OnSessionEnd
  <2>9. CASE UNCHANGED sessionVars
    BY <2>5, <2>9 DEF sessionVars
  <2> QED BY <2>1, <2>2, <2>3, <2>4, <2>5, <2>6, <2>7, <2>8, <2>9 DEF SessionNext
<1> QED BY <1>1, <1>2, PTL DEF SessionSpec

\* The page leads on unless a session has ended on it.
THEOREM PagesLeadOnAlways == SessionSpec => []PagesLeadOn
<1>1. LeadsInv => PagesLeadOn
  BY DEF LeadsInv, Connecting, Pending, PagesLeadOn
<1> QED BY <1>1, LeadsInvAlways, PTL

\* In no other way than these does the page leave an operator in a frozen view,
\* or lead nowhere (ar.js).
THEOREM OperatorsAreSeldomStuckAlways == SessionSpec => []OperatorsAreSeldomStuck
BY FrozenViewsHaveACauseAlways, PagesLeadOnAlways, PTL DEF OperatorsAreSeldomStuck
-----------------------------------------------------------------------------
(***************************************************************************)
(* TURN credentials for any lifetime, any number of requests and pages and *)
(* any time. The cache is used for half a lifetime from before a credential*)
(* is minted. What a request finds may be replaced before it is returned,  *)
(* but only by a request that has itself begun recently, so what replaces  *)
(* it lasts longer still.                                                  *)
(***************************************************************************)
\* What is cached lasts half of a lifetime longer than it is used.
CacheLasts == cache.until = 0 \/ cache.until + HalfTtl <= cache.expires

\* A request ends in time, ...
RequestsAreShort ==
  \A r \in PageRequests : pc[r] # "idle" => now[r] <= clock /\ clock <= now[r] + Delay

\* ... returns a credential with half of its life left since it began, ...
HitsLast ==
  \A r \in PageRequests : pc[r] = "hit" => now[r] + HalfTtl < cache.expires

\* ... or mints one that lasts a lifetime.
MintedLast ==
  \A r \in PageRequests : pc[r] = "minted" => now[r] + Ttl <= minted[r]

\* A credential lasts half of its lifetime from when it is handed out, but for
\* the time the request takes.
ServedLast ==
  \A p \in Pages : page[p].phase # "none" =>
    page[p].served + HalfTtl < page[p].expires + Delay

\* A connection is set up in time.
SetupsAreShort ==
  \A p \in Pages : page[p].phase = "connecting" => clock <= page[p].since + Setup

TurnInv ==
  /\ TurnTypeOK /\ CacheLasts /\ RequestsAreShort /\ HitsLast /\ MintedLast
  /\ ServedLast /\ SetupsAreShort

\* The cache and the pages are empty at first.
LEMMA InitTurnInv == TurnInit => TurnInv
<1> SUFFICES ASSUME TurnInit PROVE TurnInv
  OBVIOUS
<1> USE DEF TurnInit, NoCache, NoPage
<1>1. TurnTypeOK
  BY DEF TurnTypeOK
<1>2. CacheLasts /\ RequestsAreShort /\ HitsLast /\ MintedLast
  BY DEF CacheLasts, RequestsAreShort, HitsLast, MintedLast
<1>3. ServedLast /\ SetupsAreShort
  BY DEF ServedLast, SetupsAreShort
<1> QED BY <1>1, <1>2, <1>3 DEF TurnInv

\* A request that ends leaves its variables in their types, and is idle.
LEMMA DoneIsIdle ==
  ASSUME TurnTypeOK, NEW r \in PageRequests, Done(r)
  PROVE  /\ pc' \in [PageRequests -> {"idle", "look", "hit", "miss", "minted"}]
         /\ now' \in [PageRequests -> Nat]
         /\ minted' \in [PageRequests -> Nat]
         /\ pc'[r] = "idle"
         /\ \A q \in PageRequests \ {r} :
              pc'[q] = pc[q] /\ now'[q] = now[q] /\ minted'[q] = minted[q]
BY DEF TurnTypeOK, Done

\* A page that is served keeps the invariants of the pages, if what it is
\* served with lasts.
LEMMA ServedPageLasts ==
  ASSUME TurnTypeOK, ServedLast, SetupsAreShort, clock' = clock,
         NEW r \in PageRequests, NEW x \in Nat, Serve(r, x),
         clock + HalfTtl < x + Delay
  PROVE  /\ page' \in [Pages -> [phase : {"none", "open", "connecting"},
                                 expires : Nat, served : Nat, since : Nat]]
         /\ ServedLast' /\ SetupsAreShort'
<1>1. PICK p \in Pages :
        page' = [page EXCEPT ![p] = [phase |-> "open", expires |-> x,
                                     served |-> clock, since |-> 0]]
  BY DEF Serve
<1>2. page' \in [Pages -> [phase : {"none", "open", "connecting"},
                           expires : Nat, served : Nat, since : Nat]]
  BY <1>1 DEF TurnTypeOK
<1>3. ServedLast'
  BY <1>1 DEF TurnTypeOK, ServedLast
<1>4. SetupsAreShort'
  BY <1>1 DEF TurnTypeOK, SetupsAreShort
<1> QED BY <1>2, <1>3, <1>4

\* Time that passes neither outlives a request nor a connection.
LEMMA TickTurnInv == ASSUME TurnInv, TurnTick PROVE TurnInv'
<1> USE DEF TurnInv, TurnTick
<1>1. TurnTypeOK'
  BY DEF TurnTypeOK
<1>2. CacheLasts' /\ HitsLast' /\ MintedLast' /\ ServedLast'
  BY DEF CacheLasts, HitsLast, MintedLast, ServedLast
<1>3. RequestsAreShort'
  BY TurnAssumption DEF RequestsAreShort, TurnTypeOK
<1>4. SetupsAreShort'
  BY TurnAssumption DEF SetupsAreShort, TurnTypeOK
<1> QED BY <1>1, <1>2, <1>3, <1>4

\* A request that looks at the cache finds what lasts half a lifetime.
LEMMA RequestTurnInv ==
  ASSUME TurnInv, NEW r \in PageRequests, AskForCredential(r) \/ Look(r) \/ Mint(r)
  PROVE  TurnInv'
<1> USE DEF TurnInv
<1>1. CASE AskForCredential(r)
  <2>1. TurnTypeOK'
    BY <1>1 DEF TurnTypeOK, AskForCredential
  <2>2. CacheLasts' /\ ServedLast' /\ SetupsAreShort'
    BY <1>1 DEF AskForCredential, CacheLasts, ServedLast, SetupsAreShort
  <2>3. RequestsAreShort'
    BY <1>1, TurnAssumption DEF AskForCredential, RequestsAreShort, TurnTypeOK
  <2>4. HitsLast' /\ MintedLast'
    BY <1>1 DEF AskForCredential, HitsLast, MintedLast, TurnTypeOK
  <2> QED BY <2>1, <2>2, <2>3, <2>4
<1>2. CASE Look(r)
  <2>1. TurnTypeOK'
    BY <1>2 DEF TurnTypeOK, Look
  <2>2. CacheLasts' /\ ServedLast' /\ SetupsAreShort'
    BY <1>2 DEF Look, CacheLasts, ServedLast, SetupsAreShort
  <2>3. RequestsAreShort'
    BY <1>2 DEF Look, RequestsAreShort, TurnTypeOK
  <2>4. HitsLast'
    <3>1. now[r] < cache.until => now[r] + HalfTtl < cache.expires
      BY TurnAssumption DEF CacheLasts, TurnTypeOK
    <3> QED BY <1>2, <3>1 DEF Look, HitsLast, TurnTypeOK
  <2>5. MintedLast'
    BY <1>2 DEF Look, MintedLast, TurnTypeOK
  <2> QED BY <2>1, <2>2, <2>3, <2>4, <2>5
<1>3. CASE Mint(r)
  <2>1. TurnTypeOK'
    BY <1>3, TurnAssumption DEF TurnTypeOK, Mint, Ttl
  <2>2. CacheLasts' /\ ServedLast' /\ SetupsAreShort'
    BY <1>3 DEF Mint, CacheLasts, ServedLast, SetupsAreShort
  <2>3. RequestsAreShort'
    BY <1>3 DEF Mint, RequestsAreShort, TurnTypeOK
  <2>4. HitsLast'
    BY <1>3 DEF Mint, HitsLast, TurnTypeOK
  <2>5. MintedLast'
    <3>1. now[r] <= clock
      BY <1>3 DEF Mint, RequestsAreShort
    <3>2. now[r] + Ttl <= clock + Ttl
      BY <3>1, TurnAssumption DEF TurnTypeOK, Ttl
    <3> QED BY <1>3, <3>2 DEF Mint, MintedLast, TurnTypeOK
  <2> QED BY <2>1, <2>2, <2>3, <2>4, <2>5
<1> QED BY <1>1, <1>2, <1>3

\* What the cache holds by the time a request returns it lasts.
LEMMA ServeCachedTurnInv ==
  ASSUME TurnInv, NEW r \in PageRequests, ServeCached(r) PROVE TurnInv'
<1> USE DEF TurnInv
<1>0. /\ UNCHANGED <<clock, cache>> /\ Serve(r, cache.expires) /\ Done(r)
      /\ pc[r] = "hit"
  BY DEF ServeCached, Serve
<1>1. clock + HalfTtl < cache.expires + Delay
  <2>1. now[r] + HalfTtl < cache.expires /\ clock <= now[r] + Delay
    BY <1>0 DEF HitsLast, RequestsAreShort
  <2> QED BY <2>1, TurnAssumption DEF TurnTypeOK
<1>2. cache.expires \in Nat
  BY DEF TurnTypeOK
<1>3. /\ page' \in [Pages -> [phase : {"none", "open", "connecting"},
                              expires : Nat, served : Nat, since : Nat]]
      /\ ServedLast' /\ SetupsAreShort'
  BY <1>0, <1>1, <1>2, ServedPageLasts
<1>4. TurnTypeOK'
  BY <1>0, <1>3, DoneIsIdle DEF TurnTypeOK
<1>5. CacheLasts'
  BY <1>0 DEF CacheLasts
<1>6. RequestsAreShort' /\ HitsLast' /\ MintedLast'
  BY <1>0, DoneIsIdle DEF RequestsAreShort, HitsLast, MintedLast
<1> QED BY <1>3, <1>4, <1>5, <1>6

\* A request that has failed to mint changes nothing but itself.
LEMMA MintFailsTurnInv ==
  ASSUME TurnInv, NEW r \in PageRequests, MintFails(r) PROVE TurnInv'
<1> USE DEF TurnInv
<1>0. UNCHANGED <<clock, cache, page>> /\ Done(r)
  BY DEF MintFails
<1>1. TurnTypeOK'
  BY <1>0, DoneIsIdle DEF TurnTypeOK
<1>2. CacheLasts' /\ ServedLast' /\ SetupsAreShort'
  BY <1>0 DEF CacheLasts, ServedLast, SetupsAreShort
<1>3. RequestsAreShort' /\ HitsLast' /\ MintedLast'
  BY <1>0, DoneIsIdle DEF RequestsAreShort, HitsLast, MintedLast
<1> QED BY <1>1, <1>2, <1>3

\* A request that stores what it has minted has begun so recently that whoever
\* has found the cache in use may return this credential as well.
LEMMA StoreTurnInv ==
  ASSUME TurnInv, NEW r \in PageRequests, Store(r) PROVE TurnInv'
<1> USE DEF TurnInv
<1>0. /\ clock' = clock /\ Serve(r, minted[r]) /\ Done(r)
      /\ pc[r] = "minted"
      /\ cache' = [until |-> now[r] + HalfTtl, expires |-> minted[r]]
  BY DEF Store, Serve
<1>1. /\ now[r] \in Nat /\ minted[r] \in Nat /\ clock \in Nat
      /\ now[r] + Ttl <= minted[r]
      /\ now[r] <= clock /\ clock <= now[r] + Delay
  BY <1>0 DEF TurnTypeOK, MintedLast, RequestsAreShort
<1>2. clock + HalfTtl < minted[r] + Delay
  BY <1>1, TurnAssumption DEF Ttl
<1>3. /\ page' \in [Pages -> [phase : {"none", "open", "connecting"},
                              expires : Nat, served : Nat, since : Nat]]
      /\ ServedLast' /\ SetupsAreShort'
  BY <1>0, <1>1, <1>2, ServedPageLasts
<1>4. TurnTypeOK'
  <2>1. cache' \in [until : Nat, expires : Nat]
    BY <1>0, <1>1, TurnAssumption
  <2> QED BY <1>0, <1>3, <2>1, DoneIsIdle DEF TurnTypeOK
<1>5. CacheLasts'
  BY <1>0, <1>1, TurnAssumption DEF CacheLasts, Ttl
<1>6. RequestsAreShort' /\ MintedLast'
  BY <1>0, DoneIsIdle DEF RequestsAreShort, MintedLast
<1>7. HitsLast'
  <2> SUFFICES ASSUME NEW q \in PageRequests, pc'[q] = "hit"
               PROVE  now'[q] + HalfTtl < cache'.expires
    BY DEF HitsLast
  <2>1. pc[q] = "hit" /\ now'[q] = now[q]
    BY <1>0, DoneIsIdle
  <2>2. now[q] \in Nat /\ now[q] <= clock
    BY <2>1 DEF RequestsAreShort, TurnTypeOK
  <2>3. now[q] + HalfTtl < minted[r]
    BY <1>1, <2>2, TurnAssumption DEF Ttl
  <2> QED BY <1>0, <2>1, <2>3
<1> QED BY <1>3, <1>4, <1>5, <1>6, <1>7

\* What a user does with a page leaves its credential alone.
LEMMA PageTurnInv ==
  ASSUME TurnInv, NEW p \in Pages, ConnectPage(p) \/ Leave(p) PROVE TurnInv'
<1> USE DEF TurnInv
<1>0. UNCHANGED <<clock, cache, pc, now, minted>>
  BY DEF ConnectPage, Leave
<1>1. CacheLasts' /\ RequestsAreShort' /\ HitsLast' /\ MintedLast'
  BY <1>0 DEF CacheLasts, RequestsAreShort, HitsLast, MintedLast
<1>2. TurnTypeOK'
  <2>1. CASE ConnectPage(p)
    BY <2>1 DEF ConnectPage, TurnTypeOK
  <2>2. CASE Leave(p)
    BY <2>2 DEF Leave, NoPage, TurnTypeOK
  <2> QED BY <2>1, <2>2
<1>3. ServedLast' /\ SetupsAreShort'
  <2>1. CASE ConnectPage(p)
    BY <2>1, TurnAssumption DEF ConnectPage, TurnTypeOK, ServedLast, SetupsAreShort
  <2>2. CASE Leave(p)
    BY <2>2 DEF Leave, NoPage, TurnTypeOK, ServedLast, SetupsAreShort
  <2> QED BY <2>1, <2>2
<1> QED BY <1>1, <1>2, <1>3

\* The invariant holds in every reachable state.
LEMMA TurnInvAlways == TurnSpec => []TurnInv
<1>1. TurnInv /\ [TurnNext]_turnVars => TurnInv'
  <2> SUFFICES ASSUME TurnInv, [TurnNext]_turnVars PROVE TurnInv'
    OBVIOUS
  <2>1. CASE TurnNext
    BY <2>1, TickTurnInv, RequestTurnInv, ServeCachedTurnInv, MintFailsTurnInv,
       StoreTurnInv, PageTurnInv DEF TurnNext
  <2>2. CASE UNCHANGED turnVars
    BY <2>2 DEF turnVars, TurnInv, TurnTypeOK, CacheLasts, RequestsAreShort, HitsLast,
                MintedLast, ServedLast, SetupsAreShort
  <2> QED BY <2>1, <2>2
<1> QED BY <1>1, InitTurnInv, PTL DEF TurnSpec

\* Types are part of the invariant.
THEOREM TurnTypeCorrect == TurnSpec => []TurnTypeOK
<1>1. TurnInv => TurnTypeOK
  BY DEF TurnInv
<1> QED BY <1>1, TurnInvAlways, PTL

\* A credential lasts half of its lifetime from when it is handed out, less the
\* time a request takes: what turn.py's cache is for.
THEOREM ServedLastAlways == TurnSpec => []ServedLast
<1>1. TurnInv => ServedLast
  BY DEF TurnInv
<1> QED BY <1>1, TurnInvAlways, PTL

\* So a page that connects soon enough is set up before its credential expires,
\* for every lifetime that settings.py allows.
THEOREM PromptPagesAreSetUpAlways == TurnSpec => []PromptPagesAreSetUp
<1>1. TurnInv => PromptPagesAreSetUp
  <2> SUFFICES ASSUME TurnInv, NEW p \in Pages, page[p].phase = "connecting",
                      page[p].since + Setup + Delay <= page[p].served + HalfTtl
               PROVE  clock < page[p].expires
    BY DEF PromptPagesAreSetUp
  <2>1. /\ page[p].served + HalfTtl < page[p].expires + Delay
        /\ clock <= page[p].since + Setup
    BY DEF TurnInv, ServedLast, SetupsAreShort
  <2>2. /\ clock \in Nat /\ page[p].since \in Nat
        /\ page[p].served \in Nat /\ page[p].expires \in Nat
    BY DEF TurnInv, TurnTypeOK
  <2> QED BY <2>1, <2>2, TurnAssumption
<1> QED BY <1>1, TurnInvAlways, PTL
=============================================================================
