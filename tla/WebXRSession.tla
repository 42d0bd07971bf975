---------------------------- MODULE WebXRSession ----------------------------
(***************************************************************************)
(* The script of the WebXR teleoperation page. Two buttons, a connection   *)
(* to the node and an immersive session are driven by promises and events  *)
(* that the browser may deliver in any order; each handler runs to its end *)
(* before the next. What a connection object says of itself is kept for    *)
(* each connection, because an old one may outlive its use.                *)
(***************************************************************************)
EXTENDS Naturals

CONSTANT Connections   \* connection objects alive at a time: 1 .. Connections

ASSUME ConnectionsAssumption == Connections \in Nat

Conn == 1 .. Connections

VARIABLES phase,       \* how far the click that made a connection has come
          link,        \* the peer connection itself
          connection,  \* the script's connection, or 0
          running,     \* is runningSession set?
          session,     \* the browser's immersive session
          based,       \* the connection the session started with, or 0
          connectOn,   \* the button "Connect" is enabled
          startOn,     \* the button "Start" is enabled
          parted       \* history: how the script last lost its connection

sessionVars ==
  <<phase, link, connection, running, session, based, connectOn, startOn, parted>>

Pending == {"signaling", "configuring", "checking"}

SessionTypeOK ==
  /\ phase \in [Conn -> Pending \cup {"unused", "ready", "failed"}]
  /\ link \in [Conn -> {"none", "open", "dead", "noticed", "closed"}]
  /\ connection \in 0 .. Connections
  /\ running \in BOOLEAN
  /\ session \in {"none", "requested", "active", "ending"}
  /\ based \in 0 .. Connections
  /\ connectOn \in BOOLEAN
  /\ startOn \in BOOLEAN
  /\ parted \in {"never", "lost", "overtaken", "left"}

SessionInit ==
  /\ phase = [c \in Conn |-> "unused"]
  /\ link = [c \in Conn |-> "none"]
  /\ connection = 0
  /\ running = FALSE
  /\ session = "none"
  /\ based = 0
  /\ connectOn = TRUE
  /\ startOn = FALSE
  /\ parted = "never"

\* No promise, event or variable refers to the connection any more.
Unused(c) ==
  /\ phase[c] \notin Pending
  /\ link[c] \in {"none", "noticed", "closed"}
  /\ c \notin {connection, based}

\* The click on "Connect".
Connect(c) ==
  /\ connectOn
  /\ Unused(c)
  /\ phase' = [phase EXCEPT ![c] = "signaling"]
  /\ link' = [link EXCEPT ![c] = "none"]
  /\ connectOn' = FALSE
  /\ UNCHANGED <<connection, running, session, based, startOn, parted>>

\* signal() fails: the offer is refused, or no answer comes in a minute.
SignalingFails(c) ==
  /\ phase[c] = "signaling"
  /\ phase' = [phase EXCEPT ![c] = "failed"]
  /\ connectOn' = TRUE
  /\ UNCHANGED <<link, connection, running, session, based, startOn, parted>>

OfferAnswered(c) ==
  /\ phase[c] = "signaling"
  /\ phase' = [phase EXCEPT ![c] = "configuring"]
  /\ UNCHANGED <<link, connection, running, session, based, connectOn, startOn, parted>>

\* The node's control channel opens.
Opens(c) ==
  /\ phase[c] = "configuring"
  /\ link[c] = "none"
  /\ link' = [link EXCEPT ![c] = "open"]
  /\ UNCHANGED <<phase, connection, running, session, based, connectOn, startOn, parted>>

\* The configuration arrives: connect() resolves, the script takes the
\* connection, registers onClose and asks whether the mode is supported.
Configured(c) ==
  /\ phase[c] = "configuring"
  /\ link[c] = "open"
  /\ phase' = [phase EXCEPT ![c] = "checking"]
  /\ connection' = c
  /\ parted' = "never"
  /\ UNCHANGED <<link, running, session, based, connectOn, startOn>>

Supported(c) ==
  /\ phase[c] = "checking"
  /\ phase' = [phase EXCEPT ![c] = "ready"]
  /\ startOn' = TRUE
  /\ UNCHANGED <<link, connection, running, session, based, connectOn, parted>>

\* The device does not support the node's mode. The connection stays.
NotSupported(c) ==
  /\ phase[c] = "checking"
  /\ phase' = [phase EXCEPT ![c] = "failed"]
  /\ connectOn' = TRUE
  /\ UNCHANGED <<link, connection, running, session, based, startOn, parted>>

\* The node goes away, or was never reached.
Dies(c) ==
  /\ \/ link[c] = "open"
     \/ link[c] = "none" /\ phase[c] = "configuring"
  /\ link' = [link EXCEPT ![c] = "dead"]
  /\ UNCHANGED <<phase, connection, running, session, based, connectOn, startOn, parted>>

\* A variant with a fault: the loss does not end the session.
OnCloseKeepsSession ==
  /\ connection' = 0
  /\ running' = FALSE
  /\ startOn' = FALSE
  /\ connectOn' = TRUE
  /\ UNCHANGED session

\* A variant with a fault: it ends the session only after a later event.
OnCloseKeepsRunning ==
  /\ connection' = 0
  /\ startOn' = FALSE
  /\ connectOn' = TRUE
  /\ UNCHANGED <<running, session>>

\* A variant with a fault: "Connect" stays as it was.
OnCloseKeepsButtons ==
  /\ connection' = 0
  /\ running' = FALSE
  /\ session' = IF running /\ session = "active" THEN "ending" ELSE session
  /\ startOn' = FALSE
  /\ UNCHANGED connectOn

\* The handler that openConnection registers with onClose.
OnClose ==
  /\ connection' = 0
  /\ running' = FALSE
  /\ session' = IF running /\ session = "active" THEN "ending" ELSE session
  /\ startOn' = FALSE
  /\ connectOn' = TRUE

\* The browser is being asked whether it supports the mode or to start the
\* session: the answer takes no account of a loss in between.
AboutToStart == session = "requested" \/ \E c \in Conn : phase[c] = "checking"

\* lost(): before the configuration it fails the click, after it, it calls
\* the close handler, even that of a connection which is no longer in use.
Noticed(c) ==
  /\ link[c] = "dead"
  /\ link' = [link EXCEPT ![c] = "noticed"]
  /\ \/ /\ phase[c] = "configuring"
        /\ phase' = [phase EXCEPT ![c] = "failed"]
        /\ connectOn' = TRUE
        /\ UNCHANGED <<connection, running, session, startOn, parted>>
     \/ /\ phase[c] # "configuring"
        /\ OnClose
        /\ parted' = IF AboutToStart THEN "overtaken" ELSE "lost"
        /\ UNCHANGED phase
  /\ UNCHANGED based

\* The click on "Start": requestSession. The browser allows one immersive
\* session at a time.
Start ==
  /\ startOn
  /\ session = "none"
  /\ session' = "requested"
  /\ UNCHANGED <<phase, link, connection, running, based, connectOn, startOn, parted>>

SessionRefused ==
  /\ session = "requested"
  /\ session' = "none"
  /\ UNCHANGED <<phase, link, connection, running, based, connectOn, startOn, parted>>

OnSessionStart ==
  /\ session = "requested"
  /\ session' = "active"
  /\ running' = TRUE
  /\ based' = connection
  /\ UNCHANGED <<phase, link, connection, connectOn, startOn, parted>>

\* The operator leaves the session, or the device ends it.
SessionEnds ==
  /\ session = "active"
  /\ session' = "ending"
  /\ UNCHANGED <<phase, link, connection, running, based, connectOn, startOn, parted>>

\* The event "end". Closing a connection fires no event on this side.
OnSessionEnd ==
  /\ session = "ending"
  /\ session' = "none"
  /\ running' = FALSE
  /\ based' = 0
  /\ link' = [c \in Conn |-> IF c = connection THEN "closed" ELSE link[c]]
  /\ connection' = 0
  /\ parted' = "left"
  /\ UNCHANGED <<phase, connectOn, startOn>>

SessionNext ==
  \/ \E c \in Conn :
       \/ Connect(c) \/ SignalingFails(c) \/ OfferAnswered(c) \/ Opens(c)
       \/ Configured(c) \/ Supported(c) \/ NotSupported(c)
       \/ Dies(c) \/ Noticed(c)
  \/ Start \/ SessionRefused \/ OnSessionStart \/ SessionEnds \/ OnSessionEnd

SessionSpec == SessionInit /\ [][SessionNext]_sessionVars

\* The browser notices a dead peer in the end, and delivers its events.
SessionFairness ==
  /\ \A c \in Conn : WF_sessionVars(Noticed(c))
  /\ WF_sessionVars(OnSessionEnd)

SessionFairSpec == SessionSpec /\ SessionFairness
-----------------------------------------------------------------------------
(***************************************************************************)
(* Properties                                                              *)
(***************************************************************************)
\* "An operator left inside a frozen view has no way to tell that nothing is
\* reaching the robot": no session runs without a connection.
NoViewIsFrozen == running => connection # 0

\* A session that began with a connection never goes on without one, though
\* connections are replaced, lost and closed while it runs. One without has
\* begun without, and then for one of two reasons: the connection was lost
\* while the browser was asked for the mode or for the session, or it was closed
\* with the session before.
FrozenViewsHaveACause ==
  running /\ connection = 0 => based = 0 /\ parted \in {"overtaken", "left"}

\* A click leads to a connection or to a session with one, or a click is being
\* dealt with: refused, lost and closed connections do not leave the page dead.
\* Only the end of a session does: it closes the connection, leaves "Start" on
\* and "Connect" as it was, off.
PagesLeadOn ==
  \/ connectOn
  \/ startOn /\ connection # 0
  \/ \E c \in Conn : phase[c] \in Pending
  \/ parted = "left"

\* The operator is left in a frozen view, or on a page that leads to no session,
\* in no other way than these.
OperatorsAreSeldomStuck == FrozenViewsHaveACause /\ PagesLeadOn

\* "Losing the connection ends the session": the operator leaves the view when
\* the node that the session started with dies.
FrozenViewsEnd ==
  \A c \in Conn :
    (session = "active" /\ based = c /\ link[c] = "dead") ~> session = "none"
=============================================================================
