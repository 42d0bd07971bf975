--------------------------- MODULE KeyboardTeleop ---------------------------
(***************************************************************************)
(* The script of the keyboard teleoperation page. The user presses and     *)
(* releases keys and changes windows; the page hears of it by events, but  *)
(* only while it has the focus, and tells the robot over a data channel    *)
(* which keys are held. Event handlers run one at a time.                  *)
(***************************************************************************)
EXTENDS Naturals

CONSTANTS Keys,       \* keys of the keyboard that the runner can use
          ShiftKeys,  \* those of them that are a Shift
          Plain,      \* Plain[k]: usableKey of k, in lower case
          Shifted,    \* Shifted[k]: the same while a Shift is held
          Chords      \* does the user press Ctrl, Alt or Cmd?

ASSUME KeyboardAssumption ==
  /\ ShiftKeys \subseteq Keys
  /\ DOMAIN Plain = Keys
  /\ DOMAIN Shifted = Keys
  /\ Chords \in BOOLEAN

KeyNames == {Plain[k] : k \in Keys} \cup {Shifted[k] : k \in Keys}

VARIABLES down,     \* the keys that are pressed
          chord,    \* is Ctrl, Alt or Cmd pressed?
          focused,  \* does the page have the focus?
          held,     \* the script's set of held keys, by name
          channel,  \* readyState of the current data channel
          attempt,  \* how far connect() is; the button works in two phases
          told,     \* the keys that the robot has been told are held
          heardAs,  \* history: the name that the page heard a key pressed by
          slipped   \* history: names whose keys came up without the page
                    \* hearing them go by those names

keyboardVars ==
  <<down, chord, focused, held, channel, attempt, told, heardAs, slipped>>

KeyboardTypeOK ==
  /\ down \subseteq Keys
  /\ chord \in BOOLEAN
  /\ focused \in BOOLEAN
  /\ held \subseteq KeyNames
  /\ channel \in {"none", "connecting", "open", "closed"}
  /\ attempt \in {"idle", "connecting", "failed", "connected"}
  /\ told \subseteq KeyNames
  /\ heardAs \in [Keys -> SUBSET KeyNames]
  /\ slipped \subseteq KeyNames

KeyboardInit ==
  /\ down = {}
  /\ chord = FALSE
  /\ focused = TRUE
  /\ held = {}
  /\ channel = "none"
  /\ attempt = "idle"
  /\ told = {}
  /\ heardAs = [k \in Keys |-> {}]
  /\ slipped = {}

\* event.key of k, as usableKey returns it, with the keys D pressed.
KeyName(k, D) == IF D \cap ShiftKeys # {} THEN Shifted[k] ELSE Plain[k]

\* send, for each key in S: the channel is reliable and ordered.
Tell(type, S) ==
  told' = IF channel # "open" THEN told
          ELSE IF type = "keydown" THEN told \cup S ELSE told \ S

\* What the page hears of k, with the keys D pressed: nothing without the
\* focus, and nothing that it can use when a modifier makes it a chord.
Hears(k, D) == IF focused /\ ~chord THEN {KeyName(k, D)} ELSE {}

\* The key k has come up; the page has been told of it by the names in heard.
Slips(k, heard) ==
  /\ heardAs' = [heardAs EXCEPT ![k] = {}]
  /\ slipped' = (slipped \cup heardAs[k]) \ heard

\* A key is pressed. Its repetitions are ignored.
KeyDown(k) ==
  /\ k \notin down
  /\ down' = down \cup {k}
  /\ LET heard == Hears(k, down') IN
       /\ held' = held \cup heard
       /\ Tell("keydown", heard)
       /\ heardAs' = [heardAs EXCEPT ![k] = heard]
       /\ slipped' = slipped \ heard
  /\ UNCHANGED <<chord, focused, channel, attempt>>

\* A variant with a fault: a key that is not shown as held is not sent.
KeyUpOfHeld(k) ==
  /\ k \in down
  /\ down' = down \ {k}
  /\ LET heard == Hears(k, down') IN
       /\ held' = held \ heard
       /\ Tell("keyup", heard \cap held')
       /\ Slips(k, heard)
  /\ UNCHANGED <<chord, focused, channel, attempt>>

\* A key is released. A Shift itself is released by its own name.
KeyUp(k) ==
  /\ k \in down
  /\ down' = down \ {k}
  /\ LET heard == Hears(k, down') IN
       /\ held' = held \ heard
       /\ Tell("keyup", heard)
       /\ Slips(k, heard)
  /\ UNCHANGED <<chord, focused, channel, attempt>>

\* Ctrl, Alt or Cmd is pressed or released: no key that usableKey returns.
Chord ==
  /\ Chords
  /\ chord' = ~chord
  /\ UNCHANGED <<down, focused, held, channel, attempt, told, heardAs, slipped>>

\* A variant with a fault: the set is cleared before it is sent.
BlurClearsFirst ==
  /\ focused
  /\ focused' = FALSE
  /\ held' = {}
  /\ Tell("keyup", held')
  /\ heardAs' = [k \in Keys |-> {}]
  /\ slipped' = {}
  /\ UNCHANGED <<down, chord, channel, attempt>>

\* blur, visibilitychange to hidden, pagehide: releaseAll.
Blur ==
  /\ focused
  /\ focused' = FALSE
  /\ Tell("keyup", held)
  /\ held' = {}
  /\ heardAs' = [k \in Keys |-> {}]
  /\ slipped' = {}
  /\ UNCHANGED <<down, chord, channel, attempt>>

Focus ==
  /\ ~focused
  /\ focused' = TRUE
  /\ UNCHANGED <<down, chord, held, channel, attempt, told, heardAs, slipped>>

\* The button: connect() makes a new channel, whatever has become of the last.
ClickConnect ==
  /\ attempt \in {"idle", "failed"}
  /\ attempt' = "connecting"
  /\ channel' = "connecting"
  /\ UNCHANGED <<down, chord, focused, held, told, heardAs, slipped>>

\* Signaling fails: the button is enabled again.
ConnectFails ==
  /\ attempt = "connecting"
  /\ attempt' = "failed"
  /\ UNCHANGED <<down, chord, focused, held, channel, told, heardAs, slipped>>

\* The runner's answer has been set as the remote description.
AnswerSet ==
  /\ attempt = "connecting"
  /\ attempt' = "connected"
  /\ UNCHANGED <<down, chord, focused, held, channel, told, heardAs, slipped>>

\* onopen. Keys that are held already are not sent.
ChannelOpens ==
  /\ attempt = "connected"
  /\ channel = "connecting"
  /\ channel' = "open"
  /\ UNCHANGED <<down, chord, focused, held, attempt, told, heardAs, slipped>>

\* onclose: the session is over, for the robot as well.
ChannelCloses ==
  /\ attempt = "connected"
  /\ channel \in {"connecting", "open"}
  /\ channel' = "closed"
  /\ told' = {}
  /\ slipped' = {}
  /\ UNCHANGED <<down, chord, focused, held, attempt, heardAs>>

KeyboardNext ==
  \/ \E k \in Keys : KeyDown(k) \/ KeyUp(k)
  \/ Chord \/ Blur \/ Focus
  \/ ClickConnect \/ ConnectFails \/ AnswerSet \/ ChannelOpens \/ ChannelCloses

KeyboardSpec == KeyboardInit /\ [][KeyboardNext]_keyboardVars
-----------------------------------------------------------------------------
(***************************************************************************)
(* Properties                                                              *)
(***************************************************************************)
\* "An unfocused page must never keep the robot moving": without the focus the
\* robot is told to hold nothing, however keys were pressed and connections
\* made and lost before.
UnfocusedPageHoldsNothing == ~focused => held = {} /\ told = {}

\* What the robot has been told to hold, the page shows as held, so that
\* releaseAll reaches it.
PageShowsWhatIsTold == told \subseteq held

\* A key of this name is pressed.
IsDown(n) == \E k \in down : n \in {Plain[k], Shifted[k]}

\* A key "pairs its keydown with its keyup": the robot is told to hold a key
\* that is up only if the key came up during a chord, or by another name than
\* it was pressed by (a digit, as Shift changes), since the page last lost the
\* focus, the connection was lost or the name was pressed again. Reconnecting,
\* a second Shift and keys that were pressed elsewhere leave nothing behind.
ReleasedKeysAreUp == \A n \in told : IsDown(n) \/ n \in slipped
=============================================================================
