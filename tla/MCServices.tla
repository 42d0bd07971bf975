----------------------------- MODULE MCServices -----------------------------
(***************************************************************************)
(* The components that meet only through what a request returns, for TLC:  *)
(* TaskEdit, RunnerProtocol, AccessControl, TurnCache, KeyboardTeleop and  *)
(* ResultPages. One of them takes all the steps of a behaviour, and the    *)
(* others stay where they are.                                             *)
(***************************************************************************)
EXTENDS TaskEdit, RunnerProtocol, AccessControl, TurnCache, KeyboardTeleop,
        ResultPages, TLC

CONSTANTS amy, arm

VARIABLE part   \* the component that takes the steps

vars == <<part, taskVars, runnerVars, accessVars, turnVars, keyboardVars, resultsVars>>

Nobody == [users |-> {}, orgs |-> {}]
ByNameAndOrg == [users |-> {amy}, orgs |-> {arm}]
SomeLists == {Nobody, ByNameAndOrg}

Init ==
  /\ part \in {"tasks", "runners", "access", "turn", "keyboard", "results"}
  /\ TaskInit /\ RunnerInit /\ AccessInit /\ TurnInit /\ KeyboardInit /\ ResultsInit
  /\ part # "access" =>
       /\ config = Nobody
       /\ \A u \in Users : github[u] = [login |-> amy, orgs |-> {}]

Next ==
  /\ UNCHANGED part
  /\ \/ /\ part = "tasks" /\ TaskNext
        /\ UNCHANGED <<runnerVars, accessVars, turnVars, keyboardVars, resultsVars>>
     \/ /\ part = "runners" /\ RunnerNext
        /\ UNCHANGED <<taskVars, accessVars, turnVars, keyboardVars, resultsVars>>
     \/ /\ part = "access" /\ AccessNext
        /\ UNCHANGED <<taskVars, runnerVars, turnVars, keyboardVars, resultsVars>>
     \/ /\ part = "turn" /\ TurnNext
        /\ UNCHANGED <<taskVars, runnerVars, accessVars, keyboardVars, resultsVars>>
     \/ /\ part = "keyboard" /\ KeyboardNext
        /\ UNCHANGED <<taskVars, runnerVars, accessVars, turnVars, resultsVars>>
     \/ /\ part = "results" /\ ResultsNext
        /\ UNCHANGED <<taskVars, runnerVars, accessVars, turnVars, keyboardVars>>

Spec == Init /\ [][Next]_vars

TypeOK ==
  /\ TaskTypeOK /\ RunnerTypeOK /\ AccessTypeOK
  /\ TurnTypeOK /\ KeyboardTypeOK /\ ResultsTypeOK

SomeKeys == {"W", "One", "LeftShift", "RightShift"}
TheShifts == {"LeftShift", "RightShift"}
NamesOfKeys == [k \in Keys |-> CASE k = "W" -> "w" [] k = "One" -> "1"
                                 [] OTHER -> "Shift"]
NamesWithShift == [NamesOfKeys EXCEPT !["One"] = "!"]

Symmetry == Permutations(Requests) \cup Permutations(Runners)
              \cup Permutations(PageRequests)
=============================================================================
