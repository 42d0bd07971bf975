------------------------------- MODULE MCParts -------------------------------
(***************************************************************************)
(* The two smallest components for TLC: the atomic queue, where jobs j1    *)
(* and j2 belong to submission s1 and job j3 to s2, each submission to a   *)
(* task of its own, and the WebXR page under the fairness of its browser.  *)
(* One of them takes all the steps of a behaviour.                         *)
(***************************************************************************)
EXTENDS JobQueue, WebXRSession, TLC

CONSTANTS j1, j2, j3, s1, s2, t1, t2

VARIABLE part   \* the component that takes the steps

PartsInit ==
  /\ part \in {"queue", "session"}
  /\ Init
  /\ SessionInit

PartsNext ==
  /\ UNCHANGED part
  /\ \/ part = "queue" /\ Next /\ UNCHANGED sessionVars
     \/ part = "session" /\ SessionNext /\ UNCHANGED vars

\* Of the page that takes no steps, fairness asks for none: initially none of
\* its actions is enabled.
PartsSpec ==
  PartsInit /\ [][PartsNext]_<<part, vars, sessionVars>> /\ SessionFairness

MCBatch == (s1 :> <<j1, j2>>) @@ (s2 :> <<j3>>)
MCSubmissionOf == (j1 :> s1) @@ (j2 :> s1) @@ (j3 :> s2)
MCTaskOf == (s1 :> t1) @@ (s2 :> t2)
=============================================================================
