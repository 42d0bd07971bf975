------------------------------ MODULE Mailbox ------------------------------
(***************************************************************************)
(* What signaling promises to browsers and runners: an offer is a mailbox  *)
(* that opens once, takes the answer of at most one runner, and closes     *)
(* once. What is taken out is what the accepted runner has put in.         *)
(*                                                                         *)
(* Signaling models the rows, locks and requests behind the mailboxes and  *)
(* is checked to implement this module.                                    *)
(***************************************************************************)
CONSTANTS Offers, Runners, NoRunner

VARIABLES box,     \* box[o]: has the offer been posted, closed?
          writer,  \* writer[o]: the runner whose answer has been accepted
          taken    \* taken[o]: the answers of o that a browser was given

vars == <<box, writer, taken>>

Init ==
  /\ box = [o \in Offers |-> "none"]
  /\ writer = [o \in Offers |-> NoRunner]
  /\ taken = [o \in Offers |-> {}]

\* A runner's answer is accepted: the first one, while the offer is there.
Accept(o, r) ==
  /\ box[o] = "open"
  /\ writer[o] = NoRunner
  /\ writer' = [writer EXCEPT ![o] = r]
  /\ UNCHANGED <<box, taken>>

\* A browser takes the answer. That closes the box, now or, as the response
\* does not wait for the commit, somewhat later.
Take(o) ==
  /\ writer[o] # NoRunner
  /\ taken' = [taken EXCEPT ![o] = @ \cup {writer[o]}]
  /\ box' \in {box, [box EXCEPT ![o] = "closed"]}
  /\ UNCHANGED writer

\* A new offer throws the old ones away; the deletion of a task, or an answer
\* that does not reach its browser, only throws away.
Turnover ==
  /\ box' \in [Offers -> {"none", "open", "closed"}]
  /\ \A o \in Offers :
       box'[o] # box[o] => <<box[o], box'[o]>> \in {<<"none", "open">>, <<"open", "closed">>}
  /\ UNCHANGED <<writer, taken>>

Next ==
  \/ \E o \in Offers : Take(o) \/ \E r \in Runners : Accept(o, r)
  \/ Turnover

Spec == Init /\ [][Next]_vars
=============================================================================
