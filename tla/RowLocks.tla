------------------------------ MODULE RowLocks ------------------------------
(***************************************************************************)
(* PostgreSQL's row locks, as far as the application takes them. A lock is *)
(* a triple of a table, a row and a mode: DELETE and SELECT ... FOR UPDATE *)
(* exclude every other lock of the row, an UPDATE that leaves the key alone*)
(* excludes other writers, and a new row shares its claim on the rows that *)
(* its foreign keys refer to with everybody but a deletion.                *)
(***************************************************************************)
ForUpdate(table, row) == <<table, row, "update">>
NoKeyUpdate(table, row) == <<table, row, "no key update">>
KeyShare(table, row) == <<table, row, "key share">>

Conflicts(l, m) ==
  /\ l[1] = m[1]
  /\ l[2] = m[2]
  /\ \/ l[3] = "update" \/ m[3] = "update"
     \/ l[3] = "no key update" /\ m[3] = "no key update"

\* The sets of transactions in C that each wait for one of the set, given the
\* pairs <<p, q>> such that p waits for q ...
Stuck(C, waits) ==
  {S \in SUBSET C : S # {} /\ \A p \in S : \E q \in S : <<p, q>> \in waits}

\* ... and among them those that are one cycle and nothing less.
WaitCycles(C, waits) ==
  {S \in Stuck(C, waits) : \A R \in Stuck(S, waits) : R = S}
=============================================================================
