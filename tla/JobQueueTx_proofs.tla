------------------------- MODULE JobQueueTx_proofs --------------------------
(***************************************************************************)
(* Type correctness of JobQueueTx, the exclusion of its row locks and its  *)
(* inductive invariant, with the lemmas on its steps that these rest on.   *)
(***************************************************************************)
EXTENDS JobQueueTx, SequenceLemmas

\* The cases of Wants, one by one.
LEMMA WantsCases ==
  ASSUME NEW p
  PROVE
  /\ At(p, "insert claimed") => Wants(p) = {KeyShare("api_key", tx[p].key)}
  /\ At(p, "reference job") => Wants(p) = {KeyShare("job", tx[p].job)}
  /\ At(p, "lock job") =>
       Wants(p) = {ForUpdate("job", j) : j \in jobs \cap {tx[p].job}}
  /\ At(p, "lock claimed") =>
       Wants(p) = {ForUpdate("claimed", j) :
                     j \in {i \in {tx[p].job} : claim[i] # NoKey}}
  /\ At(p, "lock api key") =>
       Wants(p) = {ForUpdate("api_key", k) :
                     k \in {i \in {tx[p].key} : keys[i] = "live"}}
  /\ At(p, "lock released") =>
       Wants(p) = {ForUpdate("claimed", j) :
                     j \in {i \in {tx[p].job} : claim[i] = tx[p].key}}
  /\ At(p, "requeue") =>
       Wants(p) = {KeyShare("job", tx[p].got[n]) :
                     n \in {m \in Unreferenced(p) :
                              \A i \in Unreferenced(p) : m <= i}}
<1>1. At(p, "insert claimed") => Wants(p) = {KeyShare("api_key", tx[p].key)}
  BY Zenon DEF Wants, At
<1>2. At(p, "reference job") => Wants(p) = {KeyShare("job", tx[p].job)}
  BY Zenon DEF Wants, At
<1>3. At(p, "lock job") =>
        Wants(p) = {ForUpdate("job", j) : j \in jobs \cap {tx[p].job}}
  BY Zenon DEF Wants, At
<1>4. At(p, "lock claimed") =>
        Wants(p) = {ForUpdate("claimed", j) :
                      j \in {i \in {tx[p].job} : claim[i] # NoKey}}
  BY Zenon DEF Wants, At
<1>5. At(p, "lock api key") =>
        Wants(p) = {ForUpdate("api_key", k) :
                      k \in {i \in {tx[p].key} : keys[i] = "live"}}
  BY Zenon DEF Wants, At
<1>6. At(p, "lock released") =>
        Wants(p) = {ForUpdate("claimed", j) :
                      j \in {i \in {tx[p].job} : claim[i] = tx[p].key}}
  BY Zenon DEF Wants, At
<1>7. At(p, "requeue") =>
        Wants(p) = {KeyShare("job", tx[p].got[n]) :
                      n \in {m \in Unreferenced(p) :
                               \A i \in Unreferenced(p) : m <= i}}
  BY Zenon DEF Wants, At
<1> QED
  BY <1>1, <1>2, <1>3, <1>4, <1>5, <1>6, <1>7

LEMMA LocksExist ==
  /\ \A j \in Jobs : /\ KeyShare("job", j) \in Locks
                     /\ ForUpdate("job", j) \in Locks
                     /\ ForUpdate("claimed", j) \in Locks
                     /\ ForUpdate("ready", j) \in Locks
  /\ \A k \in Keys : /\ KeyShare("api_key", k) \in Locks
                     /\ ForUpdate("api_key", k) \in Locks
  BY DEF Locks, Modes, KeyShare, ForUpdate

\* What a statement locks is a lock.
LEMMA WantsLocks ==
  ASSUME TypeOK, NEW p \in Procs
  PROVE  Wants(p) \subseteq Locks
<1>1. tx[p] \in Transactions /\ WellFormed(tx[p])
  BY DEF TypeOK
<1>2. CASE At(p, "insert claimed")
  <2>1. tx[p].key \in Keys
    BY <1>1, <1>2 DEF WellFormed, At
  <2>2. Wants(p) = {KeyShare("api_key", tx[p].key)}
    BY <1>2, WantsCases, Zenon
  <2> QED
    BY <2>1, <2>2, LocksExist
<1>3. CASE At(p, "reference job")
  <2>1. tx[p].job \in Jobs
    BY <1>1, <1>3 DEF WellFormed, At
  <2>2. Wants(p) = {KeyShare("job", tx[p].job)}
    BY <1>3, WantsCases, Zenon
  <2> QED
    BY <2>1, <2>2, LocksExist
<1>4. CASE At(p, "lock job")
  <2>1. tx[p].job \in Jobs
    BY <1>1, <1>4 DEF WellFormed, At
  <2>2. Wants(p) = {ForUpdate("job", j) : j \in jobs \cap {tx[p].job}}
    BY <1>4, WantsCases, Zenon
  <2> QED
    BY <2>1, <2>2, LocksExist
<1>5. CASE At(p, "lock claimed")
  <2>1. tx[p].job \in Jobs
    BY <1>1, <1>5 DEF WellFormed, At
  <2>2. Wants(p) = {ForUpdate("claimed", j) :
                      j \in {i \in {tx[p].job} : claim[i] # NoKey}}
    BY <1>5, WantsCases, Zenon
  <2> QED
    BY <2>1, <2>2, LocksExist
<1>6. CASE At(p, "lock api key")
  <2>1. tx[p].key \in Keys
    BY <1>1, <1>6 DEF WellFormed, At
  <2>2. Wants(p) = {ForUpdate("api_key", k) :
                      k \in {i \in {tx[p].key} : keys[i] = "live"}}
    BY <1>6, WantsCases, Zenon
  <2> QED
    BY <2>1, <2>2, LocksExist
<1>7. CASE At(p, "lock released")
  <2>1. tx[p].job \in Jobs
    BY <1>1, <1>7 DEF WellFormed, At
  <2>2. Wants(p) = {ForUpdate("claimed", j) :
                      j \in {i \in {tx[p].job} : claim[i] = tx[p].key}}
    BY <1>7, WantsCases, Zenon
  <2> QED
    BY <2>1, <2>2, LocksExist
<1>8. CASE At(p, "requeue")
  <2>1. \A n \in 1..Len(tx[p].got) : tx[p].got[n] \in Jobs
    BY <1>1, ElementOfSeq DEF Transactions
  <2>2. Wants(p) = {KeyShare("job", tx[p].got[n]) :
                      n \in {m \in Unreferenced(p) :
                               \A i \in Unreferenced(p) : m <= i}}
    BY <1>8, WantsCases, Zenon
  <2> QED
    BY <2>1, <2>2, LocksExist DEF Unreferenced
<1>9. CASE tx[p].pc \in {"idle", "select ready", "read failed",
                         "select claimed", "next row", "commit", "raise"}
  BY <1>9, Zenon DEF Wants
<1> QED
  BY <1>1, <1>2, <1>3, <1>4, <1>5, <1>6, <1>7, <1>8, <1>9
     DEF Transactions, PCs, At
-----------------------------------------------------------------------------
(***************************************************************************)
(* Type correctness                                                        *)
(***************************************************************************)
\* p's record changes to a well-formed one, and nobody else's changes.
OnlyStepOf(p) ==
  /\ tx' \in [Procs -> Transactions]
  /\ WellFormed(tx'[p])
  /\ \A q \in Procs \ {p} : tx'[q] = tx[q]

LEMMA IdleType == Idle \in Transactions /\ WellFormed(Idle)
<1>1. <<>> \in Seq(Jobs)
  BY EmptySeq
<1> QED
  BY <1>1 DEF Idle, Transactions, WellFormed, Ops, PCs

\* The record that a step gives to p is all that the step does to tx.
LEMMA BecomeType ==
  ASSUME TypeOK, NEW p \in Procs, NEW t \in Transactions, WellFormed(t),
         Become(p, t)
  PROVE  OnlyStepOf(p)
  BY DEF OnlyStepOf, Become, TypeOK

LEMMA EndType ==
  ASSUME TypeOK, NEW p \in Procs, End(p)
  PROVE  OnlyStepOf(p)
  BY IdleType, BecomeType DEF End

LEMMA GotoType ==
  ASSUME TypeOK, NEW p \in Procs, NEW pc \in PCs, Goto(p, pc),
         WellFormed([tx[p] EXCEPT !.pc = pc])
  PROVE  OnlyStepOf(p)
<1>1. [tx[p] EXCEPT !.pc = pc] \in Transactions
  BY DEF TypeOK, Transactions
<1> QED
  BY <1>1, BecomeType DEF Goto

LEMMA RaiseType ==
  ASSUME TypeOK, NEW p \in Procs, ~At(p, "idle"), Raise(p)
  PROVE  OnlyStepOf(p)
<1>1. WellFormed([tx[p] EXCEPT !.pc = "raise"])
  BY DEF TypeOK, Transactions, WellFormed, At
<1> QED
  BY <1>1, GotoType DEF Raise, PCs

LEMMA LockType ==
  ASSUME TypeOK, NEW p \in Procs, NEW pc \in PCs, Lock(p, pc),
         WellFormed([tx[p] EXCEPT !.pc = pc])
  PROVE  OnlyStepOf(p)
<1> DEFINE t == [tx[p] EXCEPT !.pc = pc, !.held = @ \cup Wants(p)]
<1>1. t \in Transactions
  BY WantsLocks DEF TypeOK, Transactions
<1>2. WellFormed(t)
  BY DEF TypeOK, Transactions, WellFormed
<1> HIDE DEF t
<1> QED
  BY <1>1, <1>2, BecomeType DEF Lock, t

\* Every step of p keeps its record well-formed.
LEMMA StepType ==
  ASSUME TypeOK, NEW p \in Procs, Step(p)
  PROVE  OnlyStepOf(p)
<1>0. /\ tx[p] \in Transactions
      /\ WellFormed(tx[p])
      /\ JQ!TypeOK
  BY DEF TypeOK
<1>1. CASE SelectNoReady(p)
  BY <1>1, EndType DEF SelectNoReady
<1>2. CASE SelectReady(p)
  <2>1. PICK n \in Claimable(p) :
          Become(p, [tx[p] EXCEPT
            !.pc = "insert claimed", !.job = ready[n],
            !.held = @ \cup {ForUpdate("ready", ready[n])}])
    BY <1>2 DEF SelectReady
  <2>2. ready[n] \in Jobs
    BY <1>0, <2>1, ElementOfSeq DEF Claimable, JQ!TypeOK
  <2> DEFINE t == [tx[p] EXCEPT !.pc = "insert claimed", !.job = ready[n],
                                !.held = @ \cup {ForUpdate("ready", ready[n])}]
  <2>3. ForUpdate("ready", ready[n]) \in Locks
    BY <2>2, LocksExist
  <2>4. t \in Transactions
    BY <1>0, <2>2, <2>3 DEF Transactions, PCs
  <2>5. WellFormed(t)
    BY <1>0, <1>2, <2>2 DEF SelectReady, WellFormed, Transactions, Ops, PCs, At
  <2> HIDE DEF t
  <2> QED
    BY <2>1, <2>4, <2>5, BecomeType DEF t
<1>3. CASE InsertClaimed(p)
  <2>1. CASE Lock(p, "reference job")
    <3>1. WellFormed([tx[p] EXCEPT !.pc = "reference job"])
      BY <1>3, <1>0 DEF InsertClaimed, Transactions, WellFormed, At
    <3>2. "reference job" \in PCs
      BY DEF PCs
    <3> QED
      BY <2>1, <3>1, <3>2, LockType
  <2>2. CASE Raise(p)
    <3>1. ~At(p, "idle")
      BY <1>3 DEF InsertClaimed, At
    <3> QED
      BY <2>2, <3>1, RaiseType
  <2> QED
    BY <1>3, <2>1, <2>2 DEF InsertClaimed
<1>4. CASE ReferenceJob(p)
  <2>1. CASE Lock(p, "commit")
    <3>1. WellFormed([tx[p] EXCEPT !.pc = "commit"])
      BY <1>4, <1>0 DEF ReferenceJob, Transactions, WellFormed, At
    <3>2. "commit" \in PCs
      BY DEF PCs
    <3> QED
      BY <2>1, <3>1, <3>2, LockType
  <2>2. CASE Raise(p)
    <3>1. ~At(p, "idle")
      BY <1>4 DEF ReferenceJob, At
    <3> QED
      BY <2>2, <3>1, RaiseType
  <2> QED
    BY <1>4, <2>1, <2>2 DEF ReferenceJob
<1>5. CASE CommitClaim(p)
  BY <1>5, EndType DEF CommitClaim
<1>6. CASE JobGone(p)
  <2>1. CASE tx[p].op = "timeout"
    <3>1. WellFormed([tx[p] EXCEPT !.pc = "next row"])
      BY <1>6, <1>0, <2>1 DEF JobGone, Transactions, WellFormed, At
    <3>2. Goto(p, "next row") /\ "next row" \in PCs
      BY <1>6, <2>1 DEF JobGone, Refuse, PCs
    <3> QED
      BY <3>1, <3>2, GotoType
  <2>2. CASE tx[p].op # "timeout"
    <3>1. ~At(p, "idle")
      BY <1>6 DEF JobGone, At
    <3> QED
      BY <1>6, <2>2, <3>1, EndType, RaiseType DEF JobGone, Refuse
  <2> QED
    BY <2>1, <2>2
<1>7. CASE LockJob(p)
  <2> DEFINE pc == IF tx[p].op = "retry" THEN "read failed" ELSE "lock claimed"
  <2>1. WellFormed([tx[p] EXCEPT !.pc = pc])
    BY <1>7, <1>0 DEF LockJob, Transactions, WellFormed, At
  <2>2. pc \in PCs
    BY DEF PCs
  <2>3. Lock(p, pc)
    BY <1>7 DEF LockJob
  <2> HIDE DEF pc
  <2> QED
    BY <2>1, <2>2, <2>3, LockType
<1>8. CASE NotClaimed(p)
  <2>1. CASE tx[p].op = "timeout"
    <3>1. WellFormed([tx[p] EXCEPT !.pc = "next row"])
      BY <1>8, <1>0, <2>1 DEF NotClaimed, Transactions, WellFormed, At
    <3>2. Goto(p, "next row") /\ "next row" \in PCs
      BY <1>8, <2>1 DEF NotClaimed, Refuse, PCs
    <3> QED
      BY <3>1, <3>2, GotoType
  <2>2. CASE tx[p].op # "timeout"
    <3>1. ~At(p, "idle")
      BY <1>8 DEF NotClaimed, At
    <3> QED
      BY <1>8, <2>2, <3>1, EndType, RaiseType DEF NotClaimed, Refuse
  <2> QED
    BY <2>1, <2>2
<1>9. CASE ClaimedByAnother(p)
  <2>1. CASE tx[p].op = "timeout"
    <3>1. WellFormed([tx[p] EXCEPT !.pc = "next row"])
      BY <1>9, <1>0, <2>1 DEF ClaimedByAnother, Transactions, WellFormed, At
    <3>2. Lock(p, "next row") /\ "next row" \in PCs
      BY <1>9, <2>1 DEF ClaimedByAnother, PCs
    <3> QED
      BY <3>1, <3>2, LockType
  <2>2. CASE tx[p].op # "timeout"
    <3>1. ~At(p, "idle")
      BY <1>9 DEF ClaimedByAnother, At
    <3> QED
      BY <1>9, <2>2, <3>1, EndType, RaiseType DEF ClaimedByAnother
  <2> QED
    BY <2>1, <2>2
<1>10. CASE LockClaimed(p)
  <2> DEFINE pc == IF tx[p].op = "timeout" THEN "next row" ELSE "commit"
             t == [tx[p] EXCEPT !.pc = pc, !.got = Append(@, tx[p].job),
                                !.held = @ \cup Wants(p)]
  <2>1. tx[p].op \in {"complete", "fail", "timeout"} /\ tx[p].job \in Jobs
    BY <1>0, <1>10 DEF LockClaimed, WellFormed, At
  <2>2. Append(tx[p].got, tx[p].job) \in Seq(Jobs)
    BY <1>0, <2>1, AppendSet DEF Transactions
  <2>3. t \in Transactions
    BY <1>0, <2>1, <2>2, WantsLocks DEF Transactions, PCs
  <2>4. WellFormed(t)
    BY <1>0, <2>1 DEF WellFormed, Transactions, Ops, PCs, At
  <2>5. Become(p, t)
    BY <1>10 DEF LockClaimed
  <2> HIDE DEF t
  <2> QED
    BY <2>3, <2>4, <2>5, BecomeType
<1>11. CASE CommitComplete(p)
  <2>1. ~At(p, "idle")
    BY <1>11 DEF CommitComplete, At
  <2> QED
    BY <1>11, <2>1, EndType, RaiseType DEF CommitComplete
<1>12. CASE CommitFail(p)
  <2>1. ~At(p, "idle")
    BY <1>12 DEF CommitFail, At
  <2> QED
    BY <1>12, <2>1, EndType, RaiseType DEF CommitFail
<1>13. CASE NotFailed(p)
  BY <1>13, EndType DEF NotFailed
<1>14. CASE ReadFailed(p)
  <2>1. CASE Goto(p, "commit")
    <3>1. WellFormed([tx[p] EXCEPT !.pc = "commit"])
      BY <1>14, <1>0 DEF ReadFailed, Transactions, WellFormed, At
    <3>2. "commit" \in PCs
      BY DEF PCs
    <3> QED
      BY <2>1, <3>1, <3>2, GotoType
  <2> QED
    BY <1>14, <2>1 DEF ReadFailed
<1>15. CASE CommitRetry(p)
  <2>1. ~At(p, "idle")
    BY <1>15 DEF CommitRetry, At
  <2> QED
    BY <1>15, <2>1, EndType, RaiseType DEF CommitRetry
<1>16. CASE NextExpired(p)
  <2>1. PICK c \in tx[p].todo :
          Become(p, [tx[p] EXCEPT !.pc = "lock job", !.job = c[1], !.key = c[2],
                                  !.todo = @ \ {c}])
    BY <1>16 DEF NextExpired
  <2>2. c[1] \in Jobs /\ c[2] \in Keys
    BY <1>0, <2>1 DEF Transactions
  <2> DEFINE t == [tx[p] EXCEPT !.pc = "lock job", !.job = c[1], !.key = c[2],
                                !.todo = @ \ {c}]
  <2>3. t \in Transactions
    BY <1>0, <2>2 DEF Transactions, PCs
  <2>4. WellFormed(t)
    BY <1>0, <1>16, <2>2 DEF NextExpired, WellFormed, Transactions, Ops, PCs, At
  <2> HIDE DEF t
  <2> QED
    BY <2>1, <2>3, <2>4, BecomeType DEF t
<1>17. CASE KeyGone(p)
  BY <1>17, EndType DEF KeyGone
<1>18. CASE LockKey(p)
  <2>1. CASE Lock(p, "select claimed")
    <3>1. WellFormed([tx[p] EXCEPT !.pc = "select claimed"])
      BY <1>18, <1>0 DEF LockKey, Transactions, WellFormed, At
    <3>2. "select claimed" \in PCs
      BY DEF PCs
    <3> QED
      BY <2>1, <3>1, <3>2, LockType
  <2> QED
    BY <1>18, <2>1 DEF LockKey
<1>19. CASE SelectClaimed(p)
  <2> DEFINE S == {c \in Jobs \X {tx[p].key} : claim[c[1]] = c[2]}
             t == [tx[p] EXCEPT !.pc = "next row", !.todo = S]
  <2>1. tx[p].op = "delete" /\ tx[p].key \in Keys
    BY <1>0, <1>19 DEF SelectClaimed, WellFormed, At
  <2>2. S \in SUBSET (Jobs \X Keys)
    BY <2>1
  <2>3. t \in Transactions
    BY <1>0, <2>2 DEF Transactions, PCs
  <2>4. WellFormed(t)
    BY <1>0, <2>1 DEF WellFormed, Transactions, Ops, PCs, At
  <2>5. Become(p, t)
    BY <1>19 DEF SelectClaimed
  <2> HIDE DEF t
  <2> QED
    BY <2>3, <2>4, <2>5, BecomeType
<1>20. CASE NextClaimed(p)
  <2>1. CASE tx[p].todo = {}
    <3>1. WellFormed([tx[p] EXCEPT !.pc = "requeue"])
      BY <1>20, <1>0 DEF NextClaimed, Transactions, WellFormed, At
    <3>2. Goto(p, "requeue") /\ "requeue" \in PCs
      BY <1>20, <2>1 DEF NextClaimed, PCs
    <3> QED
      BY <3>1, <3>2, GotoType
  <2>2. CASE tx[p].todo # {}
    <3>1. PICK c \in tx[p].todo :
            Become(p, [tx[p] EXCEPT !.pc = "lock released", !.job = c[1],
                                    !.todo = @ \ {c}])
      BY <1>20, <2>2 DEF NextClaimed
    <3>2. c[1] \in Jobs
      BY <1>0, <3>1 DEF Transactions
    <3> DEFINE t == [tx[p] EXCEPT !.pc = "lock released", !.job = c[1],
                                  !.todo = @ \ {c}]
    <3>3. t \in Transactions
      BY <1>0, <3>2 DEF Transactions, PCs
    <3>4. WellFormed(t)
      BY <1>0, <1>20, <3>2 DEF NextClaimed, WellFormed, Transactions, Ops, PCs, At
    <3> HIDE DEF t
    <3> QED
      BY <3>1, <3>3, <3>4, BecomeType DEF t
  <2> QED
    BY <2>1, <2>2
<1>21. CASE LockReleased(p)
  <2> DEFINE g == IF Wants(p) = {} THEN tx[p].got
                  ELSE Append(tx[p].got, tx[p].job)
             t == [tx[p] EXCEPT !.pc = "next row", !.got = g,
                                !.held = @ \cup Wants(p)]
  <2>1. tx[p].op = "delete" /\ tx[p].job \in Jobs
    BY <1>0, <1>21 DEF LockReleased, WellFormed, At
  <2>2. g \in Seq(Jobs)
    BY <1>0, <2>1, AppendSet DEF Transactions
  <2>3. Become(p, t)
    BY <1>21 DEF LockReleased
  <2> HIDE DEF g
  <2>4. t \in Transactions
    BY <1>0, <2>1, <2>2, WantsLocks DEF Transactions, PCs
  <2>5. WellFormed(t)
    BY <1>0, <2>1 DEF WellFormed, Transactions, Ops, PCs, At
  <2> HIDE DEF t
  <2> QED
    BY <2>3, <2>4, <2>5, BecomeType
<1>22. CASE ReferenceReleased(p)
  <2>1. CASE Lock(p, "requeue")
    <3>1. WellFormed([tx[p] EXCEPT !.pc = "requeue"])
      BY <1>22, <1>0 DEF ReferenceReleased, Transactions, WellFormed, At
    <3>2. "requeue" \in PCs
      BY DEF PCs
    <3> QED
      BY <2>1, <3>1, <3>2, LockType
  <2> QED
    BY <1>22, <2>1 DEF ReferenceReleased
<1>23. CASE CommitDelete(p)
  <2>1. ~At(p, "idle")
    BY <1>23 DEF CommitDelete, At
  <2> QED
    BY <1>23, <2>1, EndType, RaiseType DEF CommitDelete
<1>24. CASE Rollback(p)
  BY <1>24, EndType DEF Rollback
<1> QED
  BY <1>1, <1>2, <1>3, <1>4, <1>5, <1>6, <1>7, <1>8, <1>9, <1>10, <1>11, <1>12, <1>13, <1>14, <1>15, <1>16, <1>17, <1>18, <1>19, <1>20, <1>21, <1>22, <1>23, <1>24 DEF Step

\* A process begins with the null record and what the request names.
LEMMA BeginsType ==
  ASSUME TypeOK, NEW p \in Procs, Begins(p)
  PROVE  OnlyStepOf(p) /\ UNCHANGED db
<1>0. /\ Idle \in Transactions
      /\ JQ!TypeOK /\ expired \subseteq {j \in Jobs : claim[j] # NoKey}
  BY IdleType DEF TypeOK
<1>1. ASSUME NEW k \in Keys, NEW task \in Tasks, StartClaim(p, k, task)
      PROVE  OnlyStepOf(p) /\ UNCHANGED db
  <2> DEFINE t == [Idle EXCEPT !.op = "claim", !.pc = "select ready", !.key = k,
                               !.job = NoJob, !.task = task]
  <2>1. t \in Transactions /\ WellFormed(t)
    BY <1>0 DEF Transactions, WellFormed, Ops, PCs, Idle
  <2>2. Become(p, t)
    BY <1>1 DEF StartClaim, Begin
  <2> HIDE DEF t
  <2> QED
    BY <1>1, <2>1, <2>2, BecomeType DEF StartClaim
<1>2. ASSUME NEW op \in {"complete", "fail"}, NEW k \in Keys, NEW j \in Jobs,
             StartResult(p, op, k, j)
      PROVE  OnlyStepOf(p) /\ UNCHANGED db
  <2> DEFINE t == [Idle EXCEPT !.op = op, !.pc = "lock job", !.key = k,
                               !.job = j, !.task = NoTask]
  <2>1. t \in Transactions /\ WellFormed(t)
    BY <1>0 DEF Transactions, WellFormed, Ops, PCs, Idle
  <2>2. Become(p, t)
    BY <1>2 DEF StartResult, Begin
  <2> HIDE DEF t
  <2> QED
    BY <1>2, <2>1, <2>2, BecomeType DEF StartResult
<1>3. ASSUME NEW j \in Jobs, StartRetry(p, j)
      PROVE  OnlyStepOf(p) /\ UNCHANGED db
  <2> DEFINE t == [Idle EXCEPT !.op = "retry", !.pc = "lock job", !.key = NoKey,
                               !.job = j, !.task = NoTask]
  <2>1. t \in Transactions /\ WellFormed(t)
    BY <1>0 DEF Transactions, WellFormed, Ops, PCs, Idle
  <2>2. Become(p, t)
    BY <1>3 DEF StartRetry, Begin
  <2> HIDE DEF t
  <2> QED
    BY <1>3, <2>1, <2>2, BecomeType DEF StartRetry
<1>4. ASSUME NEW k \in Keys, StartDelete(p, k)
      PROVE  OnlyStepOf(p) /\ UNCHANGED db
  <2> DEFINE t == [Idle EXCEPT !.op = "delete", !.pc = "lock api key", !.key = k,
                               !.job = NoJob, !.task = NoTask]
  <2>1. t \in Transactions /\ WellFormed(t)
    BY <1>0 DEF Transactions, WellFormed, Ops, PCs, Idle
  <2>2. Become(p, t)
    BY <1>4 DEF StartDelete, Begin
  <2> HIDE DEF t
  <2> QED
    BY <1>4, <2>1, <2>2, BecomeType DEF StartDelete
<1>5. CASE StartTimeout(p)
  <2> DEFINE S == {<<j, claim[j]>> : j \in expired}
             t == [Idle EXCEPT !.op = "timeout", !.pc = "next row", !.todo = S]
  <2>1. S \in SUBSET (Jobs \X Keys)
    BY <1>0, <1>5 DEF JQ!TypeOK
  <2>2. Become(p, t)
    BY <1>5 DEF StartTimeout
  <2> HIDE DEF S
  <2>3. t \in Transactions /\ WellFormed(t)
    BY <1>0, <2>1 DEF Transactions, WellFormed, Ops, PCs, Idle
  <2> HIDE DEF t
  <2> QED
    BY <1>5, <2>2, <2>3, BecomeType DEF StartTimeout
<1> QED
  BY <1>1, <1>2, <1>3, <1>4, <1>5 DEF Begins

\* Only the commits of this module write rows.
LEMMA StepsThatWrite ==
  ASSUME NEW p, Step(p)
  PROVE  \/ UNCHANGED db
         \/ CommitClaim(p) \/ CommitComplete(p) \/ CommitFail(p)
         \/ CommitRetry(p) \/ CommitDelete(p)
  BY DEF Step, SelectNoReady, SelectReady, InsertClaimed, ReferenceJob, JobGone,
         LockJob, NotClaimed, ClaimedByAnother, LockClaimed, NotFailed,
         ReadFailed, NextExpired, KeyGone, LockKey, SelectClaimed, NextClaimed,
         LockReleased, ReferenceReleased, Rollback

\* The instance JQ has its own copies of the operators of the libraries.
LEMMA JQCardinality ==
  ASSUME NEW S
  PROVE  JQ!Cardinality(S) = Cardinality(S)
  BY Zenon DEF JQ!Cardinality, Cardinality

\* Counting the jobs of a finite set keeps the failure counts in range.
LEMMA FailureCounts ==
  ASSUME JQ!TypeOK, NEW S, IsFiniteSet(S)
  PROVE  JQ!WithFailures(S) \in [Submissions -> 0..MaxFailures]
<1>1. ASSUME NEW s \in Submissions
      PROVE  Cardinality({j \in S : SubmissionOf[j] = s}) \in Nat
  BY FS_Subset, FS_CardinalityType
<1>2. ASSUME NEW n \in Nat
      PROVE  JQ!Capped(n) \in 0..MaxFailures
  BY JobQueueTxAssumption DEF JQ!Capped
<1>3. ASSUME NEW s \in Submissions
      PROVE  JQ!Capped(failures[s]
               + Cardinality({j \in S : SubmissionOf[j] = s})) \in 0..MaxFailures
  <2>1. failures[s] + Cardinality({j \in S : SubmissionOf[j] = s}) \in Nat
    BY <1>1, JobQueueTxAssumption DEF JQ!TypeOK
  <2> QED
    BY <1>2, <2>1
<1> DEFINE count(s) ==
      JQ!Capped(failures[s] + Cardinality({j \in S : SubmissionOf[j] = s}))
<1>4. \A s \in Submissions : count(s) \in 0..MaxFailures
  BY <1>3
<1>5. JQ!WithFailures(S) = [s \in Submissions |-> count(s)]
  BY JQCardinality DEF JQ!WithFailures
<1> HIDE DEF count
<1> QED
  BY <1>4, <1>5

\* The rows keep their types when a transaction commits.
LEMMA CommitType ==
  ASSUME TypeOK, NEW p \in Procs, Step(p)
  PROVE  JQ!TypeOK' /\ (expired \subseteq {j \in Jobs : claim[j] # NoKey})'
<1>0. /\ tx[p] \in Transactions
      /\ WellFormed(tx[p])
      /\ JQ!TypeOK /\ expired \subseteq {j \in Jobs : claim[j] # NoKey}
  BY DEF TypeOK
<1>1. CASE CommitClaim(p)
  <2>1. tx[p].key \in Keys /\ tx[p].job \in Jobs
    BY <1>0, <1>1 DEF CommitClaim, At, WellFormed
  <2>2. ready' \in Seq(Jobs)
    <3>1. PICK n \in 1..Len(ready) : ready' = RemoveAt(ready, n)
      BY <1>1 DEF CommitClaim
    <3> QED
      BY <1>0, <3>1, RemoveAtSet DEF JQ!TypeOK
  <2>3. claim' \in [Jobs -> Keys \cup {NoKey}]
    BY <1>0, <1>1, <2>1 DEF CommitClaim, JQ!TypeOK
  <2>4. \A j \in expired : claim'[j] # NoKey
    BY <1>0, <1>1, <2>1, JobQueueTxAssumption DEF CommitClaim, JQ!TypeOK
  <2> QED
    BY <1>0, <1>1, <2>2, <2>3, <2>4 DEF CommitClaim, JQ!TypeOK
<1>2. CASE CommitComplete(p)
  <2>1. CASE UNCHANGED db
    BY <1>0, <2>1 DEF db, JQ!TypeOK
  <2>2. CASE ~UNCHANGED db
    <3>1. tx[p].job \in Jobs
      BY <1>0, <1>2 DEF CommitComplete, At, WellFormed
    <3>2. SubmissionOf[tx[p].job] \in Submissions
      BY <3>1, JobQueueTxAssumption DEF JQ!WellBatched
    <3>3. rollouts' \in [Submissions -> Nat]
      BY <1>0, <1>2, <2>2, <3>2 DEF CommitComplete, JQ!TypeOK
    <3>4. claim' \in [Jobs -> Keys \cup {NoKey}]
      BY <1>0, <1>2, <2>2, <3>1 DEF CommitComplete, JQ!TypeOK
    <3>5. \A j \in expired' : j \in Jobs /\ claim'[j] # NoKey
      BY <1>0, <1>2, <2>2, <3>1 DEF CommitComplete, JQ!TypeOK
    <3> QED
      BY <1>0, <1>2, <2>2, <3>3, <3>4, <3>5 DEF CommitComplete, JQ!TypeOK
  <2> QED
    BY <2>1, <2>2
<1>3. CASE CommitFail(p)
  <2>1. CASE UNCHANGED db
    BY <1>0, <2>1 DEF db, JQ!TypeOK
  <2>2. CASE ~UNCHANGED db
    <3> DEFINE S == ToSet(tx[p].got)
    <3>1. S \subseteq Jobs /\ IsFiniteSet(S)
      BY <1>0, ToSetIndices, ToSetFinite DEF Transactions
    <3>2. /\ claim' = [j \in Jobs |-> IF j \in S THEN NoKey ELSE claim[j]]
          /\ failed' = failed \cup S
          /\ failures' = JQ!WithFailures(S)
          /\ expired' = expired \ S
          /\ UNCHANGED <<submissions, jobs, ready, keys, rollouts>>
      BY <1>3, <2>2 DEF CommitFail
    <3> HIDE DEF S
    <3>3. failures' \in [Submissions -> 0..MaxFailures]
      BY <1>0, <3>1, <3>2, FailureCounts
    <3>4. claim' \in [Jobs -> Keys \cup {NoKey}]
      BY <1>0, <3>2 DEF JQ!TypeOK
    <3>5. \A j \in expired' : j \in Jobs /\ claim'[j] # NoKey
      BY <1>0, <3>2
    <3> QED
      BY <1>0, <3>1, <3>2, <3>3, <3>4, <3>5 DEF JQ!TypeOK
  <2> QED
    BY <2>1, <2>2
<1>4. CASE CommitRetry(p)
  <2>1. CASE UNCHANGED db
    BY <1>0, <2>1 DEF db, JQ!TypeOK
  <2>2. CASE ~UNCHANGED db
    <3>1. tx[p].job \in Jobs
      BY <1>0, <1>4 DEF CommitRetry, At, WellFormed
    <3>2. ready' = Append(ready, tx[p].job)
      BY <1>4, <2>2 DEF CommitRetry
    <3>3. ready' \in Seq(Jobs)
      BY <1>0, <3>1, <3>2, AppendSet DEF JQ!TypeOK
    <3> QED
      BY <1>0, <1>4, <2>2, <3>3 DEF CommitRetry, JQ!TypeOK
  <2> QED
    BY <2>1, <2>2
<1>5. CASE CommitDelete(p)
  <2>1. CASE UNCHANGED db
    BY <1>0, <2>1 DEF db, JQ!TypeOK
  <2>2. CASE ~UNCHANGED db
    <3> DEFINE S == ToSet(tx[p].got)
    <3>1. tx[p].got \in Seq(Jobs) /\ S \subseteq Jobs
      BY <1>0, ToSetIndices DEF Transactions
    <3>2. /\ ready' = ready \o tx[p].got
          /\ claim' = [j \in Jobs |-> IF j \in S THEN NoKey ELSE claim[j]]
          /\ keys' = [keys EXCEPT ![tx[p].key] = "deleted"]
          /\ expired' = expired \ S
          /\ UNCHANGED <<submissions, jobs, failed, rollouts, failures>>
      BY <1>5, <2>2 DEF CommitDelete
    <3> HIDE DEF S
    <3>3. ready' \in Seq(Jobs)
      BY <1>0, <3>1, <3>2, ConcatSet DEF JQ!TypeOK
    <3>4. claim' \in [Jobs -> Keys \cup {NoKey}]
      BY <1>0, <3>2 DEF JQ!TypeOK
    <3>5. keys' \in [Keys -> JQ!KeyStates]
      BY <1>0, <3>2 DEF JQ!TypeOK, JQ!KeyStates
    <3>6. \A j \in expired' : j \in Jobs /\ claim'[j] # NoKey
      BY <1>0, <3>2
    <3> QED
      BY <1>0, <3>2, <3>3, <3>4, <3>5, <3>6 DEF JQ!TypeOK
  <2> QED
    BY <2>1, <2>2
<1>6. CASE UNCHANGED db
  BY <1>0, <1>6 DEF db, JQ!TypeOK
<1> QED
  BY <1>1, <1>2, <1>3, <1>4, <1>5, <1>6, StepsThatWrite

LEMMA InitType == Init => TypeOK
<1> SUFFICES ASSUME Init PROVE TypeOK
  OBVIOUS
<1>1. ready \in Seq(Jobs)
  BY EmptySeq DEF Init
<1>2. JQ!TypeOK
  BY <1>1, JobQueueTxAssumption DEF Init, JQ!TypeOK, JQ!KeyStates
<1> QED
  BY <1>2, IdleType DEF Init, TypeOK

LEMMA NextType ==
  ASSUME TypeOK, [Next]_vars
  PROVE  TypeOK'
<1>0. /\ JQ!TypeOK
      /\ expired \subseteq {j \in Jobs : claim[j] # NoKey}
      /\ tx \in [Procs -> Transactions]
      /\ \A p \in Procs : WellFormed(tx[p])
  BY DEF TypeOK
<1>1. ASSUME NEW p \in Procs, OnlyStepOf(p), JQ!TypeOK',
             (expired \subseteq {j \in Jobs : claim[j] # NoKey})'
      PROVE  TypeOK'
  BY <1>0, <1>1 DEF TypeOK, OnlyStepOf
<1>2. ASSUME NEW p \in Procs, OnlyStepOf(p), UNCHANGED db
      PROVE  TypeOK'
  BY <1>0, <1>1, <1>2 DEF db, JQ!TypeOK
<1>3. ASSUME NEW s \in Submissions, Enqueue(s)
      PROVE  TypeOK'
  <2>1. Batch[s] \in Seq(Jobs)
    BY JobQueueTxAssumption DEF JQ!WellBatched
  <2>2. ready' \in Seq(Jobs) /\ ToSet(Batch[s]) \subseteq Jobs
    BY <1>0, <1>3, <2>1, ConcatSet, ToSetIndices DEF Enqueue, JQ!TypeOK
  <2> QED
    BY <1>0, <1>3, <2>2 DEF Enqueue, TypeOK, JQ!TypeOK
<1>4. ASSUME NEW k \in Keys, CreateKey(k)
      PROVE  TypeOK'
  <2>1. keys' \in [Keys -> JQ!KeyStates]
    BY <1>0, <1>4 DEF CreateKey, JQ!TypeOK, JQ!KeyStates
  <2> QED
    BY <1>0, <1>4, <2>1 DEF CreateKey, TypeOK, JQ!TypeOK
<1>5. ASSUME NEW j \in Jobs, Expire(j)
      PROVE  TypeOK'
  BY <1>0, <1>5 DEF Expire, TypeOK, JQ!TypeOK
<1>6. ASSUME NEW p \in Procs, Begins(p)
      PROVE  TypeOK'
  BY <1>2, <1>6, BeginsType
<1>7. ASSUME NEW p \in Procs, Step(p)
      PROVE  TypeOK'
  BY <1>1, <1>7, StepType, CommitType
<1>8. ASSUME NEW p \in Procs, DeadlockVictim(p) \/ Crash(p)
      PROVE  TypeOK'
  BY <1>2, <1>8, EndType DEF DeadlockVictim, Crash
<1>9. CASE UNCHANGED vars
  BY <1>0, <1>9 DEF vars, TypeOK, JQ!TypeOK
<1> QED
  BY <1>3, <1>4, <1>5, <1>6, <1>7, <1>8, <1>9 DEF Next, NextWithoutCrashes

\* The rows and the transactions always have their types, and a transaction is
\* only ever where its operation can be, with the locals it needs set.
THEOREM TypeCorrect == Spec => []TypeOK
  BY InitType, NextType, PTL DEF Spec
-----------------------------------------------------------------------------
(***************************************************************************)
(* Row locks                                                               *)
(***************************************************************************)
\* p adds only locks that no other transaction stands in the way of.
LocksFreely(p) == \A l \in tx'[p].held : l \in tx[p].held \/ Free(p, l)

LEMMA BecomeRecord ==
  ASSUME TypeOK, NEW p \in Procs, NEW t, Become(p, t)
  PROVE  tx'[p] = t
  BY DEF TypeOK, Become

LEMMA EndLocks ==
  ASSUME TypeOK, NEW p \in Procs, End(p)
  PROVE  tx'[p] = Idle /\ LocksFreely(p)
  BY BecomeRecord DEF End, Idle, LocksFreely

LEMMA GotoLocks ==
  ASSUME TypeOK, NEW p \in Procs, NEW pc, Goto(p, pc)
  PROVE  tx'[p].held = tx[p].held /\ LocksFreely(p)
<1>1. tx[p] \in Transactions /\ tx'[p] = [tx[p] EXCEPT !.pc = pc]
  BY BecomeRecord DEF Goto, TypeOK
<1>2. tx'[p].held = tx[p].held
  BY <1>1 DEF Transactions
<1> QED
  BY <1>2 DEF LocksFreely

LEMMA RaiseLocks ==
  ASSUME TypeOK, NEW p \in Procs, Raise(p)
  PROVE  LocksFreely(p)
  BY GotoLocks DEF Raise

LEMMA LockLocks ==
  ASSUME TypeOK, NEW p \in Procs, NEW pc, Lock(p, pc), Granted(p)
  PROVE  LocksFreely(p)
<1>1. /\ tx[p] \in Transactions
      /\ tx'[p] = [tx[p] EXCEPT !.pc = pc, !.held = @ \cup Wants(p)]
  BY BecomeRecord DEF Lock, TypeOK
<1>2. tx'[p].held = tx[p].held \cup Wants(p)
  BY <1>1 DEF Transactions
<1> QED
  BY <1>2 DEF LocksFreely, Granted

\* Every step of a transaction locks only what is free.
LEMMA StepLocks ==
  ASSUME TypeOK, NEW p \in Procs, Step(p)
  PROVE  LocksFreely(p)
<1>0. tx[p] \in Transactions
  BY DEF TypeOK
<1>1. CASE SelectNoReady(p)
  BY <1>1, EndLocks DEF SelectNoReady
<1>2. CASE SelectReady(p)
  <2>1. PICK n \in Claimable(p) :
          Become(p, [tx[p] EXCEPT
            !.pc = "insert claimed", !.job = ready[n],
            !.held = @ \cup {ForUpdate("ready", ready[n])}])
    BY <1>2 DEF SelectReady
  <2>2. tx'[p].held = tx[p].held \cup {ForUpdate("ready", ready[n])}
    BY <1>0, <2>1, BecomeRecord DEF Transactions
  <2>3. Free(p, ForUpdate("ready", ready[n]))
    BY <2>1 DEF Claimable
  <2> QED
    BY <2>2, <2>3 DEF LocksFreely
<1>3. CASE InsertClaimed(p)
  BY <1>3, LockLocks, RaiseLocks DEF InsertClaimed
<1>4. CASE ReferenceJob(p)
  BY <1>4, LockLocks, RaiseLocks DEF ReferenceJob
<1>5. CASE CommitClaim(p)
  BY <1>5, EndLocks DEF CommitClaim
<1>6. CASE JobGone(p)
  BY <1>6, EndLocks, GotoLocks, RaiseLocks DEF JobGone, Refuse
<1>7. CASE LockJob(p)
  BY <1>7, LockLocks DEF LockJob
<1>8. CASE NotClaimed(p)
  BY <1>8, EndLocks, GotoLocks DEF NotClaimed, Refuse
<1>9. CASE ClaimedByAnother(p)
  BY <1>9, LockLocks, EndLocks DEF ClaimedByAnother
<1>10. CASE LockClaimed(p)
  <2>1. tx'[p].held = tx[p].held \cup Wants(p)
    BY <1>0, <1>10, BecomeRecord DEF LockClaimed, Transactions
  <2> QED
    BY <1>10, <2>1 DEF LockClaimed, Granted, LocksFreely
<1>11. CASE CommitComplete(p)
  BY <1>11, EndLocks, RaiseLocks DEF CommitComplete
<1>12. CASE CommitFail(p)
  BY <1>12, EndLocks, RaiseLocks DEF CommitFail
<1>13. CASE NotFailed(p)
  BY <1>13, EndLocks DEF NotFailed
<1>14. CASE ReadFailed(p)
  BY <1>14, GotoLocks DEF ReadFailed
<1>15. CASE CommitRetry(p)
  BY <1>15, EndLocks, RaiseLocks DEF CommitRetry
<1>16. CASE NextExpired(p)
  <2>1. PICK c \in tx[p].todo :
          Become(p, [tx[p] EXCEPT !.pc = "lock job", !.job = c[1], !.key = c[2],
                                  !.todo = @ \ {c}])
    BY <1>16 DEF NextExpired
  <2>2. tx'[p] = [tx[p] EXCEPT !.pc = "lock job", !.job = c[1], !.key = c[2],
                               !.todo = @ \ {c}]
    BY <2>1, BecomeRecord
  <2>3. tx'[p].held = tx[p].held
    BY <1>0, <2>2 DEF Transactions
  <2> QED
    BY <2>3 DEF LocksFreely
<1>17. CASE KeyGone(p)
  BY <1>17, EndLocks DEF KeyGone
<1>18. CASE LockKey(p)
  BY <1>18, LockLocks DEF LockKey
<1>19. CASE SelectClaimed(p)
  <2>1. tx'[p].held = tx[p].held
    BY <1>0, <1>19, BecomeRecord DEF SelectClaimed, Transactions
  <2> QED
    BY <2>1 DEF LocksFreely
<1>20. CASE NextClaimed(p)
  <2>1. CASE tx[p].todo = {}
    BY <1>20, <2>1, GotoLocks DEF NextClaimed
  <2>2. CASE tx[p].todo # {}
    <3>1. PICK c \in tx[p].todo :
            Become(p, [tx[p] EXCEPT !.pc = "lock released", !.job = c[1],
                                    !.todo = @ \ {c}])
      BY <1>20, <2>2 DEF NextClaimed
    <3>2. tx'[p] = [tx[p] EXCEPT !.pc = "lock released", !.job = c[1],
                                 !.todo = @ \ {c}]
      BY <3>1, BecomeRecord
    <3>3. tx'[p].held = tx[p].held
      BY <1>0, <3>2 DEF Transactions
    <3> QED
      BY <3>3 DEF LocksFreely
  <2> QED
    BY <2>1, <2>2
<1>21. CASE LockReleased(p)
  <2>1. tx'[p].held = tx[p].held \cup Wants(p)
    BY <1>0, <1>21, BecomeRecord DEF LockReleased, Transactions
  <2> QED
    BY <1>21, <2>1 DEF LockReleased, Granted, LocksFreely
<1>22. CASE ReferenceReleased(p)
  BY <1>22, LockLocks DEF ReferenceReleased
<1>23. CASE CommitDelete(p)
  BY <1>23, EndLocks, RaiseLocks DEF CommitDelete
<1>24. CASE Rollback(p)
  BY <1>24, EndLocks DEF Rollback
<1> QED
  BY <1>1, <1>2, <1>3, <1>4, <1>5, <1>6, <1>7, <1>8, <1>9, <1>10, <1>11, <1>12,
     <1>13, <1>14, <1>15, <1>16, <1>17, <1>18, <1>19, <1>20, <1>21, <1>22,
     <1>23, <1>24 DEF Step

LEMMA BeginsLocks ==
  ASSUME TypeOK, NEW p \in Procs, Begins(p)
  PROVE  tx'[p].held = {}
<1>0. p \in DOMAIN tx
  BY DEF TypeOK
<1> QED
  BY <1>0 DEF Begins, StartClaim, StartResult, StartRetry, StartDelete,
              StartTimeout, Begin, Become, Idle

LEMMA NextLocks ==
  ASSUME TypeOK, LocksExclusive, [Next]_vars
  PROVE  LocksExclusive'
<1>1. ASSUME NEW p \in Procs, OnlyStepOf(p), LocksFreely(p)
      PROVE  LocksExclusive'
  <2> SUFFICES ASSUME NEW q \in Procs, NEW r \in Procs, q # r,
                      NEW l \in tx'[q].held, NEW m \in tx'[r].held
               PROVE  ~Conflicts(l, m)
    BY DEF LocksExclusive, Conflicts
  <2>1. Conflicts(l, m) <=> Conflicts(m, l)
    BY DEF Conflicts
  <2>2. CASE q # p /\ r # p
    <3>1. l \in tx[q].held /\ m \in tx[r].held
      BY <1>1, <2>2 DEF OnlyStepOf
    <3> QED
      BY <3>1 DEF LocksExclusive
  <2>3. CASE q = p
    <3>1. m \in tx[r].held
      BY <1>1, <2>3 DEF OnlyStepOf
    <3> QED
      BY <1>1, <2>3, <3>1 DEF LocksExclusive, LocksFreely, Free
  <2>4. CASE r = p
    <3>1. l \in tx[q].held
      BY <1>1, <2>4 DEF OnlyStepOf
    <3> QED
      BY <1>1, <2>1, <2>4, <3>1 DEF LocksExclusive, LocksFreely, Free
  <2> QED
    BY <2>2, <2>3, <2>4
<1>2. ASSUME NEW p \in Procs, Step(p)
      PROVE  LocksExclusive'
  BY <1>1, <1>2, StepType, StepLocks
<1>3. ASSUME NEW p \in Procs, Begins(p)
      PROVE  LocksExclusive'
  BY <1>1, <1>3, BeginsType, BeginsLocks DEF LocksFreely
<1>4. ASSUME NEW p \in Procs, DeadlockVictim(p) \/ Crash(p)
      PROVE  LocksExclusive'
  BY <1>1, <1>4, EndType, EndLocks DEF DeadlockVictim, Crash
<1>5. CASE UNCHANGED tx
  BY <1>5 DEF LocksExclusive
<1> QED
  BY <1>2, <1>3, <1>4, <1>5
     DEF Next, NextWithoutCrashes, Enqueue, CreateKey, Expire, vars

\* Two transactions never hold locks on one row that exclude each other.
THEOREM LocksAreExclusive == Spec => []LocksExclusive
<1>1. Init => LocksExclusive
  BY DEF Init, LocksExclusive, Idle
<1> QED
  BY <1>1, TypeCorrect, NextLocks, PTL DEF Spec
-----------------------------------------------------------------------------
(***************************************************************************)
(* The inductive invariant Inv, and with it that a job is in exactly one   *)
(* execution table and that claims belong to live keys.                    *)
(*                                                                         *)
(* A step of p keeps Inv for three reasons. What it destroys, p has locked *)
(* for update (Protected), so no other transaction relies on it            *)
(* (Undisturbed). What p itself relies on next, it has just locked and     *)
(* read (StepHolds). And what it writes, it writes to rows that it relies  *)
(* on (the lemmas on commits).                                             *)
(***************************************************************************)
\* The instance JQ has its own copies of the operators of the libraries.
LEMMA JQToSet ==
  ASSUME NEW s
  PROVE  JQ!ToSet(s) = ToSet(s)
  BY Zenon DEF JQ!ToSet, ToSet

\* Exclusive, in the terms of this module.
OneTable ==
  /\ NoRepeats(ready)
  /\ \A j \in Jobs :
       /\ j \in jobs => j \in ToSet(ready) \/ claim[j] # NoKey \/ j \in failed
       /\ j \notin jobs => j \notin ToSet(ready) /\ claim[j] = NoKey /\ j \notin failed
       /\ ~(j \in ToSet(ready) /\ claim[j] # NoKey)
       /\ ~(j \in ToSet(ready) /\ j \in failed)
       /\ ~(claim[j] # NoKey /\ j \in failed)

LEMMA ExclusiveIsOneTable ==
  (Exclusive <=> OneTable) /\ (Exclusive' <=> OneTable')
<1>1. JQ!ToSet(ready) = ToSet(ready) /\ JQ!ToSet(ready') = ToSet(ready')
  BY JQToSet
<1>2. Exclusive <=> OneTable
  BY <1>1 DEF Exclusive, JQ!Exclusive, OneTable, NoRepeats
<1>3. Exclusive' <=> OneTable'
  BY <1>1 DEF Exclusive, JQ!Exclusive, OneTable, NoRepeats
<1> QED
  BY <1>2, <1>3

\* What transaction p relies on.
Holds(p) == ClaimHolds(tx[p]) /\ ResultHolds(tx[p]) /\ DeleteHolds(tx[p])

\* Whatever a step destroys is locked for update in L.
Protected(L) ==
  /\ \A j \in Jobs :
       /\ j \in ToSet(ready) /\ j \notin ToSet(ready)' => ForUpdate("ready", j) \in L
       /\ j \in jobs /\ j \notin jobs' => ForUpdate("job", j) \in L
       /\ j \in failed /\ j \notin failed' => ForUpdate("job", j) \in L
       /\ claim[j] # NoKey /\ claim'[j] # claim[j] => ForUpdate("claimed", j) \in L
  /\ \A k \in Keys :
       keys[k] = "live" /\ keys'[k] # "live" => ForUpdate("api_key", k) \in L

\* A transaction that holds no lock in the way of L loses nothing.
LEMMA Undisturbed ==
  ASSUME Inv, OneTable', NEW q \in Procs, tx'[q] = tx[q],
         NEW L, Protected(L),
         \A l \in L : \A m \in tx[q].held : ~Conflicts(l, m)
  PROVE  Holds(q)'
<1> DEFINE t == tx[q]
<1>0. /\ t \in Transactions
      /\ WellFormed(t)
      /\ ClaimHolds(t) /\ ResultHolds(t) /\ DeleteHolds(t)
      /\ JQ!TypeOK
  BY DEF Inv, TypeOK, LockedRowsStayAsRead
<1>1. ASSUME NEW table, NEW row, ForUpdate(table, row) \in L
      PROVE  /\ ForUpdate(table, row) \notin t.held
             /\ KeyShare(table, row) \notin t.held
  BY <1>1 DEF Conflicts, ForUpdate, KeyShare
<1>2. \A n \in 1..Len(t.got) : t.got[n] \in Jobs
  BY <1>0, ElementOfSeq DEF Transactions
<1>3. ClaimHolds(tx[q])'
  <2> SUFFICES ASSUME t.op = "claim"
               PROVE  /\ t.pc \in {"insert claimed", "reference job", "commit"} =>
                           /\ ForUpdate("ready", t.job) \in t.held
                           /\ t.job \in ToSet(ready)'
                      /\ t.pc \in {"reference job", "commit"} =>
                           /\ KeyShare("api_key", t.key) \in t.held
                           /\ keys'[t.key] = "live"
                           /\ claim'[t.job] = NoKey
    BY DEF ClaimHolds
  <2>1. t.key \in Keys
    BY <1>0 DEF WellFormed
  <2>2. ASSUME t.pc \in {"insert claimed", "reference job", "commit"}
        PROVE  /\ ForUpdate("ready", t.job) \in t.held
               /\ t.job \in ToSet(ready)'
               /\ claim'[t.job] = NoKey
    <3>1. t.job \in Jobs
      BY <1>0, <2>2 DEF WellFormed
    <3>2. ForUpdate("ready", t.job) \in t.held /\ t.job \in ToSet(ready)
      BY <1>0, <2>2 DEF ClaimHolds
    <3>3. t.job \in ToSet(ready)'
      BY <1>1, <3>1, <3>2 DEF Protected
    <3> QED
      BY <3>1, <3>2, <3>3 DEF OneTable
  <2>3. ASSUME t.pc \in {"reference job", "commit"}
        PROVE  KeyShare("api_key", t.key) \in t.held /\ keys'[t.key] = "live"
    <3>1. KeyShare("api_key", t.key) \in t.held /\ keys[t.key] = "live"
      BY <1>0, <2>3 DEF ClaimHolds
    <3> QED
      BY <1>1, <2>1, <3>1 DEF Protected
  <2> QED
    BY <2>2, <2>3
<1>4. ResultHolds(tx[q])'
  <2>1. ASSUME \/ t.pc \in {"lock claimed", "read failed"}
               \/ t.pc = "commit" /\ t.op \in {"complete", "fail", "retry"}
        PROVE  ForUpdate("job", t.job) \in t.held /\ t.job \in jobs'
    <3>1. t.job \in Jobs
      BY <1>0, <2>1 DEF WellFormed
    <3>2. ForUpdate("job", t.job) \in t.held /\ t.job \in jobs
      BY <1>0, <2>1 DEF ResultHolds
    <3> QED
      BY <1>1, <3>1, <3>2 DEF Protected
  <2>2. ASSUME t.op = "retry", t.pc = "commit"
        PROVE  t.job \in failed'
    <3>1. t.job \in Jobs
      BY <1>0, <2>2 DEF WellFormed
    <3>2. ForUpdate("job", t.job) \in t.held /\ t.job \in failed
      BY <1>0, <2>2 DEF ResultHolds
    <3> QED
      BY <1>1, <3>1, <3>2 DEF Protected
  <2>3. ASSUME t.op \in {"complete", "fail", "timeout"}, NEW n \in 1..Len(t.got)
        PROVE  /\ ForUpdate("job", t.got[n]) \in t.held
               /\ ForUpdate("claimed", t.got[n]) \in t.held
               /\ claim'[t.got[n]] # NoKey
               /\ claim'[t.got[n]] = claim[t.got[n]]
    <3>1. /\ ForUpdate("job", t.got[n]) \in t.held
          /\ ForUpdate("claimed", t.got[n]) \in t.held
          /\ claim[t.got[n]] # NoKey
      BY <1>0, <2>3 DEF ResultHolds
    <3>2. ForUpdate("claimed", t.got[n]) \notin L
      BY <1>1, <3>1
    <3> QED
      BY <1>2, <3>1, <3>2 DEF Protected
  <2>4. ASSUME t.op \in {"complete", "fail"}, t.pc = "commit"
        PROVE  t.got = <<t.job>> /\ claim'[t.job] = t.key
    <3>1. t.got = <<t.job>> /\ claim[t.job] = t.key
      BY <1>0, <2>4 DEF ResultHolds
    <3>2. 1 \in 1..Len(t.got) /\ t.got[1] = t.job
      BY <3>1
    <3> QED
      BY <2>3, <2>4, <3>1, <3>2
  <2> QED
    BY <2>1, <2>2, <2>3, <2>4 DEF ResultHolds
<1>5. DeleteHolds(tx[q])'
  <2>1. ASSUME t.op = "delete", t.pc \notin {"lock api key", "raise"}
        PROVE  /\ ForUpdate("api_key", t.key) \in t.held
               /\ keys'[t.key] = "live"
    <3>1. /\ t.key \in Keys
          /\ ForUpdate("api_key", t.key) \in t.held
          /\ keys[t.key] = "live"
      BY <1>0, <2>1 DEF DeleteHolds, WellFormed
    <3> QED
      BY <1>1, <3>1 DEF Protected
  <2>2. ASSUME t.op = "delete", NEW n \in 1..Len(t.got)
        PROVE  claim'[t.got[n]] = t.key
    <3>1. /\ ForUpdate("claimed", t.got[n]) \in t.held
          /\ claim[t.got[n]] = t.key
          /\ t.key \in Keys
      BY <1>0, <2>2 DEF DeleteHolds, WellFormed
    <3>2. claim[t.got[n]] # NoKey
      BY <3>1, JobQueueTxAssumption
    <3>3. ForUpdate("claimed", t.got[n]) \notin L
      BY <1>1, <3>1
    <3> QED
      BY <1>2, <3>1, <3>2, <3>3 DEF Protected
  <2>3. ASSUME t.op = "delete"
        PROVE  /\ \A n \in 1..Len(t.got) :
                    /\ ForUpdate("claimed", t.got[n]) \in t.held
                    /\ \A m \in 1..Len(t.got) : t.got[m] = t.got[n] => m = n
               /\ \A c \in t.todo : /\ c[2] = t.key
                                     /\ \A n \in 1..Len(t.got) : t.got[n] # c[1]
               /\ t.pc = "lock released" =>
                    /\ \A n \in 1..Len(t.got) : t.got[n] # t.job
                    /\ \A c \in t.todo : c[1] # t.job
    BY <1>0, <2>3 DEF DeleteHolds
  <2> HIDE DEF t
  <2> QED
    BY <2>1, <2>2, <2>3 DEF DeleteHolds, t
<1> QED
  BY <1>3, <1>4, <1>5 DEF Holds
-----------------------------------------------------------------------------
(***************************************************************************)
(* The steps that write no rows                                            *)
(***************************************************************************)
SameLocals(p) ==
  /\ tx'[p].op = tx[p].op
  /\ tx'[p].key = tx[p].key
  /\ tx'[p].job = tx[p].job
  /\ tx'[p].todo = tx[p].todo
  /\ tx'[p].got = tx[p].got

LEMMA GotoFields ==
  ASSUME TypeOK, NEW p \in Procs, NEW pc, Goto(p, pc)
  PROVE  SameLocals(p) /\ tx'[p].pc = pc /\ tx'[p].held = tx[p].held
<1>1. tx[p] \in Transactions /\ tx'[p] = [tx[p] EXCEPT !.pc = pc]
  BY BecomeRecord DEF Goto, TypeOK
<1> QED
  BY <1>1 DEF Transactions, SameLocals

LEMMA LockFields ==
  ASSUME TypeOK, NEW p \in Procs, NEW pc, Lock(p, pc)
  PROVE  /\ SameLocals(p)
         /\ tx'[p].pc = pc
         /\ tx'[p].held = tx[p].held \cup Wants(p)
<1>1. /\ tx[p] \in Transactions
      /\ tx'[p] = [tx[p] EXCEPT !.pc = pc, !.held = @ \cup Wants(p)]
  BY BecomeRecord DEF Lock, TypeOK
<1> QED
  BY <1>1 DEF Transactions, SameLocals

\* The locks of the rows that a statement finds.
LEMMA WantsFound ==
  ASSUME NEW p
  PROVE  /\ At(p, "insert claimed") => KeyShare("api_key", tx[p].key) \in Wants(p)
         /\ At(p, "lock job") /\ tx[p].job \in jobs =>
              ForUpdate("job", tx[p].job) \in Wants(p)
         /\ At(p, "lock claimed") /\ claim[tx[p].job] # NoKey =>
              ForUpdate("claimed", tx[p].job) \in Wants(p)
         /\ At(p, "lock api key") /\ keys[tx[p].key] = "live" =>
              ForUpdate("api_key", tx[p].key) \in Wants(p)
         /\ At(p, "lock released") =>
              /\ claim[tx[p].job] = tx[p].key =>
                   ForUpdate("claimed", tx[p].job) \in Wants(p)
              /\ claim[tx[p].job] # tx[p].key => Wants(p) = {}
<1> DEFINE t == tx[p]
<1>1. At(p, "insert claimed") => KeyShare("api_key", t.key) \in Wants(p)
  BY WantsCases
<1>2. ASSUME At(p, "lock job"), t.job \in jobs
      PROVE  ForUpdate("job", t.job) \in Wants(p)
  <2>1. Wants(p) = {ForUpdate("job", j) : j \in jobs \cap {t.job}}
    BY <1>2, WantsCases, Zenon
  <2>2. t.job \in jobs \cap {t.job}
    BY <1>2
  <2> QED
    BY <2>1, <2>2, Zenon
<1>3. ASSUME At(p, "lock claimed"), claim[t.job] # NoKey
      PROVE  ForUpdate("claimed", t.job) \in Wants(p)
  <2>1. Wants(p) = {ForUpdate("claimed", j) :
                      j \in {i \in {t.job} : claim[i] # NoKey}}
    BY <1>3, WantsCases, Zenon
  <2>2. t.job \in {i \in {t.job} : claim[i] # NoKey}
    BY <1>3
  <2> QED
    BY <2>1, <2>2, Zenon
<1>4. ASSUME At(p, "lock api key"), keys[t.key] = "live"
      PROVE  ForUpdate("api_key", t.key) \in Wants(p)
  <2>1. Wants(p) = {ForUpdate("api_key", k) :
                      k \in {i \in {t.key} : keys[i] = "live"}}
    BY <1>4, WantsCases, Zenon
  <2>2. t.key \in {i \in {t.key} : keys[i] = "live"}
    BY <1>4
  <2> QED
    BY <2>1, <2>2, Zenon
<1>5. ASSUME At(p, "lock released")
      PROVE  /\ claim[t.job] = t.key => ForUpdate("claimed", t.job) \in Wants(p)
             /\ claim[t.job] # t.key => Wants(p) = {}
  <2> DEFINE found == {i \in {t.job} : claim[i] = t.key}
  <2>1. Wants(p) = {ForUpdate("claimed", j) : j \in found}
    BY <1>5, WantsCases, Zenon
  <2>2. /\ claim[t.job] = t.key => t.job \in found
        /\ claim[t.job] # t.key => found = {}
    OBVIOUS
  <2> HIDE DEF found
  <2>3. claim[t.job] = t.key => ForUpdate("claimed", t.job) \in Wants(p)
    BY <2>1, <2>2, Zenon
  <2>4. claim[t.job] # t.key => Wants(p) = {}
    BY <2>1, <2>2
  <2> QED
    BY <2>3, <2>4
<1> QED
  BY <1>1, <1>2, <1>3, <1>4, <1>5

LEMMA IdleHolds ==
  ASSUME NEW p \in Procs, tx'[p] = Idle
  PROVE  Holds(p)'
<1>1. /\ tx'[p].op = "none" /\ tx'[p].pc = "idle"
      /\ tx'[p].got = <<>>
  BY DEF Idle
<1> QED
  BY <1>1 DEF Holds, ClaimHolds, ResultHolds, DeleteHolds

LEMMA EndHolds ==
  ASSUME TypeOK, NEW p \in Procs, End(p)
  PROVE  Holds(p)'
  BY EndLocks, IdleHolds

\* A transaction that has only just begun relies on nothing.
LEMMA BeginHolds ==
  ASSUME TypeOK, NEW p \in Procs, Begins(p)
  PROVE  Holds(p)'
<1>0. p \in DOMAIN tx
  BY DEF TypeOK
<1>1. /\ tx'[p].got = <<>>
      /\ \/ tx'[p].op = "claim" /\ tx'[p].pc = "select ready"
         \/ tx'[p].op \in {"complete", "fail", "retry"} /\ tx'[p].pc = "lock job"
         \/ /\ tx'[p].op = "delete" /\ tx'[p].pc = "lock api key"
            /\ tx'[p].todo = {}
         \/ tx'[p].op = "timeout" /\ tx'[p].pc = "next row"
  <2>1. ASSUME NEW k \in Keys, NEW u \in Tasks, StartClaim(p, k, u)
        PROVE  /\ tx'[p].got = <<>>
               /\ tx'[p].op = "claim" /\ tx'[p].pc = "select ready"
    BY <1>0, <2>1 DEF StartClaim, Begin, Become, Idle
  <2>2. ASSUME NEW op \in {"complete", "fail"}, NEW k \in Keys, NEW j \in Jobs,
               StartResult(p, op, k, j)
        PROVE  tx'[p].got = <<>> /\ tx'[p].op = op /\ tx'[p].pc = "lock job"
    BY <1>0, <2>2 DEF StartResult, Begin, Become, Idle
  <2>3. ASSUME NEW j \in Jobs, StartRetry(p, j)
        PROVE  tx'[p].got = <<>> /\ tx'[p].op = "retry" /\ tx'[p].pc = "lock job"
    BY <1>0, <2>3 DEF StartRetry, Begin, Become, Idle
  <2>4. ASSUME NEW k \in Keys, StartDelete(p, k)
        PROVE  /\ tx'[p].got = <<>> /\ tx'[p].op = "delete"
               /\ tx'[p].pc = "lock api key" /\ tx'[p].todo = {}
    BY <1>0, <2>4 DEF StartDelete, Begin, Become, Idle
  <2>5. ASSUME StartTimeout(p)
        PROVE  tx'[p].got = <<>> /\ tx'[p].op = "timeout" /\ tx'[p].pc = "next row"
    BY <1>0, <2>5 DEF StartTimeout, Become, Idle
  <2>6. CASE \E k \in Keys, u \in Tasks : StartClaim(p, k, u)
    BY <2>1, <2>6
  <2>7. CASE \E op \in {"complete", "fail"}, k \in Keys, j \in Jobs :
               StartResult(p, op, k, j)
    BY <2>2, <2>7
  <2>8. CASE \E j \in Jobs : StartRetry(p, j)
    BY <2>3, <2>8
  <2>9. CASE \E k \in Keys : StartDelete(p, k)
    BY <2>4, <2>9
  <2>10. CASE StartTimeout(p)
    BY <2>5, <2>10
  <2> QED
    BY <2>6, <2>7, <2>8, <2>9, <2>10 DEF Begins
<1>2. 1..Len(tx'[p].got) = {}
  <2>1. tx'[p].got = <<>>
    BY <1>1
  <2>2. 1..Len(<<>>) = {}
    OBVIOUS
  <2> QED
    BY <2>1, <2>2, Zenon
<1>3. ClaimHolds(tx[p])'
  BY <1>1 DEF ClaimHolds
<1>4. ResultHolds(tx[p])'
  BY <1>1, <1>2 DEF ResultHolds
<1>5. DeleteHolds(tx[p])'
  BY <1>1, <1>2 DEF DeleteHolds
<1> QED
  BY <1>3, <1>4, <1>5 DEF Holds

\* Inv, for one transaction.
LEMMA InvOf ==
  ASSUME Inv, NEW p \in Procs
  PROVE  /\ TypeOK
         /\ tx[p] \in Transactions
         /\ WellFormed(tx[p])
         /\ ClaimHolds(tx[p]) /\ ResultHolds(tx[p]) /\ DeleteHolds(tx[p])
         /\ JQ!TypeOK
         /\ OneTable
  BY ExclusiveIsOneTable DEF Inv, TypeOK, LockedRowsStayAsRead

\* A transaction that raises, or goes on to its next row, relies on no more
\* than before.
LEMMA PassHolds ==
  ASSUME Inv, NEW p \in Procs, UNCHANGED db, SameLocals(p),
         tx[p].held \subseteq tx'[p].held,
         \/ tx'[p].pc = "raise"
         \/ /\ tx'[p].pc \in {"next row", "requeue"}
            /\ tx[p].op \in {"timeout", "delete"}
            /\ tx[p].op = "delete" => tx[p].pc \in {"next row", "requeue"}
  PROVE  Holds(p)'
<1>0. ClaimHolds(tx[p]) /\ ResultHolds(tx[p]) /\ DeleteHolds(tx[p])
  BY InvOf
<1>1. ClaimHolds(tx[p])'
  BY DEF ClaimHolds, SameLocals
<1>2. ResultHolds(tx[p])'
  <2>1. tx[p].op \in {"complete", "fail", "timeout"} =>
          \A n \in 1..Len(tx[p].got) : /\ ForUpdate("job", tx[p].got[n]) \in tx'[p].held
                                       /\ ForUpdate("claimed", tx[p].got[n]) \in tx'[p].held
                                       /\ claim'[tx[p].got[n]] # NoKey
    BY <1>0 DEF ResultHolds, db
  <2>2. tx'[p].pc \notin {"lock claimed", "read failed", "commit"}
    OBVIOUS
  <2>3. /\ tx'[p].op \in {"complete", "fail", "timeout"} =>
             tx[p].op \in {"complete", "fail", "timeout"}
        /\ tx'[p].got = tx[p].got
    BY DEF SameLocals
  <2> QED
    BY <2>1, <2>2, <2>3 DEF ResultHolds
<1>3. DeleteHolds(tx[p])'
  <2> SUFFICES ASSUME tx[p].op = "delete"
               PROVE  DeleteHolds(tx[p])'
    BY DEF DeleteHolds, SameLocals
  <2>1. tx'[p].pc \notin {"lock api key", "raise"} =>
          /\ ForUpdate("api_key", tx'[p].key) \in tx'[p].held
          /\ keys'[tx'[p].key] = "live"
    BY <1>0 DEF DeleteHolds, SameLocals, db
  <2>2. \A n \in 1..Len(tx'[p].got) :
          /\ ForUpdate("claimed", tx'[p].got[n]) \in tx'[p].held
          /\ claim'[tx'[p].got[n]] = tx'[p].key
          /\ \A m \in 1..Len(tx'[p].got) : tx'[p].got[m] = tx'[p].got[n] => m = n
    <3>1. \A n \in 1..Len(tx[p].got) :
            /\ ForUpdate("claimed", tx[p].got[n]) \in tx'[p].held
            /\ claim'[tx[p].got[n]] = tx[p].key
            /\ \A m \in 1..Len(tx[p].got) : tx[p].got[m] = tx[p].got[n] => m = n
      BY <1>0 DEF DeleteHolds, db
    <3>2. tx'[p].got = tx[p].got /\ tx'[p].key = tx[p].key
      BY DEF SameLocals
    <3> QED
      BY <3>1, <3>2, Zenon
  <2>3. \A c \in tx'[p].todo : /\ c[2] = tx'[p].key
                               /\ \A n \in 1..Len(tx'[p].got) : tx'[p].got[n] # c[1]
    <3>1. \A c \in tx[p].todo : /\ c[2] = tx[p].key
                                /\ \A n \in 1..Len(tx[p].got) : tx[p].got[n] # c[1]
      BY <1>0 DEF DeleteHolds
    <3>2. /\ tx'[p].got = tx[p].got
          /\ tx'[p].key = tx[p].key
          /\ tx'[p].todo = tx[p].todo
      BY DEF SameLocals
    <3> QED
      BY <3>1, <3>2, Zenon
  <2>4. tx'[p].pc # "lock released"
    OBVIOUS
  <2> QED
    BY <2>1, <2>2, <2>3, <2>4 DEF DeleteHolds
<1> QED
  BY <1>1, <1>2, <1>3 DEF Holds

LEMMA RaiseHolds ==
  ASSUME Inv, NEW p \in Procs, UNCHANGED db, Raise(p)
  PROVE  Holds(p)'
<1>1. SameLocals(p) /\ tx'[p].pc = "raise" /\ tx'[p].held = tx[p].held
  BY InvOf, GotoFields DEF Raise
<1> QED
  BY <1>1, PassHolds

\* A transaction relies on what its operation needs and on nothing else.
LEMMA ClaimOnly ==
  ASSUME NEW p, tx'[p].op = "claim",
         tx'[p].pc \in {"insert claimed", "reference job", "commit"},
         ClaimHolds(tx[p])'
  PROVE  Holds(p)'
<1>1. ResultHolds(tx[p])'
  BY DEF ResultHolds
<1>2. DeleteHolds(tx[p])'
  BY DEF DeleteHolds
<1> QED
  BY <1>1, <1>2 DEF Holds

LEMMA ResultOnly ==
  ASSUME NEW p, tx'[p].op \in {"complete", "fail", "retry", "timeout"},
         ResultHolds(tx[p])'
  PROVE  Holds(p)'
<1>1. ClaimHolds(tx[p])'
  BY DEF ClaimHolds
<1>2. DeleteHolds(tx[p])'
  BY DEF DeleteHolds
<1> QED
  BY <1>1, <1>2 DEF Holds

LEMMA DeleteOnly ==
  ASSUME NEW p, tx'[p].op = "delete",
         tx'[p].pc \notin {"lock claimed", "read failed", "commit"},
         DeleteHolds(tx[p])'
  PROVE  Holds(p)'
<1>1. ClaimHolds(tx[p])'
  BY DEF ClaimHolds
<1>2. ResultHolds(tx[p])'
  BY DEF ResultHolds
<1> QED
  BY <1>1, <1>2 DEF Holds

LEMMA SelectReadyHolds ==
  ASSUME Inv, NEW p \in Procs, SelectReady(p)
  PROVE  Holds(p)'
<1>0. tx[p] \in Transactions /\ WellFormed(tx[p]) /\ JQ!TypeOK /\ OneTable /\ TypeOK
  BY InvOf
<1>1. PICK n \in Claimable(p) :
        Become(p, [tx[p] EXCEPT
          !.pc = "insert claimed", !.job = ready[n],
          !.held = @ \cup {ForUpdate("ready", ready[n])}])
  BY DEF SelectReady
<1>2. /\ tx'[p].op = tx[p].op
      /\ tx'[p].pc = "insert claimed"
      /\ tx'[p].job = ready[n]
      /\ ForUpdate("ready", ready[n]) \in tx'[p].held
  <2>1. tx'[p] = [tx[p] EXCEPT !.pc = "insert claimed", !.job = ready[n],
                               !.held = @ \cup {ForUpdate("ready", ready[n])}]
    BY <1>0, <1>1, BecomeRecord
  <2> QED
    BY <1>0, <2>1 DEF Transactions
<1>3. tx[p].op = "claim"
  BY <1>0 DEF SelectReady, WellFormed, At
<1>4. n \in 1..Len(ready) /\ ready[n] \in ToSet(ready)
  BY <1>0, <1>1, ToSetIndices DEF Claimable, JQ!TypeOK
<1>5. ready' = ready
  BY DEF SelectReady, db
<1>6. ClaimHolds(tx[p])'
  BY <1>2, <1>4, <1>5 DEF ClaimHolds
<1> QED
  BY <1>2, <1>3, <1>6, ClaimOnly

LEMMA InsertClaimedHolds ==
  ASSUME Inv, NEW p \in Procs, InsertClaimed(p)
  PROVE  Holds(p)'
<1>0. TypeOK /\ WellFormed(tx[p]) /\ ClaimHolds(tx[p])
  BY InvOf
<1>1. tx[p].op = "claim" /\ At(p, "insert claimed") /\ UNCHANGED db
  BY <1>0 DEF InsertClaimed, WellFormed, At
<1>2. CASE Raise(p)
  BY <1>1, <1>2, RaiseHolds
<1>3. CASE /\ claim[tx[p].job] = NoKey
           /\ keys[tx[p].key] = "live"
           /\ Lock(p, "reference job")
  <2>1. /\ SameLocals(p)
        /\ tx'[p].pc = "reference job"
        /\ tx'[p].held = tx[p].held \cup Wants(p)
    BY <1>0, <1>3, LockFields
  <2>2. KeyShare("api_key", tx[p].key) \in Wants(p)
    BY <1>1, WantsFound
  <2>3. ForUpdate("ready", tx[p].job) \in tx[p].held /\ tx[p].job \in ToSet(ready)
    BY <1>0, <1>1 DEF ClaimHolds, At
  <2>4. ready' = ready /\ keys' = keys /\ claim' = claim
    BY <1>1 DEF db
  <2>5. ClaimHolds(tx[p])'
    BY <1>3, <2>1, <2>2, <2>3, <2>4 DEF ClaimHolds, SameLocals
  <2> QED
    BY <1>1, <2>1, <2>5, ClaimOnly DEF SameLocals
<1> QED
  BY <1>2, <1>3 DEF InsertClaimed

LEMMA ReferenceJobHolds ==
  ASSUME Inv, NEW p \in Procs, ReferenceJob(p)
  PROVE  Holds(p)'
<1>0. TypeOK /\ WellFormed(tx[p]) /\ ClaimHolds(tx[p])
  BY InvOf
<1>1. tx[p].op = "claim" /\ At(p, "reference job") /\ UNCHANGED db
  BY <1>0 DEF ReferenceJob, WellFormed, At
<1>2. CASE Raise(p)
  BY <1>1, <1>2, RaiseHolds
<1>3. CASE Lock(p, "commit")
  <2>1. /\ SameLocals(p)
        /\ tx'[p].pc = "commit"
        /\ tx'[p].held = tx[p].held \cup Wants(p)
    BY <1>0, <1>3, LockFields
  <2>2. /\ ForUpdate("ready", tx[p].job) \in tx[p].held
        /\ tx[p].job \in ToSet(ready)
        /\ KeyShare("api_key", tx[p].key) \in tx[p].held
        /\ keys[tx[p].key] = "live"
        /\ claim[tx[p].job] = NoKey
    BY <1>0, <1>1 DEF ClaimHolds, At
  <2>3. ready' = ready /\ keys' = keys /\ claim' = claim
    BY <1>1 DEF db
  <2>4. ClaimHolds(tx[p])'
    BY <2>1, <2>2, <2>3 DEF ClaimHolds, SameLocals
  <2> QED
    BY <1>1, <2>1, <2>4, ClaimOnly DEF SameLocals
<1> QED
  BY <1>2, <1>3 DEF ReferenceJob

\* The claims that complete, fail and timeout have locked stay locked.
LEMMA GotHolds ==
  ASSUME Inv, NEW p \in Procs, UNCHANGED claim,
         tx[p].op \in {"complete", "fail", "timeout"},
         tx[p].held \subseteq tx'[p].held, tx'[p].got = tx[p].got
  PROVE  \A n \in 1..Len(tx'[p].got) :
           /\ ForUpdate("job", tx'[p].got[n]) \in tx'[p].held
           /\ ForUpdate("claimed", tx'[p].got[n]) \in tx'[p].held
           /\ claim'[tx'[p].got[n]] # NoKey
<1>1. ResultHolds(tx[p])
  BY InvOf
<1>2. \A n \in 1..Len(tx[p].got) :
        /\ ForUpdate("job", tx[p].got[n]) \in tx'[p].held
        /\ ForUpdate("claimed", tx[p].got[n]) \in tx'[p].held
        /\ claim'[tx[p].got[n]] # NoKey
  BY <1>1 DEF ResultHolds
<1> QED
  BY <1>2, Zenon

LEMMA LockJobHolds ==
  ASSUME Inv, NEW p \in Procs, LockJob(p)
  PROVE  Holds(p)'
<1>0. TypeOK /\ WellFormed(tx[p])
  BY InvOf
<1>1. /\ tx[p].op \in {"complete", "fail", "retry", "timeout"}
      /\ At(p, "lock job") /\ tx[p].job \in jobs /\ UNCHANGED db
  BY <1>0 DEF LockJob, WellFormed, At
<1> DEFINE pc == IF tx[p].op = "retry" THEN "read failed" ELSE "lock claimed"
<1>2. /\ SameLocals(p)
      /\ tx'[p].pc = pc
      /\ tx'[p].held = tx[p].held \cup Wants(p)
  BY <1>0, LockFields DEF LockJob
<1>3. ForUpdate("job", tx[p].job) \in tx'[p].held /\ tx[p].job \in jobs'
  BY <1>1, <1>2, WantsFound DEF db
<1>4. tx[p].op # "retry" =>
        \A n \in 1..Len(tx'[p].got) :
          /\ ForUpdate("job", tx'[p].got[n]) \in tx'[p].held
          /\ ForUpdate("claimed", tx'[p].got[n]) \in tx'[p].held
          /\ claim'[tx'[p].got[n]] # NoKey
  BY <1>1, <1>2, GotHolds DEF SameLocals, db
<1>5. tx'[p].op = tx[p].op /\ tx'[p].job = tx[p].job
  BY <1>2 DEF SameLocals
<1>6. tx'[p].pc # "commit"
  BY <1>2
<1>7. ResultHolds(tx[p])'
  BY <1>3, <1>4, <1>5, <1>6 DEF ResultHolds
<1>8. tx'[p].op \in {"complete", "fail", "retry", "timeout"}
  BY <1>1, <1>5
<1> QED
  BY <1>7, <1>8, ResultOnly

\* The next row of a pass, and a claim that it leaves to another.
LEMMA RefuseHolds ==
  ASSUME Inv, NEW p \in Procs, UNCHANGED db, Refuse(p)
  PROVE  Holds(p)'
<1>0. TypeOK
  BY InvOf
<1>1. CASE End(p)
  BY <1>0, <1>1, EndHolds
<1>2. CASE tx[p].op = "timeout" /\ Goto(p, "next row")
  <2>1. SameLocals(p) /\ tx'[p].pc = "next row" /\ tx'[p].held = tx[p].held
    BY <1>0, <1>2, GotoFields
  <2> QED
    BY <1>2, <2>1, PassHolds
<1> QED
  BY <1>1, <1>2 DEF Refuse

LEMMA ClaimedByAnotherHolds ==
  ASSUME Inv, NEW p \in Procs, ClaimedByAnother(p)
  PROVE  Holds(p)'
<1>0. TypeOK
  BY InvOf
<1>1. CASE End(p)
  BY <1>0, <1>1, EndHolds
<1>2. CASE tx[p].op = "timeout" /\ Lock(p, "next row")
  <2>1. /\ SameLocals(p)
        /\ tx'[p].pc = "next row"
        /\ tx'[p].held = tx[p].held \cup Wants(p)
    BY <1>0, <1>2, LockFields
  <2>2. UNCHANGED db
    BY DEF ClaimedByAnother
  <2> QED
    BY <1>2, <2>1, <2>2, PassHolds
<1> QED
  BY <1>1, <1>2 DEF ClaimedByAnother

LEMMA AppendElements ==
  ASSUME NEW s \in Seq(Jobs), NEW e \in Jobs
  PROVE  \A n \in 1..Len(Append(s, e)) :
           \/ Append(s, e)[n] = e
           \/ n \in 1..Len(s) /\ Append(s, e)[n] = s[n]
<1> DEFINE g == Append(s, e)
<1>1. /\ Len(g) = Len(s) + 1
      /\ \A i \in 1..Len(s) : g[i] = s[i]
      /\ g[Len(s) + 1] = e
  BY AppendProperties
<1>2. Len(s) \in Nat
  BY LenProperties
<1> HIDE DEF g
<1>3. \A n \in 1..Len(g) : n \in 1..Len(s) \/ n = Len(s) + 1
  BY <1>1, <1>2
<1> QED
  BY <1>1, <1>3 DEF g

LEMMA LockClaimedHolds ==
  ASSUME Inv, NEW p \in Procs, LockClaimed(p)
  PROVE  Holds(p)'
<1> DEFINE t == tx[p]
           pc == IF t.op = "timeout" THEN "next row" ELSE "commit"
<1>0. /\ TypeOK /\ t \in Transactions /\ WellFormed(t) /\ ResultHolds(t)
      /\ t.got \in Seq(Jobs)
  BY InvOf DEF Transactions
<1>1. /\ t.op \in {"complete", "fail", "timeout"}
      /\ t.pc = "lock claimed"
      /\ t.job \in Jobs /\ t.key \in Keys
      /\ claim[t.job] = t.key
      /\ UNCHANGED db
  BY <1>0 DEF LockClaimed, WellFormed, At
<1>2. /\ tx'[p].op = t.op /\ tx'[p].key = t.key /\ tx'[p].job = t.job
      /\ tx'[p].pc = pc
      /\ tx'[p].got = Append(t.got, t.job)
      /\ tx'[p].held = t.held \cup Wants(p)
  <2>1. tx'[p] = [t EXCEPT !.pc = pc, !.got = Append(@, t.job),
                           !.held = @ \cup Wants(p)]
    BY <1>0, BecomeRecord DEF LockClaimed
  <2> HIDE DEF t, pc
  <2> QED
    BY <1>0, <2>1 DEF Transactions
<1>3. claim[t.job] # NoKey
  BY <1>1, JobQueueTxAssumption
<1>4. ForUpdate("claimed", t.job) \in tx'[p].held
  BY <1>1, <1>2, <1>3, WantsFound DEF At
<1>5. ForUpdate("job", t.job) \in tx'[p].held /\ t.job \in jobs'
  BY <1>0, <1>1, <1>2 DEF ResultHolds, db
<1>6. \A n \in 1..Len(t.got) : /\ ForUpdate("job", t.got[n]) \in tx'[p].held
                               /\ ForUpdate("claimed", t.got[n]) \in tx'[p].held
                               /\ claim'[t.got[n]] # NoKey
  BY <1>0, <1>1, <1>2 DEF ResultHolds, db
<1>7. \A n \in 1..Len(tx'[p].got) :
        \/ tx'[p].got[n] = t.job
        \/ n \in 1..Len(t.got) /\ tx'[p].got[n] = t.got[n]
  <2>1. t.got \in Seq(Jobs) /\ t.job \in Jobs /\ tx'[p].got = Append(t.got, t.job)
    BY <1>0, <1>1, <1>2
  <2> HIDE DEF t
  <2> QED
    BY <2>1, AppendElements
<1>8. claim'[t.job] = t.key /\ claim'[t.job] # NoKey
  BY <1>1, <1>3 DEF db
<1>9. t.op \in {"complete", "fail"} => tx'[p].got = <<t.job>>
  <2>1. t.op \in {"complete", "fail"} => t.got = <<>>
    BY <1>0, <1>1 DEF WellFormed
  <2>2. Append(<<>>, t.job) = <<t.job>>
    OBVIOUS
  <2> QED
    BY <1>2, <2>1, <2>2
<1> HIDE DEF t, pc
<1>10. \A n \in 1..Len(tx'[p].got) :
        /\ ForUpdate("job", tx'[p].got[n]) \in tx'[p].held
        /\ ForUpdate("claimed", tx'[p].got[n]) \in tx'[p].held
        /\ claim'[tx'[p].got[n]] # NoKey
  <2> SUFFICES ASSUME NEW n \in 1..Len(tx'[p].got)
               PROVE  /\ ForUpdate("job", tx'[p].got[n]) \in tx'[p].held
                      /\ ForUpdate("claimed", tx'[p].got[n]) \in tx'[p].held
                      /\ claim'[tx'[p].got[n]] # NoKey
    BY Zenon
  <2>1. CASE tx'[p].got[n] = t.job
    BY <1>4, <1>5, <1>8, <2>1
  <2>2. CASE n \in 1..Len(t.got) /\ tx'[p].got[n] = t.got[n]
    BY <1>6, <2>2
  <2> QED
    BY <1>7, <2>1, <2>2
<1>11. ResultHolds(tx[p])'
  <2>1. \/ tx'[p].pc \in {"lock claimed", "read failed"}
        \/ tx'[p].pc = "commit" /\ tx'[p].op \in {"complete", "fail", "retry"}
        => ForUpdate("job", tx'[p].job) \in tx'[p].held /\ tx'[p].job \in jobs'
    BY <1>2, <1>5
  <2>2. tx'[p].op # "retry"
    BY <1>1, <1>2
  <2>3. tx'[p].op \in {"complete", "fail"} =>
          tx'[p].got = <<tx'[p].job>> /\ claim'[tx'[p].job] = tx'[p].key
    BY <1>2, <1>8, <1>9
  <2> QED
    BY <1>10, <2>1, <2>2, <2>3 DEF ResultHolds
<1>12. tx'[p].op \in {"complete", "fail", "retry", "timeout"}
  BY <1>1, <1>2
<1> QED
  BY <1>11, <1>12, ResultOnly

LEMMA ReadFailedHolds ==
  ASSUME Inv, NEW p \in Procs, ReadFailed(p)
  PROVE  Holds(p)'
<1>0. TypeOK /\ WellFormed(tx[p]) /\ ResultHolds(tx[p])
  BY InvOf
<1>1. /\ tx[p].op = "retry" /\ tx[p].pc = "read failed"
      /\ tx[p].job \in failed /\ UNCHANGED db
  BY <1>0 DEF ReadFailed, WellFormed, At
<1>2. SameLocals(p) /\ tx'[p].pc = "commit" /\ tx'[p].held = tx[p].held
  BY <1>0, GotoFields DEF ReadFailed
<1>3. ForUpdate("job", tx[p].job) \in tx[p].held /\ tx[p].job \in jobs
  BY <1>0, <1>1 DEF ResultHolds
<1>4. ResultHolds(tx[p])'
  BY <1>1, <1>2, <1>3 DEF ResultHolds, SameLocals, db
<1>5. tx'[p].op = "retry"
  BY <1>1, <1>2 DEF SameLocals
<1> QED
  BY <1>4, <1>5, ResultOnly

LEMMA NextExpiredHolds ==
  ASSUME Inv, NEW p \in Procs, NextExpired(p)
  PROVE  Holds(p)'
<1>0. TypeOK /\ tx[p] \in Transactions
  BY InvOf
<1>1. PICK c \in tx[p].todo :
        Become(p, [tx[p] EXCEPT !.pc = "lock job", !.job = c[1], !.key = c[2],
                                !.todo = @ \ {c}])
  BY DEF NextExpired
<1>2. tx'[p] = [tx[p] EXCEPT !.pc = "lock job", !.job = c[1], !.key = c[2],
                             !.todo = @ \ {c}]
  BY <1>0, <1>1, BecomeRecord
<1>3. /\ tx'[p].op = tx[p].op /\ tx'[p].pc = "lock job"
      /\ tx'[p].got = tx[p].got /\ tx'[p].held = tx[p].held
  BY <1>0, <1>2 DEF Transactions
<1>4. tx[p].op = "timeout" /\ UNCHANGED claim
  BY DEF NextExpired, db
<1>5. \A n \in 1..Len(tx'[p].got) :
        /\ ForUpdate("job", tx'[p].got[n]) \in tx'[p].held
        /\ ForUpdate("claimed", tx'[p].got[n]) \in tx'[p].held
        /\ claim'[tx'[p].got[n]] # NoKey
  BY <1>3, <1>4, GotHolds
<1>6. ResultHolds(tx[p])'
  BY <1>3, <1>4, <1>5 DEF ResultHolds
<1>7. tx'[p].op = "timeout"
  BY <1>3, <1>4
<1> QED
  BY <1>6, <1>7, ResultOnly

\* DeleteHolds of the next state, part by part.
LEMMA DeleteParts ==
  ASSUME NEW p, tx'[p].op = "delete",
         tx'[p].pc \notin {"lock claimed", "read failed", "commit"},
         tx'[p].pc \notin {"lock api key", "raise"} =>
           /\ ForUpdate("api_key", tx'[p].key) \in tx'[p].held
           /\ keys'[tx'[p].key] = "live",
         \A n \in 1..Len(tx'[p].got) :
           /\ ForUpdate("claimed", tx'[p].got[n]) \in tx'[p].held
           /\ claim'[tx'[p].got[n]] = tx'[p].key
           /\ \A m \in 1..Len(tx'[p].got) : tx'[p].got[m] = tx'[p].got[n] => m = n,
         \A c \in tx'[p].todo :
           /\ c[2] = tx'[p].key
           /\ \A n \in 1..Len(tx'[p].got) : tx'[p].got[n] # c[1],
         tx'[p].pc = "lock released" =>
           /\ \A n \in 1..Len(tx'[p].got) : tx'[p].got[n] # tx'[p].job
           /\ \A c \in tx'[p].todo : c[1] # tx'[p].job
  PROVE  Holds(p)'
<1>1. DeleteHolds(tx[p])'
  BY DEF DeleteHolds
<1> QED
  BY <1>1, DeleteOnly

\* The claims that a deletion has locked stay locked.
LEMMA ReleasedHolds ==
  ASSUME Inv, NEW p \in Procs, UNCHANGED claim, tx[p].op = "delete",
         tx[p].held \subseteq tx'[p].held, tx'[p].got = tx[p].got,
         tx'[p].key = tx[p].key
  PROVE  \A n \in 1..Len(tx'[p].got) :
           /\ ForUpdate("claimed", tx'[p].got[n]) \in tx'[p].held
           /\ claim'[tx'[p].got[n]] = tx'[p].key
           /\ \A m \in 1..Len(tx'[p].got) : tx'[p].got[m] = tx'[p].got[n] => m = n
<1>1. DeleteHolds(tx[p])
  BY InvOf
<1>2. \A n \in 1..Len(tx[p].got) :
        /\ ForUpdate("claimed", tx[p].got[n]) \in tx'[p].held
        /\ claim'[tx[p].got[n]] = tx[p].key
        /\ \A m \in 1..Len(tx[p].got) : tx[p].got[m] = tx[p].got[n] => m = n
  BY <1>1 DEF DeleteHolds
<1> QED
  BY <1>2, Zenon

LEMMA LockKeyHolds ==
  ASSUME Inv, NEW p \in Procs, LockKey(p)
  PROVE  Holds(p)'
<1>0. TypeOK /\ WellFormed(tx[p]) /\ DeleteHolds(tx[p])
  BY InvOf
<1>1. /\ tx[p].op = "delete" /\ At(p, "lock api key")
      /\ keys[tx[p].key] = "live" /\ UNCHANGED db
  BY <1>0 DEF LockKey, WellFormed, At
<1>2. /\ SameLocals(p)
      /\ tx'[p].pc = "select claimed"
      /\ tx'[p].held = tx[p].held \cup Wants(p)
  BY <1>0, LockFields DEF LockKey
<1>3. tx'[p].op = "delete" /\ tx'[p].key = tx[p].key
  BY <1>1, <1>2 DEF SameLocals
<1>4. ForUpdate("api_key", tx[p].key) \in tx'[p].held /\ keys'[tx[p].key] = "live"
  BY <1>1, <1>2, WantsFound DEF db
<1>5. \A n \in 1..Len(tx'[p].got) :
        /\ ForUpdate("claimed", tx'[p].got[n]) \in tx'[p].held
        /\ claim'[tx'[p].got[n]] = tx'[p].key
        /\ \A m \in 1..Len(tx'[p].got) : tx'[p].got[m] = tx'[p].got[n] => m = n
  BY <1>1, <1>2, ReleasedHolds DEF SameLocals, db
<1>6. \A c \in tx'[p].todo : /\ c[2] = tx'[p].key
                             /\ \A n \in 1..Len(tx'[p].got) : tx'[p].got[n] # c[1]
  <2>1. \A c \in tx[p].todo : /\ c[2] = tx[p].key
                              /\ \A n \in 1..Len(tx[p].got) : tx[p].got[n] # c[1]
    BY <1>0, <1>1 DEF DeleteHolds
  <2>2. tx'[p].todo = tx[p].todo /\ tx'[p].got = tx[p].got
    BY <1>2 DEF SameLocals
  <2> QED
    BY <1>3, <2>1, <2>2, Zenon
<1> QED
  BY <1>2, <1>3, <1>4, <1>5, <1>6, DeleteParts

LEMMA SelectClaimedHolds ==
  ASSUME Inv, NEW p \in Procs, SelectClaimed(p)
  PROVE  Holds(p)'
<1> DEFINE found == {c \in Jobs \X {tx[p].key} : claim[c[1]] = c[2]}
<1>0. /\ TypeOK /\ tx[p] \in Transactions /\ WellFormed(tx[p])
      /\ DeleteHolds(tx[p])
  BY InvOf
<1>1. /\ tx[p].op = "delete" /\ tx[p].pc = "select claimed"
      /\ tx[p].got = <<>> /\ UNCHANGED db
  BY <1>0 DEF SelectClaimed, WellFormed, At
<1>2. \A c \in found : c[2] = tx[p].key
  OBVIOUS
<1>3. tx'[p] = [tx[p] EXCEPT !.pc = "next row", !.todo = found]
  BY <1>0, BecomeRecord DEF SelectClaimed
<1> HIDE DEF found
<1>4. /\ tx'[p].op = "delete" /\ tx'[p].pc = "next row" /\ tx'[p].got = <<>>
      /\ tx'[p].key = tx[p].key /\ tx'[p].held = tx[p].held
      /\ tx'[p].todo = found
  BY <1>0, <1>1, <1>3 DEF Transactions
<1>5. ForUpdate("api_key", tx[p].key) \in tx'[p].held /\ keys'[tx[p].key] = "live"
  BY <1>0, <1>1, <1>4 DEF DeleteHolds, db
<1>6. 1..Len(tx'[p].got) = {}
  <2>1. 1..Len(<<>>) = {}
    OBVIOUS
  <2> QED
    BY <1>4, <2>1, Zenon
<1> QED
  BY <1>2, <1>4, <1>5, <1>6, DeleteParts

LEMMA NextClaimedHolds ==
  ASSUME Inv, NEW p \in Procs, NextClaimed(p)
  PROVE  Holds(p)'
<1>0. TypeOK /\ tx[p] \in Transactions /\ DeleteHolds(tx[p])
  BY InvOf
<1>1. tx[p].op = "delete" /\ tx[p].pc = "next row" /\ UNCHANGED db
  BY DEF NextClaimed, At
<1>2. CASE tx[p].todo = {}
  <2>1. Goto(p, "requeue")
    BY <1>2 DEF NextClaimed
  <2>2. SameLocals(p) /\ tx'[p].pc = "requeue" /\ tx'[p].held = tx[p].held
    BY <1>0, <2>1, GotoFields
  <2> QED
    BY <1>1, <2>2, PassHolds
<1>3. CASE tx[p].todo # {}
  <2>1. PICK c \in tx[p].todo :
          Become(p, [tx[p] EXCEPT !.pc = "lock released", !.job = c[1],
                                  !.todo = @ \ {c}])
    BY <1>3 DEF NextClaimed
  <2>2. tx'[p] = [tx[p] EXCEPT !.pc = "lock released", !.job = c[1],
                               !.todo = @ \ {c}]
    BY <1>0, <2>1, BecomeRecord
  <2>3. /\ tx'[p].op = "delete" /\ tx'[p].pc = "lock released"
        /\ tx'[p].got = tx[p].got /\ tx'[p].key = tx[p].key
        /\ tx'[p].held = tx[p].held /\ tx'[p].job = c[1]
        /\ tx'[p].todo = tx[p].todo \ {c}
    BY <1>0, <1>1, <2>2 DEF Transactions
  <2>4. ForUpdate("api_key", tx[p].key) \in tx'[p].held /\ keys'[tx[p].key] = "live"
    BY <1>0, <1>1, <2>3 DEF DeleteHolds, db
  <2>5. \A n \in 1..Len(tx'[p].got) :
          /\ ForUpdate("claimed", tx'[p].got[n]) \in tx'[p].held
          /\ claim'[tx'[p].got[n]] = tx'[p].key
          /\ \A m \in 1..Len(tx'[p].got) : tx'[p].got[m] = tx'[p].got[n] => m = n
    BY <1>1, <2>3, ReleasedHolds DEF db
  <2>6. \A d \in tx[p].todo : /\ d[2] = tx[p].key
                              /\ \A n \in 1..Len(tx[p].got) : tx[p].got[n] # d[1]
    BY <1>0, <1>1 DEF DeleteHolds
  <2>7. \A d \in tx'[p].todo : /\ d[2] = tx'[p].key
                               /\ \A n \in 1..Len(tx'[p].got) : tx'[p].got[n] # d[1]
    BY <2>3, <2>6
  <2>8. \A n \in 1..Len(tx'[p].got) : tx'[p].got[n] # tx'[p].job
    BY <2>3, <2>6
  <2>9. ASSUME NEW d \in tx'[p].todo
        PROVE  d[1] # tx'[p].job
    <3>1. d \in tx[p].todo /\ d # c
      BY <2>3
    <3>2. d[2] = c[2] /\ d \in Jobs \X Keys /\ c \in Jobs \X Keys
      BY <1>0, <2>6, <3>1 DEF Transactions
    <3>3. d[1] # c[1]
      BY <3>1, <3>2
    <3> QED
      BY <2>3, <3>3
  <2> QED
    BY <2>3, <2>4, <2>5, <2>7, <2>8, <2>9, DeleteParts
<1> QED
  BY <1>2, <1>3

LEMMA LockReleasedHolds ==
  ASSUME Inv, NEW p \in Procs, LockReleased(p)
  PROVE  Holds(p)'
<1> DEFINE t == tx[p]
           g == IF Wants(p) = {} THEN t.got ELSE Append(t.got, t.job)
<1>0. /\ TypeOK /\ t \in Transactions /\ WellFormed(t) /\ DeleteHolds(t)
      /\ t.got \in Seq(Jobs)
  BY InvOf DEF Transactions
<1>1. /\ t.op = "delete" /\ t.pc = "lock released"
      /\ t.job \in Jobs /\ UNCHANGED db
  BY <1>0 DEF LockReleased, WellFormed, At
<1>2. /\ tx'[p].op = "delete" /\ tx'[p].pc = "next row"
      /\ tx'[p].got = g /\ tx'[p].key = t.key
      /\ tx'[p].held = t.held \cup Wants(p)
      /\ tx'[p].todo = t.todo
  <2>1. tx'[p] = [t EXCEPT !.pc = "next row", !.got = g,
                           !.held = @ \cup Wants(p)]
    BY <1>0, BecomeRecord DEF LockReleased
  <2> HIDE DEF t, g
  <2> QED
    BY <1>0, <1>1, <2>1 DEF Transactions
<1>3. ForUpdate("api_key", t.key) \in tx'[p].held /\ keys'[t.key] = "live"
  BY <1>0, <1>1, <1>2 DEF DeleteHolds, db
<1>4. /\ \A n \in 1..Len(t.got) : /\ ForUpdate("claimed", t.got[n]) \in tx'[p].held
                                  /\ claim'[t.got[n]] = t.key
                                  /\ t.got[n] # t.job
      /\ \A c \in t.todo : /\ c[2] = t.key
                           /\ c[1] # t.job
                           /\ \A n \in 1..Len(t.got) : t.got[n] # c[1]
      /\ NoRepeats(t.got)
  BY <1>0, <1>1, <1>2 DEF DeleteHolds, NoRepeats, db
<1>5. /\ claim[t.job] = t.key => ForUpdate("claimed", t.job) \in Wants(p)
      /\ claim[t.job] # t.key => Wants(p) = {}
  BY <1>1, WantsFound DEF At
<1>6. \/ g = t.got
      \/ /\ g = Append(t.got, t.job)
         /\ ForUpdate("claimed", t.job) \in tx'[p].held
         /\ claim'[t.job] = t.key
  BY <1>1, <1>2, <1>5 DEF db
<1>7. NoRepeats(g)
  <2>1. t.job \notin ToSet(t.got)
    BY <1>0, <1>4, ToSetIndices
  <2>2. NoRepeats(Append(t.got, t.job))
    BY <1>0, <1>1, <1>4, <2>1, AppendSet
  <2> QED
    BY <1>4, <1>6, <2>2
<1>8. \A n \in 1..Len(g) :
        \/ /\ g[n] = t.job
           /\ ForUpdate("claimed", t.job) \in tx'[p].held
           /\ claim'[t.job] = t.key
        \/ n \in 1..Len(t.got) /\ g[n] = t.got[n]
  <2>1. \A n \in 1..Len(Append(t.got, t.job)) :
          \/ Append(t.got, t.job)[n] = t.job
          \/ n \in 1..Len(t.got) /\ Append(t.got, t.job)[n] = t.got[n]
    <3>1. t.got \in Seq(Jobs) /\ t.job \in Jobs
      BY <1>0, <1>1
    <3> HIDE DEF t
    <3> QED
      BY <3>1, AppendElements
  <2> HIDE DEF t, g
  <2> QED
    BY <1>6, <2>1
<1> HIDE DEF t, g
<1>9. \A n \in 1..Len(g) : /\ ForUpdate("claimed", g[n]) \in tx'[p].held
                           /\ claim'[g[n]] = t.key
                           /\ \A m \in 1..Len(g) : g[m] = g[n] => m = n
  BY <1>4, <1>7, <1>8 DEF NoRepeats
<1>10. \A c \in t.todo : c[2] = t.key /\ \A n \in 1..Len(g) : g[n] # c[1]
  BY <1>4, <1>8
<1> QED
  BY <1>2, <1>3, <1>9, <1>10, DeleteParts

LEMMA ReferenceReleasedHolds ==
  ASSUME Inv, NEW p \in Procs, ReferenceReleased(p)
  PROVE  Holds(p)'
<1>0. TypeOK /\ WellFormed(tx[p])
  BY InvOf
<1>1. tx[p].op = "delete" /\ tx[p].pc = "requeue" /\ UNCHANGED db
  BY <1>0 DEF ReferenceReleased, WellFormed, At
<1>2. /\ SameLocals(p)
      /\ tx'[p].pc = "requeue"
      /\ tx'[p].held = tx[p].held \cup Wants(p)
  BY <1>0, LockFields DEF ReferenceReleased
<1> QED
  BY <1>1, <1>2, PassHolds

\* A step that writes no rows leaves p with what it relies on.
LEMMA StepHolds ==
  ASSUME Inv, NEW p \in Procs, Step(p), UNCHANGED db
  PROVE  Holds(p)'
<1>0. TypeOK
  BY InvOf
<1>1. CASE End(p)
  BY <1>0, <1>1, EndHolds
<1>2. CASE Raise(p)
  BY <1>2, RaiseHolds
<1>3. CASE Refuse(p)
  BY <1>3, RefuseHolds
<1>4. CASE \/ SelectNoReady(p) \/ NotFailed(p) \/ KeyGone(p) \/ Rollback(p)
           \/ CommitClaim(p)
  BY <1>1, <1>4 DEF SelectNoReady, NotFailed, KeyGone, Rollback, CommitClaim
<1>5. CASE JobGone(p) \/ NotClaimed(p)
  BY <1>2, <1>3, <1>5 DEF JobGone, NotClaimed
<1>6. CASE CommitComplete(p) \/ CommitFail(p) \/ CommitRetry(p) \/ CommitDelete(p)
  BY <1>1, <1>2, <1>6 DEF CommitComplete, CommitFail, CommitRetry, CommitDelete
<1>7. CASE SelectReady(p) \/ InsertClaimed(p) \/ ReferenceJob(p)
  BY <1>7, SelectReadyHolds, InsertClaimedHolds, ReferenceJobHolds
<1>8. CASE LockJob(p) \/ ClaimedByAnother(p) \/ LockClaimed(p) \/ ReadFailed(p)
  BY <1>8, LockJobHolds, ClaimedByAnotherHolds, LockClaimedHolds, ReadFailedHolds
<1>9. CASE NextExpired(p) \/ LockKey(p) \/ SelectClaimed(p) \/ NextClaimed(p)
  BY <1>9, NextExpiredHolds, LockKeyHolds, SelectClaimedHolds, NextClaimedHolds
<1>10. CASE LockReleased(p) \/ ReferenceReleased(p)
  BY <1>10, LockReleasedHolds, ReferenceReleasedHolds
<1> QED
  BY <1>4, <1>5, <1>6, <1>7, <1>8, <1>9, <1>10 DEF Step
-----------------------------------------------------------------------------
(***************************************************************************)
(* The steps that write rows                                               *)
(***************************************************************************)
\* What a step that writes keeps, when L are the locks of its transaction.
Writes(L) ==
  /\ OneTable'
  /\ ClaimsHaveLiveKeys'
  /\ JobsOfSubmissions'
  /\ Protected(L)

\* The rows in Inv.
LEMMA RowsOf ==
  ASSUME Inv
  PROVE  /\ ready \in Seq(Jobs)
         /\ claim \in [Jobs -> Keys \cup {NoKey}]
         /\ keys \in [Keys -> JQ!KeyStates]
         /\ jobs \subseteq Jobs
         /\ failed \subseteq Jobs
         /\ ToSet(ready) \subseteq Jobs
         /\ OneTable
         /\ \A j \in Jobs : claim[j] # NoKey => keys[claim[j]] = "live"
         /\ \A j \in jobs : SubmissionOf[j] \in submissions
<1>1. JQ!TypeOK
  BY DEF Inv, TypeOK
<1>2. ToSet(ready) \subseteq Jobs
  BY <1>1, ToSetIndices DEF JQ!TypeOK
<1> QED
  BY <1>1, <1>2, ExclusiveIsOneTable
     DEF Inv, JQ!TypeOK, ClaimsHaveLiveKeys, JQ!ClaimsHaveLiveKeys,
         JobsOfSubmissions

\* A claim commits: the ready row that it has locked becomes a claim.
LEMMA ClaimWrites ==
  ASSUME Inv, NEW p \in Procs, CommitClaim(p)
  PROVE  Writes(tx[p].held)
<1> DEFINE j == tx[p].job
           k == tx[p].key
<1>0. /\ tx[p].op = "claim" /\ tx[p].pc = "commit"
      /\ WellFormed(tx[p]) /\ ClaimHolds(tx[p])
  BY InvOf DEF CommitClaim, At
<1>1. j \in Jobs /\ k \in Keys /\ k # NoKey
  BY <1>0, JobQueueTxAssumption DEF WellFormed
<1>2. /\ ForUpdate("ready", j) \in tx[p].held
      /\ j \in ToSet(ready)
      /\ keys[k] = "live"
      /\ claim[j] = NoKey
  BY <1>0 DEF ClaimHolds
<1>3. /\ claim' = [claim EXCEPT ![j] = k]
      /\ UNCHANGED <<submissions, jobs, failed, keys>>
  BY DEF CommitClaim
<1>4. ToSet(ready') = ToSet(ready) \ {j} /\ NoRepeats(ready')
  <2>1. PICK n \in 1..Len(ready) : ready[n] = j /\ ready' = RemoveAt(ready, n)
    BY DEF CommitClaim
  <2>2. ready \in Seq(Jobs) /\ NoRepeats(ready)
    BY RowsOf DEF OneTable
  <2> HIDE DEF j
  <2> QED
    BY <2>1, <2>2, RemoveAtSet
<1> HIDE DEF j, k
<1>5. claim'[j] = k /\ \A i \in Jobs \ {j} : claim'[i] = claim[i]
  BY <1>1, <1>3, RowsOf
<1>6. OneTable'
  BY <1>1, <1>2, <1>3, <1>4, <1>5, RowsOf DEF OneTable
<1>7. ClaimsHaveLiveKeys'
  BY <1>1, <1>2, <1>3, <1>5, RowsOf DEF ClaimsHaveLiveKeys, JQ!ClaimsHaveLiveKeys
<1>8. JobsOfSubmissions'
  BY <1>3, RowsOf DEF JobsOfSubmissions
<1>9. Protected(tx[p].held)
  BY <1>1, <1>2, <1>3, <1>4, <1>5 DEF Protected
<1> QED
  BY <1>6, <1>7, <1>8, <1>9 DEF Writes

\* A result commits: the claim and the job that it has locked are gone.
LEMMA CompleteWrites ==
  ASSUME Inv, NEW p \in Procs, CommitComplete(p), ~UNCHANGED db
  PROVE  Writes(tx[p].held)
<1> DEFINE j == tx[p].job
<1>0. /\ tx[p].op = "complete" /\ tx[p].pc = "commit"
      /\ WellFormed(tx[p]) /\ ResultHolds(tx[p])
  BY InvOf DEF CommitComplete, At
<1>1. j \in Jobs
  BY <1>0 DEF WellFormed
<1>2. tx[p].got = <<j>> /\ ForUpdate("job", j) \in tx[p].held /\ claim[j] = tx[p].key
  BY <1>0 DEF ResultHolds
<1>3. ForUpdate("claimed", j) \in tx[p].held /\ claim[j] # NoKey
  <2>1. 1 \in 1..Len(<<j>>) /\ <<j>>[1] = j
    OBVIOUS
  <2>2. 1 \in 1..Len(tx[p].got) /\ tx[p].got[1] = j
    BY <1>2, <2>1
  <2>3. \A n \in 1..Len(tx[p].got) : /\ ForUpdate("claimed", tx[p].got[n]) \in tx[p].held
                                     /\ claim[tx[p].got[n]] # NoKey
    BY <1>0 DEF ResultHolds
  <2> QED
    BY <2>2, <2>3
<1>4. /\ claim' = [claim EXCEPT ![j] = NoKey]
      /\ jobs' = jobs \ {j}
      /\ UNCHANGED <<submissions, ready, failed, keys>>
  BY DEF CommitComplete
<1> HIDE DEF j
<1>5. claim'[j] = NoKey /\ \A i \in Jobs \ {j} : claim'[i] = claim[i]
  BY <1>1, <1>4, RowsOf
<1>6. OneTable'
  BY <1>1, <1>3, <1>4, <1>5, RowsOf DEF OneTable
<1>7. ClaimsHaveLiveKeys'
  BY <1>1, <1>4, <1>5, RowsOf DEF ClaimsHaveLiveKeys, JQ!ClaimsHaveLiveKeys
<1>8. JobsOfSubmissions'
  BY <1>4, RowsOf DEF JobsOfSubmissions
<1>9. Protected(tx[p].held)
  BY <1>1, <1>2, <1>3, <1>4, <1>5 DEF Protected
<1> QED
  BY <1>6, <1>7, <1>8, <1>9 DEF Writes

\* Claims become failures: every one of them is locked, with its job.
LEMMA FailWrites ==
  ASSUME Inv, NEW p \in Procs, CommitFail(p), ~UNCHANGED db
  PROVE  Writes(tx[p].held)
<1> DEFINE S == ToSet(tx[p].got)
<1>0. tx[p].op \in {"fail", "timeout"} /\ ResultHolds(tx[p]) /\ tx[p].got \in Seq(Jobs)
  BY InvOf DEF CommitFail, Transactions
<1>1. S \subseteq Jobs /\ S = {tx[p].got[n] : n \in 1..Len(tx[p].got)}
  BY <1>0, ToSetIndices
<1>2. \A j \in S : ForUpdate("claimed", j) \in tx[p].held /\ claim[j] # NoKey
  <2>1. \A n \in 1..Len(tx[p].got) : /\ ForUpdate("claimed", tx[p].got[n]) \in tx[p].held
                                     /\ claim[tx[p].got[n]] # NoKey
    BY <1>0 DEF ResultHolds
  <2> QED
    BY <1>1, <2>1
<1>3. /\ claim' = [j \in Jobs |-> IF j \in S THEN NoKey ELSE claim[j]]
      /\ failed' = failed \cup S
      /\ UNCHANGED <<submissions, jobs, ready, keys>>
  BY DEF CommitFail
<1> HIDE DEF S
<1>4. \A j \in Jobs : claim'[j] = IF j \in S THEN NoKey ELSE claim[j]
  BY <1>3
<1>5. OneTable'
  BY <1>1, <1>2, <1>3, <1>4, RowsOf DEF OneTable
<1>6. ClaimsHaveLiveKeys'
  BY <1>3, <1>4, RowsOf DEF ClaimsHaveLiveKeys, JQ!ClaimsHaveLiveKeys
<1>7. JobsOfSubmissions'
  BY <1>3, RowsOf DEF JobsOfSubmissions
<1>8. Protected(tx[p].held)
  BY <1>2, <1>3, <1>4 DEF Protected
<1> QED
  BY <1>5, <1>6, <1>7, <1>8 DEF Writes

\* A retry commits: the failed row of the job that it has locked becomes a
\* ready row.
LEMMA RetryWrites ==
  ASSUME Inv, NEW p \in Procs, CommitRetry(p), ~UNCHANGED db
  PROVE  Writes(tx[p].held)
<1> DEFINE j == tx[p].job
<1>0. /\ tx[p].op = "retry" /\ tx[p].pc = "commit"
      /\ WellFormed(tx[p]) /\ ResultHolds(tx[p])
  BY InvOf DEF CommitRetry, At
<1>1. j \in Jobs
  BY <1>0 DEF WellFormed
<1>2. ForUpdate("job", j) \in tx[p].held /\ j \in jobs /\ j \in failed
  BY <1>0 DEF ResultHolds
<1>3. /\ failed' = failed \ {j}
      /\ ready' = Append(ready, j)
      /\ j \notin ToSet(ready)
      /\ UNCHANGED <<submissions, jobs, claim, keys>>
  BY DEF CommitRetry
<1> HIDE DEF j
<1>4. ToSet(ready') = ToSet(ready) \cup {j} /\ NoRepeats(ready')
  <2>1. ready \in Seq(Jobs) /\ NoRepeats(ready)
    BY RowsOf DEF OneTable
  <2> QED
    BY <1>1, <1>3, <2>1, AppendSet
<1>5. OneTable'
  BY <1>1, <1>2, <1>3, <1>4, RowsOf DEF OneTable
<1>6. ClaimsHaveLiveKeys'
  BY <1>3, RowsOf DEF ClaimsHaveLiveKeys, JQ!ClaimsHaveLiveKeys
<1>7. JobsOfSubmissions'
  BY <1>3, RowsOf DEF JobsOfSubmissions
<1>8. Protected(tx[p].held)
  BY <1>2, <1>3, <1>4 DEF Protected
<1> QED
  BY <1>5, <1>6, <1>7, <1>8 DEF Writes

\* A deletion commits: the claims that it has locked become ready rows, and
\* no other claim belongs to the key.
LEMMA DeleteWrites ==
  ASSUME Inv, NEW p \in Procs, CommitDelete(p), ~UNCHANGED db
  PROVE  Writes(tx[p].held)
<1> DEFINE got == tx[p].got
           S == ToSet(got)
           k == tx[p].key
<1>0. /\ tx[p].op = "delete" /\ tx[p].pc = "requeue"
      /\ WellFormed(tx[p]) /\ DeleteHolds(tx[p]) /\ got \in Seq(Jobs)
  <2>1. WellFormed(tx[p]) /\ DeleteHolds(tx[p]) /\ tx[p] \in Transactions
    BY InvOf
  <2>2. tx[p].pc = "requeue"
    BY DEF CommitDelete, At
  <2> QED
    BY <2>1, <2>2 DEF WellFormed, Transactions
<1>1. k \in Keys /\ k # NoKey
  BY <1>0, JobQueueTxAssumption DEF WellFormed
<1>2. S \subseteq Jobs /\ S = {got[n] : n \in 1..Len(got)}
  BY <1>0, ToSetIndices
<1>3. ForUpdate("api_key", k) \in tx[p].held /\ NoRepeats(got)
  BY <1>0 DEF DeleteHolds, NoRepeats
<1>4. \A j \in S : ForUpdate("claimed", j) \in tx[p].held /\ claim[j] = k
  <2>1. \A n \in 1..Len(got) : ForUpdate("claimed", got[n]) \in tx[p].held
                               /\ claim[got[n]] = k
    BY <1>0 DEF DeleteHolds
  <2> QED
    BY <1>2, <2>1
<1>5. /\ S \cap ToSet(ready) = {}
      /\ \A j \in Jobs \ S : claim[j] # k
      /\ ready' = ready \o got
      /\ claim' = [j \in Jobs |-> IF j \in S THEN NoKey ELSE claim[j]]
      /\ keys' = [keys EXCEPT ![k] = "deleted"]
      /\ UNCHANGED <<submissions, jobs, failed>>
  BY DEF CommitDelete
<1>6. ToSet(ready') = ToSet(ready) \cup S /\ NoRepeats(ready')
  <2>1. ready \in Seq(Jobs) /\ NoRepeats(ready)
    BY RowsOf DEF OneTable
  <2>2. ToSet(ready) \cap ToSet(got) = {}
    BY <1>5
  <2> HIDE DEF got
  <2> QED
    BY <1>0, <1>3, <1>5, <2>1, <2>2, ConcatSet
<1> HIDE DEF got, S, k
<1>7. \A j \in Jobs : claim'[j] = IF j \in S THEN NoKey ELSE claim[j]
  BY <1>5
<1>8. \A i \in Keys \ {k} : keys'[i] = keys[i]
  BY <1>5, RowsOf
<1>9. OneTable'
  BY <1>1, <1>2, <1>4, <1>5, <1>6, <1>7, RowsOf DEF OneTable
<1>10. ClaimsHaveLiveKeys'
  <2> SUFFICES ASSUME NEW j \in Jobs, claim'[j] # NoKey
               PROVE  keys'[claim'[j]] = "live"
    BY DEF ClaimsHaveLiveKeys, JQ!ClaimsHaveLiveKeys
  <2>1. j \notin S /\ claim'[j] = claim[j] /\ claim[j] # k
    BY <1>5, <1>7
  <2>2. claim[j] \in Keys /\ keys[claim[j]] = "live"
    BY <2>1, RowsOf
  <2> QED
    BY <1>8, <2>1, <2>2
<1>11. JobsOfSubmissions'
  BY <1>5, RowsOf DEF JobsOfSubmissions
<1>12. Protected(tx[p].held)
  BY <1>3, <1>4, <1>5, <1>6, <1>7, <1>8 DEF Protected
<1> QED
  BY <1>9, <1>10, <1>11, <1>12 DEF Writes

\* A new submission: its jobs are new, so they are in no table.
LEMMA EnqueueWrites ==
  ASSUME Inv, NEW s \in Submissions, Enqueue(s)
  PROVE  Writes({})
<1> DEFINE B == ToSet(Batch[s])
<1>1. Batch[s] \in Seq(Jobs) /\ NoRepeats(Batch[s])
  BY JobQueueTxAssumption DEF JQ!WellBatched, NoRepeats
<1>2. B \subseteq Jobs /\ \A j \in B : SubmissionOf[j] = s
  <2>1. B \subseteq Jobs
    BY <1>1, ToSetIndices
  <2>2. JQ!ToSet(Batch[s]) = B
    BY JQToSet
  <2> QED
    BY <2>1, <2>2, JobQueueTxAssumption DEF JQ!WellBatched
<1>3. /\ s \notin submissions
      /\ submissions' = submissions \cup {s}
      /\ jobs' = jobs \cup B
      /\ ready' = ready \o Batch[s]
      /\ UNCHANGED <<claim, failed, keys>>
  BY DEF Enqueue
<1>4. B \cap jobs = {}
  BY <1>2, <1>3, RowsOf
<1>5. B \cap ToSet(ready) = {}
  BY <1>2, <1>4, RowsOf DEF OneTable
<1>6. ToSet(ready') = ToSet(ready) \cup B /\ NoRepeats(ready')
  <2>1. ready \in Seq(Jobs) /\ NoRepeats(ready)
    BY RowsOf DEF OneTable
  <2>2. ToSet(ready) \cap ToSet(Batch[s]) = {}
    BY <1>5
  <2> QED
    BY <1>1, <1>3, <2>1, <2>2, ConcatSet
<1> HIDE DEF B
<1>7. OneTable'
  BY <1>2, <1>3, <1>4, <1>6, RowsOf DEF OneTable
<1>8. ClaimsHaveLiveKeys'
  BY <1>3, RowsOf DEF ClaimsHaveLiveKeys, JQ!ClaimsHaveLiveKeys
<1>9. JobsOfSubmissions'
  BY <1>2, <1>3, RowsOf DEF JobsOfSubmissions
<1>10. Protected({})
  BY <1>3, <1>6 DEF Protected
<1> QED
  BY <1>7, <1>8, <1>9, <1>10 DEF Writes

LEMMA CreateKeyWrites ==
  ASSUME Inv, NEW k \in Keys, CreateKey(k)
  PROVE  Writes({})
<1>1. /\ keys' = [keys EXCEPT ![k] = "live"]
      /\ UNCHANGED <<submissions, jobs, ready, claim, failed>>
  BY DEF CreateKey
<1>2. \A i \in Keys : keys'[i] = "live" \/ keys'[i] = keys[i]
  BY <1>1, RowsOf
<1>3. OneTable'
  BY <1>1, RowsOf DEF OneTable
<1>4. ClaimsHaveLiveKeys'
  BY <1>1, <1>2, RowsOf DEF ClaimsHaveLiveKeys, JQ!ClaimsHaveLiveKeys
<1>5. JobsOfSubmissions'
  BY <1>1, RowsOf DEF JobsOfSubmissions
<1>6. Protected({})
  BY <1>1, <1>2 DEF Protected
<1> QED
  BY <1>3, <1>4, <1>5, <1>6 DEF Writes

\* A step that writes nothing, or only what has expired.
LEMMA NothingWritten ==
  ASSUME Inv, UNCHANGED <<submissions, jobs, ready, claim, failed, keys>>, NEW L
  PROVE  Writes(L)
<1>1. OneTable'
  BY RowsOf DEF OneTable
<1>2. ClaimsHaveLiveKeys'
  BY RowsOf DEF ClaimsHaveLiveKeys, JQ!ClaimsHaveLiveKeys
<1>3. JobsOfSubmissions'
  BY RowsOf DEF JobsOfSubmissions
<1>4. Protected(L)
  BY DEF Protected
<1> QED
  BY <1>1, <1>2, <1>3, <1>4 DEF Writes
-----------------------------------------------------------------------------
(***************************************************************************)
(* The invariant                                                           *)
(***************************************************************************)
\* What a step does to its own transaction, and to the rows.
LEMMA StepOfOne ==
  ASSUME Inv, NEW p \in Procs, Step(p)
  PROVE  Writes(tx[p].held) /\ Holds(p)'
<1>0. TypeOK
  BY InvOf
<1>1. CASE UNCHANGED db
  BY <1>1, StepHolds, NothingWritten DEF db
<1>2. CASE CommitClaim(p)
  BY <1>0, <1>2, ClaimWrites, EndHolds DEF CommitClaim
<1>3. CASE CommitComplete(p) /\ ~UNCHANGED db
  <2>1. End(p)
    BY <1>3 DEF CommitComplete
  <2> QED
    BY <1>0, <1>3, <2>1, CompleteWrites, EndHolds
<1>4. CASE CommitFail(p) /\ ~UNCHANGED db
  <2>1. End(p)
    BY <1>4 DEF CommitFail
  <2> QED
    BY <1>0, <1>4, <2>1, FailWrites, EndHolds
<1>5. CASE CommitRetry(p) /\ ~UNCHANGED db
  <2>1. End(p)
    BY <1>5 DEF CommitRetry
  <2> QED
    BY <1>0, <1>5, <2>1, RetryWrites, EndHolds
<1>6. CASE CommitDelete(p) /\ ~UNCHANGED db
  <2>1. End(p)
    BY <1>6 DEF CommitDelete
  <2> QED
    BY <1>0, <1>6, <2>1, DeleteWrites, EndHolds
<1> QED
  BY <1>1, <1>2, <1>3, <1>4, <1>5, <1>6, StepsThatWrite

\* The others keep what they rely on: their locks exclude those of p.
LEMMA OthersHold ==
  ASSUME Inv, NEW p \in Procs, Writes(tx[p].held), Holds(p)', OnlyStepOf(p)
  PROVE  LockedRowsStayAsRead'
<1> SUFFICES ASSUME NEW q \in Procs
             PROVE  Holds(q)'
  BY DEF LockedRowsStayAsRead, Holds
<1>1. CASE q = p
  BY <1>1
<1>2. CASE q # p
  <2>1. tx'[q] = tx[q]
    BY <1>2 DEF OnlyStepOf
  <2>2. \A l \in tx[p].held : \A m \in tx[q].held : ~Conflicts(l, m)
    BY <1>2 DEF Inv, LocksExclusive
  <2>3. OneTable' /\ Protected(tx[p].held)
    BY DEF Writes
  <2> QED
    BY <2>1, <2>2, <2>3, Undisturbed
<1> QED
  BY <1>1, <1>2

LEMMA InitInv == Init => Inv
<1> SUFFICES ASSUME Init PROVE Inv
  OBVIOUS
<1>1. TypeOK
  BY InitType
<1>2. OneTable
  <2>1. 1..Len(<<>>) = {} /\ ready = <<>>
    BY DEF Init
  <2>2. 1..Len(ready) = {}
    BY <2>1, Zenon
  <2>3. NoRepeats(ready)
    BY <2>2 DEF NoRepeats
  <2>4. ToSet(ready) = {}
    BY <1>1, <2>2, ToSetIndices DEF TypeOK, JQ!TypeOK
  <2> QED
    BY <2>3, <2>4 DEF Init, OneTable
<1>3. ClaimsHaveLiveKeys
  BY DEF Init, ClaimsHaveLiveKeys, JQ!ClaimsHaveLiveKeys
<1>4. JobsOfSubmissions
  BY DEF Init, JobsOfSubmissions
<1>5. LocksExclusive
  BY DEF Init, LocksExclusive, Idle
<1>6. LockedRowsStayAsRead
  <2> SUFFICES ASSUME NEW p \in Procs
               PROVE  ClaimHolds(tx[p]) /\ ResultHolds(tx[p]) /\ DeleteHolds(tx[p])
    BY DEF LockedRowsStayAsRead
  <2>1. tx[p].op = "none" /\ tx[p].pc = "idle" /\ tx[p].got = <<>>
    BY DEF Init, Idle
  <2> QED
    BY <2>1 DEF ClaimHolds, ResultHolds, DeleteHolds
<1> QED
  BY <1>1, <1>2, <1>3, <1>4, <1>5, <1>6, ExclusiveIsOneTable DEF Inv

LEMMA NextInv ==
  ASSUME Inv, [Next]_vars
  PROVE  Inv'
<1>0. TypeOK /\ LocksExclusive
  BY DEF Inv
<1>1. TypeOK' /\ LocksExclusive'
  BY <1>0, NextType, NextLocks
<1>2. ASSUME NEW L, Writes(L), LockedRowsStayAsRead'
      PROVE  Inv'
  BY <1>1, <1>2, ExclusiveIsOneTable DEF Inv, Writes
<1>3. ASSUME NEW p \in Procs, Step(p)
      PROVE  Inv'
  BY <1>0, <1>2, <1>3, StepOfOne, OthersHold, StepType
<1>4. ASSUME NEW p \in Procs, OnlyStepOf(p), Holds(p)', UNCHANGED db
      PROVE  Inv'
  <2>1. Writes(tx[p].held)
    BY <1>4, NothingWritten DEF db
  <2> QED
    BY <1>2, <1>4, <2>1, OthersHold
<1>5. ASSUME NEW p \in Procs, Begins(p)
      PROVE  Inv'
  BY <1>0, <1>4, <1>5, BeginsType, BeginHolds
<1>6. ASSUME NEW p \in Procs, DeadlockVictim(p) \/ Crash(p)
      PROVE  Inv'
  BY <1>0, <1>4, <1>6, EndType, EndHolds DEF DeadlockVictim, Crash
<1>7. ASSUME Writes({}), UNCHANGED tx
      PROVE  Inv'
  <2>1. LockedRowsStayAsRead'
    <3> SUFFICES ASSUME NEW q \in Procs
                 PROVE  Holds(q)'
      BY DEF LockedRowsStayAsRead, Holds
    <3> QED
      BY <1>7, Undisturbed DEF Writes
  <2> QED
    BY <1>2, <1>7, <2>1
<1>8. ASSUME NEW s \in Submissions, Enqueue(s)
      PROVE  Inv'
  BY <1>7, <1>8, EnqueueWrites DEF Enqueue
<1>9. ASSUME NEW k \in Keys, CreateKey(k)
      PROVE  Inv'
  BY <1>7, <1>9, CreateKeyWrites DEF CreateKey
<1>10. ASSUME NEW j \in Jobs, Expire(j)
       PROVE  Inv'
  BY <1>7, <1>10, NothingWritten DEF Expire
<1>11. CASE UNCHANGED vars
  BY <1>7, <1>11, NothingWritten DEF vars
<1> QED
  BY <1>3, <1>5, <1>6, <1>8, <1>9, <1>10, <1>11 DEF Next, NextWithoutCrashes

\* Inv is inductive: TLC checks it on small instances, and here it holds for
\* all jobs, keys, requests and workers.
THEOREM InvariantHolds == Spec => []Inv
  BY InitInv, NextInv, PTL DEF Spec

\* However the transactions of requests and workers interleave, wait, crash
\* and abort, a job is in exactly one of the three execution tables while it
\* exists and in none afterwards.
THEOREM JobsInOneTable == Spec => []Exclusive
<1>1. Inv => Exclusive
  BY DEF Inv
<1> QED
  BY <1>1, InvariantHolds, PTL

\* No claim outlives its key: a claim that commits while delete_api_key_page
\* runs is released with the others, or it comes too late and raises.
THEOREM ClaimsOutliveNoKey == Spec => []ClaimsHaveLiveKeys
<1>1. Inv => ClaimsHaveLiveKeys
  BY DEF Inv
<1> QED
  BY <1>1, InvariantHolds, PTL

\* What a transaction has read and locked (FOR UPDATE, SKIP LOCKED or a
\* foreign key's share lock) is still so when it commits.
THEOREM ReadsStayTrue == Spec => []LockedRowsStayAsRead
<1>1. Inv => LockedRowsStayAsRead
  BY DEF Inv
<1> QED
  BY <1>1, InvariantHolds, PTL
=============================================================================
