---------------------------- MODULE ResultPages ----------------------------
(***************************************************************************)
(* The results of submissions and the pages that show them: the table of   *)
(* rollouts, the page of one submission's rollouts and the leaderboard of  *)
(* a task, read page by page while runners report results. Each page is a  *)
(* request; it counts the rows, then reads its own, then may read          *)
(* statistics, and each of these statements sees what is committed by then.*)
(***************************************************************************)
EXTENDS Integers, FiniteSets

CONSTANTS SubmissionIds, \* submissions of the task, by id
          Ids,         \* ids of rollouts, drawn in this order
          NoRow,       \* a rollout that is not there
          Size         \* rows of a page

VARIABLES rollout,  \* rollout[i]: the committed row
          adding,   \* adding[i]: the row that an open transaction has inserted
          drawn,    \* the ids that the sequence has given out
          walk      \* the browser that looks at one page after the other

resultsVars == <<rollout, adding, drawn, walk>>

RolloutRows == [submission : SubmissionIds, success : BOOLEAN]

ASSUME ResultPagesAssumption ==
  /\ SubmissionIds \subseteq Nat
  /\ Ids \subseteq Nat
  /\ NoRow \notin RolloutRows
  /\ Size \in Nat \ {0}

Committed(r) == {i \in Ids : r[i] # NoRow}
RolloutsOf(r, s) == {i \in Committed(r) : r[i].submission = s}
-----------------------------------------------------------------------------
(***************************************************************************)
(* Rankings of a table of rollouts                                         *)
(***************************************************************************)
Count(r, s) == Cardinality(RolloutsOf(r, s))
Successes(r, s) == Cardinality({i \in RolloutsOf(r, s) : r[i].success})

\* Only submissions with a rollout are on the leaderboard (an inner join).
Ranked(r) == {s \in SubmissionIds : Count(r, s) > 0}

\* avg(s) > avg(t), without the division.
HigherRate(r, s, t) ==
  Successes(r, s) * Count(r, t) > Successes(r, t) * Count(r, s)

\* A variant with a fault: ORDER BY success_rate, count DESC, id
AheadAscending(r, s, t) ==
  \/ HigherRate(r, t, s)
  \/ /\ ~HigherRate(r, s, t) /\ ~HigherRate(r, t, s)
     /\ \/ Count(r, s) > Count(r, t)
        \/ Count(r, s) = Count(r, t) /\ s < t

\* A variant with a fault: ORDER BY count DESC, success_rate DESC, id
AheadByCount(r, s, t) ==
  \/ Count(r, s) > Count(r, t)
  \/ /\ Count(r, s) = Count(r, t)
     /\ \/ HigherRate(r, s, t)
        \/ ~HigherRate(r, t, s) /\ s < t

\* ORDER BY success_rate DESC, count DESC, id
Ahead(r, s, t) ==
  \/ HigherRate(r, s, t)
  \/ /\ ~HigherRate(r, s, t) /\ ~HigherRate(r, t, s)
     /\ \/ Count(r, s) > Count(r, t)
        \/ Count(r, s) = Count(r, t) /\ s < t

\* What the pages of a walk are cut from, and what is listed before x. No two
\* rows are level: the id decides.
Listed(r) ==
  IF walk.list = "leaderboard" THEN Ranked(r) ELSE RolloutsOf(r, walk.submission)

Before(r, x) ==
  {y \in Listed(r) : IF walk.list = "leaderboard" THEN Ahead(r, y, x) ELSE y < x}

\* A variant with a fault: OFFSET page * size
PageTooLate(r, n) ==
  {x \in Listed(r) : Cardinality(Before(r, x)) \in n * Size .. (n + 1) * Size - 1}

\* OFFSET (page - 1) * size LIMIT size
Page(r, n) ==
  {x \in Listed(r) : Cardinality(Before(r, x)) \in (n - 1) * Size .. n * Size - 1}
-----------------------------------------------------------------------------
NoWalk == [list |-> "none", submission |-> 0, at |-> "idle", page |-> 0,
           total |-> 0, count |-> 0, seen |-> {},
           old |-> [i \in Ids |-> NoRow]]

ResultsInit ==
  /\ rollout = [i \in Ids |-> NoRow]
  /\ adding = [i \in Ids |-> NoRow]
  /\ drawn = {}
  /\ walk = NoWalk

\* create_rollout: the id is drawn when the row is inserted ...
Insert ==
  \E i \in Ids \ drawn, row \in RolloutRows :
    /\ \A j \in Ids \ drawn : i <= j
    /\ adding' = [adding EXCEPT ![i] = row]
    /\ drawn' = drawn \cup {i}
    /\ UNCHANGED <<rollout, walk>>

\* ... and others see the row when the request commits.
Commit(i) ==
  /\ adding[i] # NoRow
  /\ rollout' = [rollout EXCEPT ![i] = adding[i]]
  /\ adding' = [adding EXCEPT ![i] = NoRow]
  /\ UNCHANGED <<drawn, walk>>

AbortRollout(i) ==
  /\ adding[i] # NoRow
  /\ adding' = [adding EXCEPT ![i] = NoRow]
  /\ UNCHANGED <<rollout, drawn, walk>>

\* Somebody opens the first page of a list.
Open ==
  /\ walk.at \in {"idle", "done"}
  /\ \E l \in {"leaderboard", "rollouts"}, s \in SubmissionIds :
       walk' = [NoWalk EXCEPT !.list = l, !.submission = s, !.at = "count",
                              !.page = 1, !.old = rollout]
  /\ UNCHANGED <<rollout, adding, drawn>>

\* paginate(): SELECT count(*) ...
CountRows ==
  /\ walk.at = "count"
  /\ walk' = [walk EXCEPT !.at = "read", !.total = Cardinality(Listed(rollout))]
  /\ UNCHANGED <<rollout, adding, drawn>>

\* ... and SELECT ..., the rows of the page.
ReadRows ==
  /\ walk.at = "read"
  /\ walk' = [walk EXCEPT !.seen = @ \cup Page(rollout, walk.page),
                          !.at = IF walk.list = "rollouts" THEN "statistics"
                                 ELSE "shown"]
  /\ UNCHANGED <<rollout, adding, drawn>>

\* A variant with a fault: the statistics are as old as the walk.
ReadOldStatistics ==
  /\ walk.at = "statistics"
  /\ walk' = [walk EXCEPT !.at = "shown",
                          !.count = Count(walk.old, walk.submission)]
  /\ UNCHANGED <<rollout, adding, drawn>>

\* The rollouts page has the count and the rate of the submission, too.
ReadStatistics ==
  /\ walk.at = "statistics"
  /\ walk' = [walk EXCEPT !.at = "shown",
                          !.count = Count(rollout, walk.submission)]
  /\ UNCHANGED <<rollout, adding, drawn>>

\* A variant with a fault: the last page is taken for one too many.
MoreTooFew == (walk.page + 1) * Size < walk.total

\* Is there a page after this one? pages = ceil(total / size)
More == walk.page * Size < walk.total

NextPage ==
  /\ walk.at = "shown"
  /\ walk' = IF More THEN [walk EXCEPT !.at = "count", !.page = @ + 1]
             ELSE [walk EXCEPT !.at = "done"]
  /\ UNCHANGED <<rollout, adding, drawn>>

ResultsNext ==
  \/ Insert \/ Open \/ CountRows \/ ReadRows \/ ReadStatistics \/ NextPage
  \/ \E i \in Ids : Commit(i) \/ AbortRollout(i)

ResultsSpec == ResultsInit /\ [][ResultsNext]_resultsVars
-----------------------------------------------------------------------------
(***************************************************************************)
(* Properties                                                              *)
(***************************************************************************)
Tables == [Ids -> RolloutRows \cup {NoRow}]

Walks ==
  [list : {"none", "leaderboard", "rollouts"},
   submission : SubmissionIds \cup {0},
   at : {"idle", "count", "read", "statistics", "shown", "done"},
   page : Nat, total : Nat, count : Nat,
   seen : SUBSET (Ids \cup SubmissionIds),
   old : Tables]

ResultsTypeOK ==
  /\ rollout \in Tables
  /\ adding \in Tables
  /\ drawn \subseteq Ids
  /\ walk \in Walks

\* Who looks at all pages of a submission's rollouts misses none that was there
\* to begin with, though rows are added meanwhile; unless one with a smaller id
\* is committed late and pushes it off the last page (get_paginated_rollouts).
MissedRolloutsWereOvertaken ==
  walk.at = "done" /\ walk.list = "rollouts" =>
    \A i \in RolloutsOf(walk.old, walk.submission) \ walk.seen :
      \E j \in RolloutsOf(rollout, walk.submission) :
        j < i /\ walk.old[j] = NoRow

\* Who looks at all pages of the leaderboard misses a submission only if some
\* result has arrived meanwhile: nothing but results moves the ranking.
MissedSubmissionsMeanNews ==
  walk.at = "done" /\ walk.list = "leaderboard" =>
    Ranked(walk.old) \subseteq walk.seen \/ rollout # walk.old

\* The count over the page of rollouts is never less than what the list below
\* it has counted, though they are two statements (list_rollouts_page).
StatisticsCoverTheList ==
  walk.at = "shown" /\ walk.list = "rollouts" => walk.count >= walk.total

\* Pages that are cut from a table which grows show what was there, but for
\* what the growth itself has moved.
PagesShowWhatWasThere ==
  /\ MissedRolloutsWereOvertaken
  /\ MissedSubmissionsMeanNews
  /\ StatisticsCoverTheList

\* The submission that a step adds a result to.
Adds(s, success) ==
  \E i \in Ids : /\ rollout[i] = NoRow
                 /\ rollout'[i] = [submission |-> s, success |-> success]

\* A success never costs a submission a place: whoever was behind stays behind.
SuccessNeverLosesGround ==
  [][\A s \in Ranked(rollout), t \in Ranked(rollout) :
       Adds(s, TRUE) /\ Ahead(rollout, s, t) => Ahead(rollout', s, t)]_resultsVars

\* A failure wins a place only among submissions that have no success at all,
\* where the number of rollouts decides.
FailureGainsOnlyWithoutSuccess ==
  [][\A s \in Ranked(rollout), t \in Ranked(rollout) :
       Adds(s, FALSE) /\ Ahead(rollout, t, s) /\ Ahead(rollout', s, t)
         => Successes(rollout, s) = 0 /\ Successes(rollout, t) = 0]_resultsVars

\* One more result moves a submission the way it should.
ResultsMoveTheRanking == SuccessNeverLosesGround /\ FailureGainsOnlyWithoutSuccess
=============================================================================
