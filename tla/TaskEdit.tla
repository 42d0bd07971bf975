------------------------------ MODULE TaskEdit ------------------------------
(***************************************************************************)
(* One task while administrators edit and delete it on its pages, an       *)
(* operator runs update_tasks.py, and users submit policies for it. Each   *)
(* request is a transaction at READ COMMITTED: what it has read without a  *)
(* lock may have changed when it writes, and an UPDATE writes only the     *)
(* columns whose value differs from the one that the request has read.     *)
(***************************************************************************)
EXTENDS Naturals, FiniteSets, Functions, RowLocks

CONSTANTS Submissions,            \* ids of submission rows of the task
          Requests,               \* slots for requests and scripts
          Names, Prompts, Tags,   \* what the columns can hold
          NoTag,                  \* reset_docker_tag is NULL
          NoTask,                 \* the task has not been created
          DeletedTask

VARIABLES task,         \* the row of the task
          submissions,  \* the submission rows that refer to it
          tx            \* tx[p]: the transaction of slot p

taskVars == <<task, submissions, tx>>

Runtimes == {"OpenArm Cell", "MuJoCo"}

Rows == [name : Names, prompt : Prompts, tag : Tags \cup {NoTag},
         runtime : Runtimes]

ASSUME TaskEditAssumption ==
  /\ NoTag \notin Tags
  /\ NoTask # DeletedTask
  /\ NoTask \notin Rows
  /\ DeletedTask \notin Rows

Columns == {"name", "prompt", "tag", "runtime"}
Values == Names \cup Prompts \cup Tags \cup {NoTag} \cup Runtimes

\* What the evaluation of a submission depends on.
LockedFields == {"prompt", "tag", "runtime"}

\* _check_reset_docker_tag
Valid(r) == r.runtime = "MuJoCo" \/ r.tag # NoTag

\* A variant with a fault: the form does not check the tag.
AllRows == Rows

\* What passes TaskForm.
Forms == {r \in Rows : Valid(r)}

\* What has a default: the runtime, and the tag where it may be NULL.
Optional(r) == IF r.runtime = "OpenArm Cell" THEN "runtime" ELSE "tag"

\* What passes the check of update_tasks: an object may leave out what has a
\* default; only the columns that it gives are written.
Patches ==
  UNION {{Restrict(r, D) : D \in {Columns, Columns \ {Optional(r)}}} : r \in Forms}

\* r with the columns of patch written over it.
Written(r, patch) ==
  [c \in Columns |-> IF c \in DOMAIN patch THEN patch[c] ELSE r[c]]

\* A variant with a fault: all columns are written.
EveryColumn(read, form) == form

\* The columns that SQLAlchemy writes: those that are not as they were read.
Dirty(read, form) == Restrict(form, {c \in Columns : form[c] # read[c]})

\* _changes_locked_fields
ChangesLockedFields(r, form) == \E c \in LockedFields : form[c] # r[c]

There == task \in Rows
-----------------------------------------------------------------------------
(***************************************************************************)
(* Transactions                                                            *)
(***************************************************************************)
Ops == {"none", "edit", "script", "delete", "submit"}
PCs == {"idle", "read submissions", "update", "load submissions", "lock task",
        "reference task", "commit", "raise"}

Transactions ==
  [op : Ops, pc : PCs, read : Rows \cup {NoTask}, locked : BOOLEAN,
   patch : UNION {[D -> Values] : D \in SUBSET Columns},
   held : SUBSET {ForUpdate("task", 0), NoKeyUpdate("task", 0), KeyShare("task", 0)}]

Idle == [op |-> "none", pc |-> "idle", read |-> NoTask, locked |-> FALSE,
         patch |-> <<>>, held |-> {}]

At(p, pc) == tx[p].pc = pc
Become(p, t) == tx' = [tx EXCEPT ![p] = t]
End(p) == Become(p, Idle)
Goto(p, pc) == Become(p, [tx[p] EXCEPT !.pc = pc])

\* Locks that p does not get while others hold conflicting ones.
Granted(p, l) == \A q \in Requests \ {p} : \A m \in tx[q].held : ~Conflicts(l, m)

Lock(p, l) == Become(p, [tx[p] EXCEPT !.pc = "commit", !.held = {l}])

TaskInit ==
  /\ task = NoTask
  /\ submissions = {}
  /\ tx = [p \in Requests |-> Idle]

\* create_task_page, create_tasks.py
CreateTask ==
  /\ task = NoTask
  /\ task' \in Forms
  /\ UNCHANGED <<submissions, tx>>
-----------------------------------------------------------------------------
(***************************************************************************)
(* update_task_page and update_tasks.py                                    *)
(***************************************************************************)
\* A variant with a fault: a task that is gone is not answered with 404.
FindAnyTask(p, op) ==
  /\ At(p, "idle")
  /\ task # NoTask
  /\ op \in {"edit", "delete"}
  /\ Become(p, [Idle EXCEPT !.op = op, !.pc = "read submissions", !.read = task])
  /\ UNCHANGED <<task, submissions>>

\* find_task, without a lock; 404 if it is gone.
FindTask(p, op) ==
  /\ At(p, "idle")
  /\ There
  /\ op \in {"edit", "delete"}
  /\ Become(p, [Idle EXCEPT !.op = op, !.pc = "read submissions", !.read = task])
  /\ UNCHANGED <<task, submissions>>

\* _is_task_locked; a form that changes too much is rejected with 409.
SubmitForm(p) ==
  /\ At(p, "read submissions")
  /\ tx[p].op = "edit"
  /\ \E form \in Forms :
       IF submissions # {} /\ ChangesLockedFields(tx[p].read, form)
       THEN End(p)
       ELSE Become(p, [tx[p] EXCEPT !.pc = "update", !.locked = submissions # {},
                                    !.patch = Dirty(tx[p].read, form)])
  /\ UNCHANGED <<task, submissions>>

\* The script looks at nothing but its own data.
StartScript(p) ==
  /\ At(p, "idle")
  /\ task # NoTask
  /\ \E patch \in Patches :
       Become(p, [Idle EXCEPT !.op = "script", !.pc = "update", !.patch = patch])
  /\ UNCHANGED <<task, submissions>>

\* A variant with a fault: the UPDATE asks for the row as it was read.
UpdateAsRead(p) ==
  /\ At(p, "update")
  /\ Granted(p, NoKeyUpdate("task", 0)) \/ ~There \/ tx[p].patch = <<>>
  /\ IF tx[p].patch = <<>> THEN End(p)
     ELSE IF task = tx[p].read THEN Lock(p, NoKeyUpdate("task", 0))
     ELSE Goto(p, "raise")
  /\ UNCHANGED <<task, submissions>>

\* UPDATE task: not sent when nothing has changed; StaleDataError if the row
\* is gone. It does not wait for submissions, whose lock allows it.
Update(p) ==
  /\ At(p, "update")
  /\ Granted(p, NoKeyUpdate("task", 0)) \/ ~There \/ tx[p].patch = <<>>
  /\ IF tx[p].patch = <<>> THEN End(p)
     ELSE IF There THEN Lock(p, NoKeyUpdate("task", 0))
     ELSE Goto(p, "raise")
  /\ UNCHANGED <<task, submissions>>

CommitUpdate(p) ==
  /\ At(p, "commit")
  /\ tx[p].op \in {"edit", "script"}
  /\ task' = Written(task, tx[p].patch)
  /\ End(p)
  /\ UNCHANGED <<submissions>>
-----------------------------------------------------------------------------
(***************************************************************************)
(* delete_task_page (Signaling models the task's offers)                   *)
(***************************************************************************)
RefuseDeletion(p) ==
  /\ At(p, "read submissions")
  /\ tx[p].op = "delete"
  /\ IF submissions # {} THEN End(p) ELSE Goto(p, "load submissions")
  /\ UNCHANGED <<task, submissions>>

\* session.delete loads the submissions to set their task_id to NULL, which
\* the column does not allow.
LoadSubmissions(p) ==
  /\ At(p, "load submissions")
  /\ Goto(p, IF submissions = {} THEN "lock task" ELSE "raise")
  /\ UNCHANGED <<task, submissions>>

\* A variant with a fault: submission.task_id is no foreign key.
LockTaskUnreferenced(p) ==
  /\ At(p, "lock task")
  /\ Granted(p, ForUpdate("task", 0)) \/ ~There
  /\ IF There THEN Lock(p, ForUpdate("task", 0)) ELSE End(p)
  /\ UNCHANGED <<task, submissions>>

\* DELETE FROM task waits for submissions that are being inserted, and fails
\* if there is one. SQLAlchemy only warns about a row that is gone.
LockTask(p) ==
  /\ At(p, "lock task")
  /\ Granted(p, ForUpdate("task", 0)) \/ ~There
  /\ IF ~There THEN End(p)
     ELSE IF submissions = {} THEN Lock(p, ForUpdate("task", 0))
     ELSE Goto(p, "raise")
  /\ UNCHANGED <<task, submissions>>

CommitDelete(p) ==
  /\ At(p, "commit")
  /\ tx[p].op = "delete"
  /\ task' = DeletedTask
  /\ End(p)
  /\ UNCHANGED <<submissions>>
-----------------------------------------------------------------------------
(***************************************************************************)
(* create_submission_page (JobQueueTx models the jobs)                     *)
(***************************************************************************)
\* The bound of the model.
SubmissionLeft == submissions # Submissions

\* The task_id comes from the page of a task that may be gone by now.
StartSubmit(p) ==
  /\ At(p, "idle")
  /\ SubmissionLeft
  /\ task # NoTask
  /\ Become(p, [Idle EXCEPT !.op = "submit", !.pc = "reference task"])
  /\ UNCHANGED <<task, submissions>>

\* INSERT INTO submission: its foreign key to the task.
ReferenceTask(p) ==
  /\ At(p, "reference task")
  /\ Granted(p, KeyShare("task", 0)) \/ ~There
  /\ IF There THEN Lock(p, KeyShare("task", 0)) ELSE Goto(p, "raise")
  /\ UNCHANGED <<task, submissions>>

CommitSubmit(p) ==
  /\ At(p, "commit")
  /\ tx[p].op = "submit"
  /\ \E s \in Submissions \ submissions : submissions' = submissions \cup {s}
  /\ End(p)
  /\ UNCHANGED task
-----------------------------------------------------------------------------
\* An exception leaves the handler, or the process or connection is lost.
Abort(p) ==
  /\ ~At(p, "idle")
  /\ End(p)
  /\ UNCHANGED <<task, submissions>>

Step(p) ==
  \/ \E op \in {"edit", "delete"} : FindTask(p, op)
  \/ SubmitForm(p) \/ StartScript(p) \/ Update(p) \/ CommitUpdate(p)
  \/ RefuseDeletion(p) \/ LoadSubmissions(p) \/ LockTask(p) \/ CommitDelete(p)
  \/ StartSubmit(p) \/ ReferenceTask(p) \/ CommitSubmit(p)
  \/ Abort(p)

TaskNext == CreateTask \/ \E p \in Requests : Step(p)

TaskSpec == TaskInit /\ [][TaskNext]_taskVars
-----------------------------------------------------------------------------
(***************************************************************************)
(* Properties                                                              *)
(***************************************************************************)
TaskTypeOK ==
  /\ task \in Rows \cup {NoTask, DeletedTask}
  /\ submissions \subseteq Submissions
  /\ tx \in [Requests -> Transactions]

\* A submission refers to a task that exists, though neither its insertion nor
\* the deletion of the task looks for the other in one statement.
SubmissionsHaveATask == submissions # {} => There

\* An error page needs a deletion: a request raises only because the task is
\* gone, or because it deletes a task for which somebody has just submitted.
ErrorsNeedADeletion ==
  \A p \in Requests : At(p, "raise") =>
    IF tx[p].op = "delete" THEN submissions # {} ELSE task = DeletedTask

\* The deletion of a task races with submissions, edits and other deletions:
\* it orphans no row, and nothing but it makes a request fail.
DeletionsAreClean == SubmissionsHaveATask /\ ErrorsNeedADeletion

\* The fields that r evaluates by.
Evaluation(r) == [c \in LockedFields |-> r[c]]

\* A page edit that saw the task locked changes no locked field, not even one
\* that another edit is changing at the same time: it rewrites only what it
\* has changed itself.
LockedEditsKeepFields ==
  [][\A p \in Requests :
       /\ tx[p].op = "edit"
       /\ tx[p].locked
       /\ task' # task
       /\ tx'[p] # tx[p]
       => Evaluation(task') = Evaluation(task)]_taskVars

\* The rule on reset_docker_tag breaks only when an edit writes over another
\* one that was committed after it had read the task.
RuleBreaksOnlyByOverlap ==
  [][There /\ Valid(task) /\ task' \in Rows /\ ~Valid(task') =>
       \E p \in Requests : /\ tx'[p] # tx[p]
                           /\ tx[p].op = "edit"
                           /\ tx[p].read # task]_taskVars
=============================================================================
