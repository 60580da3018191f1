------------------------------ MODULE ScanRows ------------------------------
(***************************************************************************)
(* The PostgreSQL rows of a scan (domains/scans/models.py) and the         *)
(* transitions worker/orchestration.py makes on them.  ScanLifecycle and   *)
(* ScanPipeline both speak of these rows.                                  *)
(*                                                                         *)
(* Throughout, an operator Op_Mistake stands before the operator Op it is  *)
(* a faulty variant of.  No specification uses it: it is there to be put   *)
(* in the place of Op, to see which property notices.                      *)
(***************************************************************************)
EXTENDS ScanStates

CONSTANTS
  Jobs,    \* the scan_job rows that may be launched
  Tasks,   \* the scan_task rows of their matrices
  JobOf    \* the job each task belongs to

ASSUME JobOfAssumption == JobOf \in [Tasks -> Jobs]

VARIABLES
  job,     \* scan_job: status and status_reason
  task,    \* scan_task: status, status_reason, cancellation_requested_at
  result   \* the tasks that have a scan_result row

rows == <<job, task, result>>

TasksOf(j)  == {k \in Tasks : JobOf[k] = j}
Statuses_AllJobs(j) == {task[k].status : k \in Tasks}
Statuses(j) == {task[k].status : k \in TasksOf(j)}

Live_OrCompleted(k) == task[k].status \in {"queued", "running", "completed"}
Live(k) == task[k].status \in {"queued", "running"}

NoJobRow  == [status |-> "absent", reason |-> NoReason]
NoTaskRow == [status |-> "absent", reason |-> NoReason, cancel |-> FALSE]

RowsInit ==
  /\ job = [j \in Jobs |-> NoJobRow]
  /\ task = [k \in Tasks |-> NoTaskRow]
  /\ result = {}

(***************************************************************************)
(* The tasks of S go to one status and reason, every other row stays.      *)
(***************************************************************************)
Move(S, status, reason) ==
  task' = [k \in Tasks |->
             IF k \in S THEN [task[k] EXCEPT !.status = status, !.reason = reason]
                        ELSE task[k]]

(***************************************************************************)
(* The matrix of a job: its tasks are inserted queued, or blocked where no *)
(* installed module implements the test.                                   *)
(***************************************************************************)
CreateTasks_CommitEach(queued, blocked) ==
  \E k \in queued \cup blocked :
    task' = [task EXCEPT ![k] = [NoTaskRow EXCEPT !.status = "queued"]]

CreateTasks(queued, blocked) ==
  task' = [k \in Tasks |->
             CASE k \in queued  -> [NoTaskRow EXCEPT !.status = "queued"]
               [] k \in blocked -> [NoTaskRow EXCEPT
                                      !.status = "blocked",
                                      !.reason = "task.module_unavailable"]
               [] OTHER -> task[k]]
=============================================================================
