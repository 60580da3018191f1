--------------------------- MODULE ScanLifecycle ---------------------------
(***************************************************************************)
(* What the scan pipeline promises of the rows it keeps, with no queues,   *)
(* no worker processes and no transactions: the state diagram of a         *)
(* scan_job and of its scan_tasks (docs/orchestration.md, "Lifecycle and   *)
(* reasons").  A terminal row is never written again, a result belongs to  *)
(* a completed task, and a job closes once, when all its children are      *)
(* terminal, with the outcome they count to.                               *)
(***************************************************************************)
EXTENDS ScanRows

Commit(j) ==
  /\ job[j].status = "absent"
  /\ job' = [job EXCEPT ![j].status = "queued"]
  /\ UNCHANGED <<task, result>>

(***************************************************************************)
(* The whole matrix appears in one step, blocked where nothing can run.    *)
(***************************************************************************)
Materialize(j) ==
  /\ job[j].status = "queued"
  /\ job' = [job EXCEPT ![j].status = "running"]
  /\ \E blocked \in SUBSET TasksOf(j) :
       CreateTasks(TasksOf(j) \ blocked, blocked)
  /\ UNCHANGED result

Claim(k) ==
  /\ task[k].status = "queued" /\ ~task[k].cancel
  /\ Move({k}, "running", task[k].reason)
  /\ UNCHANGED <<job, result>>

Refuse(k) ==
  /\ task[k].status = "queued"
  /\ \E why \in {"task.module_unavailable", "task.misrouted"} :
       Move({k}, "blocked", why)
  /\ UNCHANGED <<job, result>>

Complete(k) ==
  /\ task[k].status = "running" /\ ~task[k].cancel
  /\ Move({k}, "completed", NoReason)
  /\ result' = result \cup {k}
  /\ UNCHANGED job

Fail(k) ==
  /\ task[k].status = "running" /\ ~task[k].cancel
  /\ \E why \in EngineFailure : Move({k}, "failed", why)
  /\ UNCHANGED <<job, result>>

Cancel(k) ==
  /\ Live(k) /\ task[k].cancel
  /\ Move({k}, "canceled", "task.canceled")
  /\ UNCHANGED <<job, result>>

(***************************************************************************)
(* The job's wall-clock budget is over: what is still live fails.          *)
(***************************************************************************)
Expire(j) ==
  /\ job[j].status = "running"
  /\ Move({k \in TasksOf(j) : Live(k)}, "failed", "job.timeout")
  /\ UNCHANGED <<job, result>>

RequestCancel(j) ==
  /\ task' = [k \in Tasks |->
                IF k \in TasksOf(j) /\ Live(k) THEN [task[k] EXCEPT !.cancel = TRUE]
                                               ELSE task[k]]
  /\ UNCHANGED <<job, result>>

(***************************************************************************)
(* The job-timeout reason may only stand on a job that lost a child to it. *)
(***************************************************************************)
Close(j) ==
  /\ job[j].status = "running"
  /\ JobDone(Statuses(j))
  /\ \E why \in {NoReason, "job.timeout"} :
       /\ why = "job.timeout" =>
            \E k \in TasksOf(j) : task[k].status = "failed" /\ task[k].reason = why
       /\ job' = [job EXCEPT ![j] = JobOutcome(Statuses(j), why)]
  /\ UNCHANGED <<task, result>>

LifecycleNext ==
  \/ \E j \in Jobs : \/ Commit(j)
                     \/ Materialize(j)
                     \/ Expire(j)
                     \/ RequestCancel(j)
                     \/ Close(j)
  \/ \E k \in Tasks : \/ Claim(k)
                      \/ Refuse(k)
                      \/ Complete(k)
                      \/ Fail(k)
                      \/ Cancel(k)

LifecycleSpec == RowsInit /\ [][LifecycleNext]_rows
=============================================================================
