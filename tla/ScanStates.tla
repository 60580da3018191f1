----------------------------- MODULE ScanStates -----------------------------
(***************************************************************************)
(* The vocabulary of a scan: the statuses of a scan_job and of its         *)
(* scan_task rows, the reasons recorded with them, and the counting rule   *)
(* that derives a job's terminal state from its children                   *)
(* (worker/orchestration.py).  Everything here is a constant operator.     *)
(***************************************************************************)

(***************************************************************************)
(* "absent" is a row that has not been inserted yet.                       *)
(***************************************************************************)
TerminalTask == {"completed", "failed", "skipped", "blocked", "canceled"}
TaskStatus   == {"absent", "queued", "running"} \cup TerminalTask

TerminalJob  == {"completed", "partial", "failed", "canceled"}
JobStatus    == {"absent", "queued", "running"} \cup TerminalJob

NoReason == "null"

(***************************************************************************)
(* How a module run may fail: its budget is overrun, its input is refused, *)
(* or anything else went wrong (classify_failure).                         *)
(***************************************************************************)
EngineFailure == {"task.timeout", "task.invalid_input", "task.engine_error"}

TaskReason == EngineFailure \cup
  {NoReason, "task.module_unavailable", "task.misrouted", "task.canceled",
   "job.timeout"}

JobReason ==
  {NoReason, "job.timeout", "job.canceled", "job.no_usable_results",
   "job.tasks_incomplete"}

(***************************************************************************)
(* The counting rule.  It is a function of the set of statuses the         *)
(* children have: "all completed", "some completed" and "some canceled"    *)
(* are what the code counts.  A job is not done while a child is live or   *)
(* while it has no children.                                               *)
(***************************************************************************)
JobDone_AnyTerminal(statuses) == statuses \cap TerminalTask # {}
JobDone(statuses) == statuses # {} /\ statuses \subseteq TerminalTask

JobOutcome(statuses, override) ==
  LET Because(reason) == IF override = NoReason THEN reason ELSE override
  IN  IF statuses = {"completed"}
        THEN [status |-> "completed", reason |-> override]
      ELSE IF "completed" \in statuses
        THEN [status |-> "partial",  reason |-> Because("job.tasks_incomplete")]
      ELSE IF "canceled" \in statuses
        THEN [status |-> "canceled", reason |-> Because("job.canceled")]
      ELSE   [status |-> "failed",   reason |-> Because("job.no_usable_results")]
=============================================================================
