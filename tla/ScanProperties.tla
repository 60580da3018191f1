---------------------------- MODULE ScanProperties ----------------------------
(***************************************************************************)
(* What the scan pipeline must never do, what it must eventually do, and   *)
(* the abstract lifecycle it implements.                                   *)
(***************************************************************************)
EXTENDS ScanPipeline

Lifecycle == INSTANCE ScanLifecycle WITH job <- job, task <- task, result <- result

TaskRow == [status : TaskStatus, reason : TaskReason, cancel : BOOLEAN]
JobRow  == [status : JobStatus, reason : JobReason]

(***************************************************************************)
(* The type invariant: every row, message and handler of the pipeline is   *)
(* one the code can write; in particular a job only ever carries a reason  *)
(* of the job vocabulary and a task one of the task vocabulary.            *)
(***************************************************************************)
TypeOK ==
  /\ job \in [Jobs -> JobRow]
  /\ task \in [Tasks -> TaskRow]
  /\ result \subseteq Tasks
  /\ dispatches \subseteq Jobs
  /\ deliveries \in [Queues -> SUBSET Tasks]
  /\ stream \in [Jobs -> {"live", "final", "end", "late"}]
  /\ proc \in [Proc -> Local]
  /\ roster \in [Proc -> Images]
  /\ faults \in Nat

-----------------------------------------------------------------------------
(* Rows *)

(***************************************************************************)
(* The outcome, counted: what the children of a closed job must add up to. *)
(***************************************************************************)
CountsTo(j, status) ==
  LET all == TasksOf(j)
      completed == {k \in all : task[k].status = "completed"}
      canceled  == {k \in all : task[k].status = "canceled"}
  IN  CASE status = "completed" -> completed = all
        [] status = "partial"   -> completed # {} /\ completed # all
        [] status = "canceled"  -> completed = {} /\ canceled # {}
        [] status = "failed"    -> completed = {} /\ canceled = {}

(***************************************************************************)
(* A closed job has only terminal children, and its status is what they    *)
(* count to, now and not only when it was closed: the unlocked count of    *)
(* finalize_job_if_done and the unlocked write of dispatch never separate  *)
(* a job from its tasks.                                                   *)
(***************************************************************************)
ClosedJobSettled ==
  \A j \in Jobs : job[j].status \in {"completed", "partial", "failed", "canceled"} =>
    /\ \A k \in TasksOf(j) :
         task[k].status \in {"completed", "failed", "skipped", "blocked", "canceled"}
    /\ CountsTo(j, job[j].status)

(***************************************************************************)
(* A closed job is never written again: whoever finalizes second finds it  *)
(* closed and leaves ("serialized, at-most-once").                         *)
(***************************************************************************)
ClosedJobFrozen ==
  [][\A j \in Jobs : job[j].status \in TerminalJob => job'[j] = job[j]]_vars

(***************************************************************************)
(* While every image deployed lacks the same modules, a terminal task is   *)
(* never written again and never gains a result: late engines, duplicate   *)
(* deliveries, the reaper and a second dispatch all lose against whoever   *)
(* closed it (mark_task_terminal: "Move one task into a terminal state,    *)
(* once").  Where an image lacks a module another has, a second dispatch   *)
(* read before and committed after may still write blocked over the task.  *)
(***************************************************************************)
TerminalTaskFrozen ==
  [][\A k \in Tasks : task[k].status \in TerminalTask =>
       task'[k] = task[k] /\ (k \in result' <=> k \in result)]_vars

(***************************************************************************)
(* A result row stands exactly beside a completed task.                    *)
(***************************************************************************)
ResultIffCompleted == \A k \in Tasks : k \in result <=> task[k].status = "completed"

(***************************************************************************)
(* The matrix is there as a whole or not at all, and a running job has it: *)
(* no test of the launch is silently absent, however many dispatches ran.  *)
(***************************************************************************)
MatrixWhole ==
  \A j \in Jobs : \A k \in TasksOf(j) :
    task[k].status = "absent" <=> job[j].status \in {"absent", "queued"}

(***************************************************************************)
(* The job-timeout reason is earned: it stands only on a job that lost a   *)
(* child to the timeout, and so never on a completed one; a job whose      *)
(* finalize alone was lost closes on its own merits (_reap_stuck_job).     *)
(***************************************************************************)
TimeoutEarned ==
  \A j \in Jobs : job[j].reason = "job.timeout" =>
    \E k \in TasksOf(j) : task[k].status = "failed" /\ task[k].reason = "job.timeout"

-----------------------------------------------------------------------------
(* Processes *)

Unclaimable(k) == task[k].status \notin {"absent", "queued"}

Starts(w, k) ==
  /\ proc[w].at = "idle"
  /\ proc'[w].at = "started" /\ proc'[w].task = k

(***************************************************************************)
(* A task gets one engine, ever: run_module starts one only on a task no   *)
(* engine was started on before, and a task that left the queue never      *)
(* returns to it, whatever duplicate deliveries, republished dispatches,   *)
(* sweeps and restarts come in between.                                    *)
(***************************************************************************)
OneEnginePerTask ==
  [][\A k \in Tasks :
       /\ Unclaimable(k) => Unclaimable(k)'
       /\ \A w \in Workers : Starts(w, k) =>
            /\ ~Unclaimable(k) /\ Unclaimable(k)'
            /\ \A v \in Workers : Starts(v, k) => v = w]_vars

(***************************************************************************)
(* While no fault occurred, a running job whose children are all terminal  *)
(* has a process on its way to count them: the last finisher is never      *)
(* missed, whatever order the finishers commit and count in.               *)
(***************************************************************************)
CloserPending ==
  faults = 0 =>
    \A j \in Jobs : job[j].status = "running" /\ JobDone(Statuses(j)) =>
      \E p \in Proc :
        \/ /\ proc[p].at \in {"fanout", "announce", "send", "expired", "finalize"}
           /\ proc[p].job = j
        \/ proc[p].at = "report" /\ JobOf[proc[p].task] = j

-----------------------------------------------------------------------------
(* Events *)

Closing(p, j) == proc[p].at \in {"closing", "ending"} /\ proc[p].job = j

(***************************************************************************)
(* The terminal job event and "end" are published after the commit they    *)
(* describe: no subscriber learns of an end the database does not hold.    *)
(***************************************************************************)
EndAfterCommit ==
  \A j \in Jobs :
    (stream[j] # "live" \/ \E p \in Proc : Closing(p, j)) => job[j].status \in TerminalJob

(***************************************************************************)
(* One finisher announces the end of a job, once.                          *)
(***************************************************************************)
OneEnd ==
  \A j \in Jobs, p \in Proc : Closing(p, j) =>
    /\ stream[j] \notin {"end", "late"}
    /\ \A q \in Proc : Closing(q, j) => q = p

-----------------------------------------------------------------------------
(* Progress *)

(***************************************************************************)
(* A committed job is eventually closed, though its dispatch may never be  *)
(* sent, messages get lost and processes die: the reaper's promise, kept   *)
(* as long as beat fires and the platform queue is served.                 *)
(***************************************************************************)
BeatFires ==
  \A j \in Jobs : /\ SF_vars(DispatchTaken(j))
                  /\ SF_vars(FoundStale(j))
                  /\ SF_vars(FoundStuck(j))

JobCloses ==
  BeatFires =>
    \A j \in Jobs : job[j].status = "queued" ~> job[j].status \in TerminalJob

(***************************************************************************)
(* Where no fault, no cancellation and no sweep disturbs it, counting the  *)
(* children closes a job that was dispatched, blocked children included:   *)
(* no worker's report and no empty fan-out leaves it open.                 *)
(***************************************************************************)
TasksServed == \A k \in Tasks : SF_vars(TaskTaken(k))

Undisturbed ==
  /\ faults = 0
  /\ \A k \in Tasks : ~task[k].cancel
  /\ \A p \in Platform : proc[p].at \notin {"republish", "sweep", "expired"}

RunningJobCloses ==
  TasksServed /\ []Undisturbed =>
    \A j \in Jobs : job[j].status = "running" ~> job[j].status \in TerminalJob

(***************************************************************************)
(* While every image deployed lacks the same modules, the pipeline         *)
(* implements the abstract lifecycle of its rows.                          *)
(***************************************************************************)
ImplementsLifecycle == Lifecycle!LifecycleSpec
=============================================================================
