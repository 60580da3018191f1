----------------------------- MODULE ScanPipeline -----------------------------
(***************************************************************************)
(* The scan pipeline of worker/tasks.py over PostgreSQL rows, a Celery     *)
(* broker and a Redis event channel.                                       *)
(*                                                                         *)
(* A process of the platform queue runs scan.dispatch, scan.reap and       *)
(* scan.heartbeat; a process of a module queue runs scan.run_module.  A    *)
(* step of a process is one database transaction, one message sent to the  *)
(* broker or one event published: between two of them the process may die, *)
(* and every other process may run.  scan.dispatch reads its tasks without *)
(* locking them, so its transaction is two steps, "fanout" in between,     *)
(* with the scan_job row locked; every other transaction takes its locks   *)
(* first and is one step.                                                  *)
(*                                                                         *)
(* Celery acknowledges a delivery when it is taken, so a process that dies *)
(* loses it.  Identical deliveries in one queue are one element of a set:  *)
(* a second copy is only ever sent by a dispatch, which may also send it   *)
(* after the first was taken.                                              *)
(*                                                                         *)
(* Time is left out: a job may be found stale or over its budget in any    *)
(* sweep, and a sweep may come at any time.                                *)
(***************************************************************************)
EXTENDS ScanRows, Naturals

CONSTANTS
  Tests,       \* the test_keys of the catalog
  TestOf,      \* the test each task runs
  Platform,    \* processes consuming the platform queue
  Workers,     \* processes consuming a module queue
  Queues,      \* the module queues (egress profiles)
  NoQueue,     \* what a roster says of a test no installed module implements
  QueueOf,     \* the queue each worker consumes
  Images,      \* the rosters of the images that may be deployed
  MaxFaults    \* bound on restarts, failed transactions and lost messages

ASSUME PipelineAssumption ==
  /\ TestOf \in [Tasks -> Tests]
  /\ Platform \cap Workers = {}
  /\ NoQueue \notin Queues
  /\ QueueOf \in [Workers -> Queues]
  /\ Images \subseteq [Tests -> Queues \cup {NoQueue}]
  /\ MaxFaults \in Nat

VARIABLES
  dispatches,  \* jobs with a scan.dispatch message in the platform queue
  deliveries,  \* the tasks with a scan.run_module message in each module queue
  stream,      \* what a subscriber of the job's Redis channel last received
  proc,        \* where each process is in the handler it runs
  roster,      \* the roster each process discovered when it started
  faults       \* faults so far, for the bound

vars == <<rows, dispatches, deliveries, stream, proc, roster, faults>>

Proc == Platform \cup Workers

Declared(p, k) == roster[p][TestOf[k]]

-----------------------------------------------------------------------------
(* Where a process is, with the handler's local variables. *)

Override == {NoReason, "job.timeout"}

Idle == [at |-> "idle"]

Local ==
  {Idle}
  \cup [at : {"fanout"}, job : Jobs, send : SUBSET Tasks, block : SUBSET Tasks]
  \cup [at : {"announce", "send"}, job : Jobs, send : SUBSET Tasks]
  \cup [at : {"started", "engine", "report"}, task : Tasks]
  \cup [at : {"republish"}, send : SUBSET Jobs, rest : SUBSET Jobs]
  \cup [at : {"sweep", "heartbeat"}, rest : SUBSET Jobs]
  \cup [at : {"expired"}, job : Jobs, failed : SUBSET Tasks, rest : SUBSET Jobs]
  \cup [at : {"finalize"}, job : Jobs, override : Override, rest : SUBSET Jobs]
  \cup [at : {"closing", "ending"}, job : Jobs, rest : SUBSET Jobs]

Goto(p, local) == proc' = [proc EXCEPT ![p] = local]

(***************************************************************************)
(* The reaper goes on with the stuck jobs it has left; every other handler *)
(* has none and returns.                                                   *)
(***************************************************************************)
Sweep(rest) == IF rest = {} THEN Idle ELSE [at |-> "sweep", rest |-> rest]

Finalizing_TaskReason(j, override, rest) ==
  [at |-> "finalize", job |-> j, rest |-> rest,
   override |-> IF override = NoReason THEN NoReason ELSE "task.timeout"]

Finalizing(j, override, rest) ==
  [at |-> "finalize", job |-> j, override |-> override, rest |-> rest]

Sending_NoFinalize(j, send) ==
  IF send = {} THEN Idle ELSE [at |-> "send", job |-> j, send |-> send]

Sending(j, send) ==
  IF send = {} THEN Finalizing(j, NoReason, {})
               ELSE [at |-> "send", job |-> j, send |-> send]

(***************************************************************************)
(* SELECT ... FOR UPDATE on the scan_job row waits for a dispatch that     *)
(* read it and has not committed.                                          *)
(***************************************************************************)
JobLocked_Never(j) == FALSE
JobLocked(j) == \E p \in Platform : proc[p].at = "fanout" /\ proc[p].job = j

(***************************************************************************)
(* One message on the job's channel.  A subscriber tells a task, running   *)
(* or heartbeat event ("live") from the terminal job event ("final") and   *)
(* from "end"; "late" is anything received after "end".  A publish that    *)
(* fails is logged and swallowed.                                          *)
(***************************************************************************)
Publish(j, message) ==
  \/ stream' = [stream EXCEPT ![j] = IF @ \in {"end", "late"} THEN "late"
                                                             ELSE message]
  \/ UNCHANGED stream

-----------------------------------------------------------------------------
Init ==
  /\ RowsInit
  /\ dispatches = {}
  /\ deliveries = [q \in Queues |-> {}]
  /\ stream = [j \in Jobs |-> "live"]
  /\ proc = [p \in Proc |-> Idle]
  /\ roster \in [Proc -> Images]
  /\ faults = 0

(* The API's side, which the repository leaves to the launch story. *)

(***************************************************************************)
(* The launch commits the job, then publishes its dispatch; it may die in  *)
(* between (the stranded publish).                                         *)
(***************************************************************************)
Launch(j) ==
  /\ job[j].status = "absent"
  /\ job' = [job EXCEPT ![j].status = "queued"]
  /\ dispatches' \in {dispatches, dispatches \cup {j}}
  /\ UNCHANGED <<task, result, deliveries, stream, proc, roster, faults>>

(***************************************************************************)
(* Cancelling a job stamps the intent on its live tasks and revokes their  *)
(* deliveries, best effort.                                                *)
(***************************************************************************)
RequestCancel(j) ==
  LET live == {k \in TasksOf(j) : Live(k)} IN
  /\ \E k \in live : ~task[k].cancel
  /\ task' = [k \in Tasks |-> IF k \in live THEN [task[k] EXCEPT !.cancel = TRUE]
                                            ELSE task[k]]
  /\ deliveries' \in {deliveries, [q \in Queues |-> deliveries[q] \ live]}
  /\ UNCHANGED <<job, result, dispatches, stream, proc, roster, faults>>

-----------------------------------------------------------------------------
(* scan.dispatch *)

DispatchDropped(p, j) ==
  /\ proc[p] = Idle /\ j \in dispatches /\ ~JobLocked(j)
  /\ job[j].status \in TerminalJob
  /\ dispatches' = dispatches \ {j}
  /\ UNCHANGED <<rows, deliveries, stream, proc, roster, faults>>

(***************************************************************************)
(* The job row is locked, its tasks are read.  Without a matrix the whole  *)
(* of it is planned; with one, the tasks still queued and not cancelled    *)
(* are sent again.  A test the roster of this process lacks is blocked.    *)
(***************************************************************************)
DispatchRead(p, j) ==
  LET fresh  == \A k \in TasksOf(j) : task[k].status = "absent"
      wanted == {k \in TasksOf(j) :
                   fresh \/ (task[k].status = "queued" /\ ~task[k].cancel)}
      send   == {k \in wanted : Declared(p, k) # NoQueue}
  IN
  /\ proc[p] = Idle /\ j \in dispatches /\ ~JobLocked(j)
  /\ job[j].status \notin TerminalJob
  /\ dispatches' = dispatches \ {j}
  /\ Goto(p, [at |-> "fanout", job |-> j, send |-> send, block |-> wanted \ send])
  /\ UNCHANGED <<rows, deliveries, stream, roster, faults>>

(***************************************************************************)
(* The transaction commits: a planned matrix is inserted, and a task of an *)
(* existing one whose module vanished is set to blocked whatever became of *)
(* it since the read, because its row was never locked.                    *)
(***************************************************************************)
DispatchCommit(p) ==
  LET d     == proc[p]
      j     == d.job
      fresh == \A k \in TasksOf(j) : task[k].status = "absent"
  IN
  /\ d.at = "fanout"
  /\ IF fresh THEN CreateTasks(d.send, d.block)
              ELSE Move(d.block, "blocked", "task.module_unavailable")
  /\ IF job[j].status = "queued"
       THEN /\ job' = [job EXCEPT ![j].status = "running"]
            /\ Goto(p, [at |-> "announce", job |-> j, send |-> d.send])
       ELSE /\ UNCHANGED job
            /\ Goto(p, Sending(j, d.send))
  /\ UNCHANGED <<result, dispatches, deliveries, stream, roster, faults>>

DispatchAnnounce(p) ==
  LET d == proc[p] IN
  /\ d.at = "announce"
  /\ Publish(d.job, "live")
  /\ Goto(p, Sending(d.job, d.send))
  /\ UNCHANGED <<rows, dispatches, deliveries, roster, faults>>

DispatchSend(p) ==
  LET d == proc[p] IN
  /\ d.at = "send"
  /\ \E k \in d.send :
       /\ deliveries' = [deliveries EXCEPT ![Declared(p, k)] = @ \cup {k}]
       /\ Goto(p, Sending(d.job, d.send \ {k}))
  /\ UNCHANGED <<rows, dispatches, stream, roster, faults>>

-----------------------------------------------------------------------------
(* _finalize_and_publish, the end of every handler that closed a task *)

Closable_NoRecheck(j) == JobDone(Statuses(j))
Closable(j) == job[j].status \notin TerminalJob /\ JobDone(Statuses(j))

FinalizeClose_NoCommit(p) ==
  LET f == proc[p] IN
  /\ f.at = "finalize" /\ ~JobLocked(f.job) /\ Closable(f.job)
  /\ Goto(p, [at |-> "closing", job |-> f.job, rest |-> f.rest])
  /\ UNCHANGED <<rows, dispatches, deliveries, stream, roster, faults>>

FinalizeClose(p) ==
  LET f == proc[p] IN
  /\ f.at = "finalize" /\ ~JobLocked(f.job)
  /\ Closable(f.job)
  /\ job' = [job EXCEPT ![f.job] = JobOutcome(Statuses(f.job), f.override)]
  /\ Goto(p, [at |-> "closing", job |-> f.job, rest |-> f.rest])
  /\ UNCHANGED <<task, result, dispatches, deliveries, stream, roster, faults>>

FinalizeSkip(p) ==
  LET f == proc[p] IN
  /\ f.at = "finalize" /\ ~JobLocked(f.job)
  /\ ~Closable(f.job)
  /\ Goto(p, Sweep(f.rest))
  /\ UNCHANGED <<rows, dispatches, deliveries, stream, roster, faults>>

PublishFinal(p) ==
  LET f == proc[p] IN
  /\ f.at = "closing"
  /\ Publish(f.job, "final")
  /\ Goto(p, [f EXCEPT !.at = "ending"])
  /\ UNCHANGED <<rows, dispatches, deliveries, roster, faults>>

PublishEnd(p) ==
  LET f == proc[p] IN
  /\ f.at = "ending"
  /\ Publish(f.job, "end")
  /\ Goto(p, Sweep(f.rest))
  /\ UNCHANGED <<rows, dispatches, deliveries, roster, faults>>

-----------------------------------------------------------------------------
(* scan.run_module, phase 1: claim the task *)

Claimable_Running(k) == task[k].status \in {"queued", "running"}
Claimable(k) == task[k].status = "queued"

(***************************************************************************)
(* The egress gate: the roster of this worker has the test, on its queue.  *)
(***************************************************************************)
OnItsQueue(w, k) == Declared(w, k) = QueueOf[w]

Take(w, k) ==
  /\ proc[w] = Idle
  /\ k \in deliveries[QueueOf[w]]
  /\ deliveries' = [deliveries EXCEPT ![QueueOf[w]] = @ \ {k}]
  /\ UNCHANGED <<job, result, dispatches, stream, roster, faults>>

RunDuplicate(w, k) ==
  /\ Take(w, k)
  /\ ~Claimable(k)
  /\ UNCHANGED <<task, proc>>

RunCanceled(w, k) ==
  /\ Take(w, k)
  /\ Claimable(k) /\ task[k].cancel
  /\ Move({k}, "canceled", "task.canceled")
  /\ Goto(w, [at |-> "report", task |-> k])

RunRefused(w, k) ==
  /\ Take(w, k)
  /\ Claimable(k) /\ ~task[k].cancel
  /\ ~OnItsQueue(w, k)
  /\ Move({k}, "blocked", IF Declared(w, k) = NoQueue THEN "task.module_unavailable"
                                                     ELSE "task.misrouted")
  /\ Goto(w, [at |-> "report", task |-> k])

RunClaim(w, k) ==
  /\ Take(w, k)
  /\ Claimable(k) /\ ~task[k].cancel
  /\ OnItsQueue(w, k)
  /\ Move({k}, "running", task[k].reason)
  /\ Goto(w, [at |-> "started", task |-> k])

RunAnnounce(w) ==
  /\ proc[w].at = "started"
  /\ Publish(JobOf[proc[w].task], "live")
  /\ Goto(w, [proc[w] EXCEPT !.at = "engine"])
  /\ UNCHANGED <<rows, dispatches, deliveries, roster, faults>>

(* Phases 2 and 3: the engine ends, and one outcome is recorded *)

Recordable_Always(k) == TRUE
Recordable(k) == task[k].status \notin TerminalTask

EngineEnds(w, k) ==
  /\ proc[w].at = "engine" /\ proc[w].task = k
  /\ UNCHANGED <<job, dispatches, deliveries, stream, roster, faults>>

RunDropped(w, k) ==
  /\ EngineEnds(w, k)
  /\ ~Recordable(k)
  /\ Goto(w, Idle)
  /\ UNCHANGED <<task, result>>

RunCanceledLate(w, k) ==
  /\ EngineEnds(w, k)
  /\ Recordable(k) /\ task[k].cancel
  /\ Move({k}, "canceled", "task.canceled")
  /\ Goto(w, [at |-> "report", task |-> k])
  /\ UNCHANGED result

RunFailed(w, k) ==
  /\ EngineEnds(w, k)
  /\ Recordable(k) /\ ~task[k].cancel
  /\ \E why \in EngineFailure : Move({k}, "failed", why)
  /\ Goto(w, [at |-> "report", task |-> k])
  /\ UNCHANGED result

RunCompleted_Canceled(w, k) ==
  /\ EngineEnds(w, k)
  /\ Recordable(k)
  /\ Move({k}, "completed", NoReason)
  /\ result' = result \cup {k}
  /\ Goto(w, [at |-> "report", task |-> k])

RunCompleted(w, k) ==
  /\ EngineEnds(w, k)
  /\ Recordable(k) /\ ~task[k].cancel
  /\ Move({k}, "completed", NoReason)
  /\ result' = result \cup {k}
  /\ Goto(w, [at |-> "report", task |-> k])

RunReport_NoFinalize(w) ==
  /\ proc[w].at = "report"
  /\ Publish(JobOf[proc[w].task], "live")
  /\ Goto(w, Idle)
  /\ UNCHANGED <<rows, dispatches, deliveries, roster, faults>>

RunReport(w) ==
  LET j == JobOf[proc[w].task] IN
  /\ proc[w].at = "report"
  /\ Publish(j, "live")
  /\ Goto(w, Finalizing(j, NoReason, {}))
  /\ UNCHANGED <<rows, dispatches, deliveries, roster, faults>>

-----------------------------------------------------------------------------
(* scan.reap and scan.heartbeat *)

Running  == {j \in Jobs : job[j].status = "running"}

Stranded_RunningOnly ==
  {j \in Jobs : job[j].status = "running" /\ "queued" \in Statuses(j)}

Stranded == {j \in Jobs : \/ job[j].status = "queued"
                          \/ /\ job[j].status = "running"
                             /\ "queued" \in Statuses(j)}

(***************************************************************************)
(* A sweep reads, without locks, which of the stranded jobs are stale and  *)
(* which of the running ones are over their wall-clock budget.             *)
(***************************************************************************)
ReapRead(p, stale, stuck) ==
  /\ proc[p] = Idle
  /\ stale \cup stuck # {}
  /\ Goto(p, IF stale = {} THEN Sweep(stuck)
             ELSE [at |-> "republish", send |-> stale, rest |-> stuck])
  /\ UNCHANGED <<rows, dispatches, deliveries, stream, roster, faults>>

ReapRepublish(p) ==
  LET r == proc[p] IN
  /\ r.at = "republish"
  /\ \E j \in r.send :
       /\ dispatches' = dispatches \cup {j}
       /\ Goto(p, IF r.send = {j} THEN Sweep(r.rest)
                  ELSE [r EXCEPT !.send = r.send \ {j}])
  /\ UNCHANGED <<rows, deliveries, stream, roster, faults>>

(***************************************************************************)
(* One stuck job: its live tasks fail in one transaction, and the job      *)
(* closes with the job-timeout reason only if there were any.              *)
(***************************************************************************)
Expired_AlwaysTimeout(j, live, rest) ==
  IF live = {} THEN Finalizing(j, "job.timeout", rest)
  ELSE [at |-> "expired", job |-> j, failed |-> live, rest |-> rest]

Expired(j, live, rest) ==
  IF live = {} THEN Finalizing(j, NoReason, rest)
  ELSE [at |-> "expired", job |-> j, failed |-> live, rest |-> rest]

ReapExpire(p) ==
  LET r == proc[p] IN
  /\ r.at = "sweep"
  /\ \E j \in r.rest :
       LET live == {k \in TasksOf(j) : Live(k)} IN
       /\ Move(live, "failed", "job.timeout")
       /\ Goto(p, Expired(j, live, r.rest \ {j}))
  /\ UNCHANGED <<job, result, dispatches, deliveries, stream, roster, faults>>

(***************************************************************************)
(* Each failed task is revoked, best effort, and reported.                 *)
(***************************************************************************)
ReapReport(p) ==
  LET r == proc[p] IN
  /\ r.at = "expired"
  /\ \E k \in r.failed :
       /\ deliveries' \in {deliveries, [q \in Queues |-> deliveries[q] \ {k}]}
       /\ Goto(p, IF r.failed = {k} THEN Finalizing(r.job, "job.timeout", r.rest)
                  ELSE [r EXCEPT !.failed = r.failed \ {k}])
  /\ Publish(r.job, "live")
  /\ UNCHANGED <<rows, dispatches, roster, faults>>

HeartbeatRead(p) ==
  /\ proc[p] = Idle
  /\ Running # {}
  /\ Goto(p, [at |-> "heartbeat", rest |-> Running])
  /\ UNCHANGED <<rows, dispatches, deliveries, stream, roster, faults>>

HeartbeatSend(p) ==
  LET h == proc[p] IN
  /\ h.at = "heartbeat"
  /\ \E j \in h.rest :
       /\ Publish(j, "live")
       /\ Goto(p, IF h.rest = {j} THEN Idle ELSE [h EXCEPT !.rest = h.rest \ {j}])
  /\ UNCHANGED <<rows, dispatches, deliveries, roster, faults>>

-----------------------------------------------------------------------------
(* Faults *)

Fault == faults < MaxFaults /\ faults' = faults + 1

(***************************************************************************)
(* A process is killed, or its handler raises (a broker or database error, *)
(* a time limit): what it had not committed, sent or published is lost.    *)
(* It comes back with the roster of the image then deployed.               *)
(***************************************************************************)
Restart(p, image) ==
  /\ Fault
  /\ proc[p] # Idle \/ image # roster[p]
  /\ Goto(p, Idle)
  /\ roster' = [roster EXCEPT ![p] = image]
  /\ UNCHANGED <<rows, dispatches, deliveries, stream>>

(***************************************************************************)
(* An error while one stuck job is reaped is swallowed; the sweep goes on. *)
(***************************************************************************)
ReapError(p) ==
  LET r == proc[p] IN
  /\ Fault
  /\ \/ /\ r.at = "sweep"
        /\ \E j \in r.rest : Goto(p, Sweep(r.rest \ {j}))
     \/ /\ r.at = "finalize" /\ r.rest # {}
        /\ Goto(p, Sweep(r.rest))
  /\ UNCHANGED <<rows, dispatches, deliveries, stream, roster>>

LoseDispatch(j) ==
  /\ Fault
  /\ j \in dispatches
  /\ dispatches' = dispatches \ {j}
  /\ UNCHANGED <<rows, deliveries, stream, proc, roster>>

LoseDelivery(q, k) ==
  /\ Fault
  /\ k \in deliveries[q]
  /\ deliveries' = [deliveries EXCEPT ![q] = @ \ {k}]
  /\ UNCHANGED <<rows, dispatches, stream, proc, roster>>

-----------------------------------------------------------------------------
Dispatch(p) ==
  \/ \E j \in Jobs : DispatchDropped(p, j) \/ DispatchRead(p, j)
  \/ DispatchCommit(p)
  \/ DispatchAnnounce(p)
  \/ DispatchSend(p)

Finalize(p) ==
  \/ FinalizeClose(p)
  \/ FinalizeSkip(p)
  \/ PublishFinal(p)
  \/ PublishEnd(p)

RunModule(w) ==
  \/ \E k \in Tasks : \/ RunDuplicate(w, k)
                      \/ RunCanceled(w, k)
                      \/ RunRefused(w, k)
                      \/ RunClaim(w, k)
                      \/ RunDropped(w, k)
                      \/ RunCanceledLate(w, k)
                      \/ RunFailed(w, k)
                      \/ RunCompleted(w, k)
  \/ RunAnnounce(w)
  \/ RunReport(w)

Reap(p) ==
  \/ \E stale \in SUBSET Stranded, stuck \in SUBSET Running :
       ReapRead(p, stale, stuck)
  \/ ReapRepublish(p)
  \/ ReapExpire(p)
  \/ ReapReport(p)

Heartbeat(p) == HeartbeatRead(p) \/ HeartbeatSend(p)

Client == \E j \in Jobs : Launch(j) \/ RequestCancel(j)

Faults ==
  \/ \E p \in Proc, image \in Images : Restart(p, image)
  \/ \E p \in Platform : ReapError(p)
  \/ \E j \in Jobs : LoseDispatch(j)
  \/ \E q \in Queues, k \in Tasks : LoseDelivery(q, k)

(***************************************************************************)
(* No message, no handler under way and no running job: the processes wait *)
(* for work.                                                               *)
(***************************************************************************)
Waiting ==
  /\ Running = {} /\ dispatches = {}
  /\ \A q \in Queues : deliveries[q] = {}
  /\ \A p \in Proc : proc[p] = Idle
  /\ UNCHANGED vars

Counting ==
  \/ \E p \in Platform : Dispatch(p)
  \/ \E w \in Workers : RunModule(w)
  \/ \E p \in Proc : Finalize(p)
  \/ Waiting

Next ==
  \/ Client
  \/ Counting
  \/ \E p \in Platform : Reap(p) \/ Heartbeat(p)
  \/ Faults

Spec == Init /\ [][Next]_vars

(***************************************************************************)
(* What scheduling gives.  A process that began a handler carries it to    *)
(* its end: an engine is killed at its budget, a sweep is finite, and a    *)
(* process waiting for a job row gets it when the dispatch holding it      *)
(* commits.  That the broker hands the messages of a queue out in order,   *)
(* so that a process idle again and again gets to any of them, and that    *)
(* beat fires the sweep again and again, which in time finds a job stale   *)
(* or over its budget, are premises of the properties that need them.      *)
(***************************************************************************)
Advance(p) ==
  /\ proc[p] # Idle
  /\ \/ p \in Platform /\ (Dispatch(p) \/ Reap(p) \/ Heartbeat(p))
     \/ p \in Workers /\ RunModule(p)
     \/ Finalize(p)

FoundStale(j) ==
  \E p \in Platform, stale \in SUBSET Stranded, stuck \in SUBSET Running :
    j \in stale /\ ReapRead(p, stale, stuck)

FoundStuck(j) ==
  \E p \in Platform, stale \in SUBSET Stranded, stuck \in SUBSET Running :
    j \in stuck /\ ReapRead(p, stale, stuck)

DispatchTaken(j) == \E p \in Platform : DispatchRead(p, j)

TaskTaken(k) ==
  \E w \in Workers : \/ RunDuplicate(w, k) \/ RunCanceled(w, k)
                     \/ RunRefused(w, k) \/ RunClaim(w, k)

FairSpec == Spec /\ \A p \in Proc : WF_vars(Advance(p))
=============================================================================
