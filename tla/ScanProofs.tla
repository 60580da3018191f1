----------------------------- MODULE ScanProofs -----------------------------
(***************************************************************************)
(* Theorems about ScanPipeline, for every set of jobs, tasks, processes,   *)
(* queues and images and any number of faults.                             *)
(***************************************************************************)
EXTENDS ScanProperties, TLAPS

-----------------------------------------------------------------------------
(* The handlers' local variables *)

LEMMA LocalFields ==
  ASSUME NEW r \in Local
  PROVE  /\ r.at = "fanout" =>
              r.job \in Jobs /\ r.send \in SUBSET Tasks /\ r.block \in SUBSET Tasks
         /\ r.at \in {"announce", "send"} => r.job \in Jobs /\ r.send \in SUBSET Tasks
         /\ r.at \in {"started", "engine", "report"} => r.task \in Tasks
         /\ r.at = "republish" => r.send \in SUBSET Jobs /\ r.rest \in SUBSET Jobs
         /\ r.at \in {"sweep", "heartbeat"} => r.rest \in SUBSET Jobs
         /\ r.at = "expired" =>
              r.job \in Jobs /\ r.failed \in SUBSET Tasks /\ r.rest \in SUBSET Jobs
         /\ r.at = "finalize" =>
              r.job \in Jobs /\ r.override \in Override /\ r.rest \in SUBSET Jobs
         /\ r.at \in {"closing", "ending"} => r.job \in Jobs /\ r.rest \in SUBSET Jobs
BY DEF Local, Idle

LEMMA IdleLocal == Idle \in Local
BY DEF Local

LEMMA SweepLocal ==
  ASSUME NEW rest \in SUBSET Jobs
  PROVE  Sweep(rest) \in Local
BY DEF Local, Sweep

LEMMA FinalizingLocal ==
  ASSUME NEW j \in Jobs, NEW override \in Override, NEW rest \in SUBSET Jobs
  PROVE  Finalizing(j, override, rest) \in Local
BY DEF Local, Finalizing

LEMMA SendingLocal ==
  ASSUME NEW j \in Jobs, NEW send \in SUBSET Tasks
  PROVE  Sending(j, send) \in Local
<1>1. CASE send = {}
  BY <1>1, FinalizingLocal DEF Sending, Override
<1>2. CASE send # {}
  BY <1>2 DEF Sending, Local
<1>. QED  BY <1>1, <1>2

LEMMA ExpiredLocal ==
  ASSUME NEW j \in Jobs, NEW live \in SUBSET Tasks, NEW rest \in SUBSET Jobs
  PROVE  Expired(j, live, rest) \in Local
<1>1. CASE live = {}
  BY <1>1, FinalizingLocal DEF Expired, Override
<1>2. CASE live # {}
  BY <1>2 DEF Expired, Local
<1>. QED  BY <1>1, <1>2

LEMMA TaskLocal ==
  ASSUME NEW k \in Tasks, NEW at \in {"started", "engine", "report"}
  PROVE  [at |-> at, task |-> k] \in Local
BY DEF Local

(* The building blocks of the actions *)

LEMMA GotoType ==
  ASSUME proc \in [Proc -> Local], NEW p \in Proc, NEW l \in Local, Goto(p, l)
  PROVE  proc' \in [Proc -> Local]
BY DEF Goto

LEMMA PublishType ==
  ASSUME stream \in [Jobs -> {"live", "final", "end", "late"}],
         NEW j \in Jobs, NEW message \in {"live", "final", "end"},
         Publish(j, message)
  PROVE  stream' \in [Jobs -> {"live", "final", "end", "late"}]
BY DEF Publish

LEMMA MoveType ==
  ASSUME task \in [Tasks -> TaskRow],
         NEW S, NEW status \in TaskStatus, NEW reason \in TaskReason,
         Move(S, status, reason)
  PROVE  task' \in [Tasks -> TaskRow]
BY DEF Move, TaskRow

LEMMA CreateTasksType ==
  ASSUME task \in [Tasks -> TaskRow],
         NEW queued, NEW blocked, CreateTasks(queued, blocked)
  PROVE  task' \in [Tasks -> TaskRow]
BY DEF CreateTasks, TaskRow, NoTaskRow, TaskStatus, TerminalTask, TaskReason,
       NoReason

LEMMA OutcomeType ==
  ASSUME NEW statuses, NEW override \in Override
  PROVE  /\ JobOutcome(statuses, override) \in JobRow
         /\ JobOutcome(statuses, override).status \in TerminalJob
BY DEF JobOutcome, JobRow, JobStatus, TerminalJob, JobReason, Override, NoReason

-----------------------------------------------------------------------------
(* Type correctness, one lemma for each part of the next-state relation *)

LEMMA InitType == Init => TypeOK
<1>. SUFFICES ASSUME Init PROVE TypeOK
  OBVIOUS
<1>1. job \in [Jobs -> JobRow] /\ task \in [Tasks -> TaskRow] /\ result \subseteq Tasks
  BY DEF Init, RowsInit, NoJobRow, NoTaskRow, JobRow, TaskRow, JobStatus, TaskStatus,
         JobReason, TaskReason, NoReason
<1>2. proc \in [Proc -> Local]
  BY IdleLocal DEF Init
<1>. QED  BY <1>1, <1>2 DEF Init, TypeOK

LEMMA ClientType == ASSUME TypeOK, Client PROVE TypeOK'
<1>. PICK j \in Jobs : Launch(j) \/ RequestCancel(j)
  BY DEF Client
<1>1. CASE Launch(j)
  BY <1>1 DEF TypeOK, Launch, JobRow, JobStatus
<1>2. CASE RequestCancel(j)
  <2>1. task' \in [Tasks -> TaskRow]
    BY <1>2 DEF TypeOK, RequestCancel, TaskRow
  <2>. QED  BY <1>2, <2>1 DEF TypeOK, RequestCancel
<1>. QED  BY <1>1, <1>2

LEMMA DispatchType == ASSUME TypeOK, NEW p \in Platform, Dispatch(p) PROVE TypeOK'
<1>0. p \in Proc /\ proc[p] \in Local
  BY DEF TypeOK, Proc
<1>1. ASSUME NEW j \in Jobs, DispatchDropped(p, j) PROVE TypeOK'
  BY <1>1 DEF TypeOK, DispatchDropped, rows
<1>2. ASSUME NEW j \in Jobs, DispatchRead(p, j) PROVE TypeOK'
  <2>. DEFINE wanted == {k \in TasksOf(j) :
                           \/ \A i \in TasksOf(j) : task[i].status = "absent"
                           \/ task[k].status = "queued" /\ ~task[k].cancel}
              send   == {k \in wanted : Declared(p, k) # NoQueue}
              local  == [at |-> "fanout", job |-> j, send |-> send,
                         block |-> wanted \ send]
  <2>1. send \in SUBSET Tasks /\ wanted \ send \in SUBSET Tasks
    BY DEF TasksOf
  <2>2. local \in Local
    BY <2>1 DEF Local
  <2>3. Goto(p, local)
    BY <1>2 DEF DispatchRead
  <2>4. proc' \in [Proc -> Local]
    BY <1>0, <2>2, <2>3, GotoType DEF TypeOK
  <2>. QED  BY <1>2, <2>4 DEF TypeOK, DispatchRead, rows
<1>3. CASE DispatchCommit(p)
  <2>. DEFINE d == proc[p]
  <2>1. d.job \in Jobs /\ d.send \in SUBSET Tasks /\ d.block \in SUBSET Tasks
    BY <1>0, <1>3, LocalFields DEF DispatchCommit
  <2>2. task' \in [Tasks -> TaskRow]
    <3>1. "blocked" \in TaskStatus /\ "task.module_unavailable" \in TaskReason
      BY DEF TaskStatus, TerminalTask, TaskReason
    <3>. QED  BY <1>3, <3>1, CreateTasksType, MoveType DEF DispatchCommit, TypeOK
  <2>3. [at |-> "announce", job |-> d.job, send |-> d.send] \in Local
    BY <2>1 DEF Local
  <2>4. proc' \in [Proc -> Local]
    BY <1>0, <1>3, <2>1, <2>3, SendingLocal, GotoType DEF DispatchCommit, TypeOK
  <2>5. job' \in [Jobs -> JobRow]
    BY <1>3, <2>1 DEF DispatchCommit, TypeOK, JobRow, JobStatus
  <2>. QED  BY <1>3, <2>2, <2>4, <2>5 DEF DispatchCommit, TypeOK
<1>4. CASE DispatchAnnounce(p)
  <2>1. proc[p].job \in Jobs /\ proc[p].send \in SUBSET Tasks
    BY <1>0, <1>4, LocalFields DEF DispatchAnnounce
  <2>2. proc' \in [Proc -> Local]
    BY <1>0, <1>4, <2>1, SendingLocal, GotoType DEF DispatchAnnounce, TypeOK
  <2>3. stream' \in [Jobs -> {"live", "final", "end", "late"}]
    BY <1>4, <2>1, PublishType DEF DispatchAnnounce, TypeOK
  <2>. QED  BY <1>4, <2>2, <2>3 DEF DispatchAnnounce, TypeOK, rows
<1>5. CASE DispatchSend(p)
  <2>1. proc[p].job \in Jobs /\ proc[p].send \in SUBSET Tasks
    BY <1>0, <1>5, LocalFields DEF DispatchSend
  <2>2. PICK k \in proc[p].send :
          /\ deliveries' = [deliveries EXCEPT ![Declared(p, k)] = @ \cup {k}]
          /\ Goto(p, Sending(proc[p].job, proc[p].send \ {k}))
    BY <1>5 DEF DispatchSend
  <2>3. proc' \in [Proc -> Local]
    BY <1>0, <2>1, <2>2, SendingLocal, GotoType DEF TypeOK
  <2>4. deliveries' \in [Queues -> SUBSET Tasks]
    BY <2>1, <2>2 DEF TypeOK
  <2>. QED  BY <1>5, <2>3, <2>4 DEF DispatchSend, TypeOK, rows
<1>. QED  BY <1>1, <1>2, <1>3, <1>4, <1>5 DEF Dispatch

LEMMA FinalizeType == ASSUME TypeOK, NEW p \in Proc, Finalize(p) PROVE TypeOK'
<1>0. proc[p] \in Local
  BY DEF TypeOK
<1>1. CASE FinalizeClose(p)
  <2>1. proc[p].job \in Jobs /\ proc[p].override \in Override /\ proc[p].rest \in SUBSET Jobs
    BY <1>0, <1>1, LocalFields DEF FinalizeClose
  <2>2. [at |-> "closing", job |-> proc[p].job, rest |-> proc[p].rest] \in Local
    BY <2>1 DEF Local
  <2>3. proc' \in [Proc -> Local]
    BY <1>1, <2>2, GotoType DEF FinalizeClose, TypeOK
  <2>4. job' \in [Jobs -> JobRow]
    BY <1>1, <2>1, OutcomeType DEF FinalizeClose, TypeOK
  <2>. QED  BY <1>1, <2>3, <2>4 DEF FinalizeClose, TypeOK
<1>2. CASE FinalizeSkip(p)
  <2>1. proc[p].rest \in SUBSET Jobs
    BY <1>0, <1>2, LocalFields DEF FinalizeSkip
  <2>2. proc' \in [Proc -> Local]
    BY <1>2, <2>1, SweepLocal, GotoType DEF FinalizeSkip, TypeOK
  <2>. QED  BY <1>2, <2>2 DEF FinalizeSkip, TypeOK, rows
<1>3. CASE PublishFinal(p)
  <2>1. proc[p].job \in Jobs
    BY <1>0, <1>3, LocalFields DEF PublishFinal
  <2>2. [proc[p] EXCEPT !.at = "ending"] \in Local
    BY <1>0, <1>3 DEF PublishFinal, Local, Idle
  <2>3. proc' \in [Proc -> Local]
    BY <1>3, <2>2, GotoType DEF PublishFinal, TypeOK
  <2>4. stream' \in [Jobs -> {"live", "final", "end", "late"}]
    BY <1>3, <2>1, PublishType DEF PublishFinal, TypeOK
  <2>. QED  BY <1>3, <2>3, <2>4 DEF PublishFinal, TypeOK, rows
<1>4. CASE PublishEnd(p)
  <2>1. proc[p].job \in Jobs /\ proc[p].rest \in SUBSET Jobs
    BY <1>0, <1>4, LocalFields DEF PublishEnd
  <2>2. proc' \in [Proc -> Local]
    BY <1>4, <2>1, SweepLocal, GotoType DEF PublishEnd, TypeOK
  <2>3. stream' \in [Jobs -> {"live", "final", "end", "late"}]
    BY <1>4, <2>1, PublishType DEF PublishEnd, TypeOK
  <2>. QED  BY <1>4, <2>2, <2>3 DEF PublishEnd, TypeOK, rows
<1>. QED  BY <1>1, <1>2, <1>3, <1>4 DEF Finalize

LEMMA RunModuleType ==
  ASSUME TypeOK, NEW w \in Workers, RunModule(w) PROVE TypeOK'
<1>0. w \in Proc /\ proc[w] \in Local
  BY DEF TypeOK, Proc
<1>1. ASSUME NEW k \in Tasks, NEW at \in {"started", "report"},
             NEW status \in {"running", "blocked", "failed", "canceled", "completed"},
             NEW reason \in TaskReason,
             Move({k}, status, reason), Goto(w, [at |-> at, task |-> k])
      PROVE  task' \in [Tasks -> TaskRow] /\ proc' \in [Proc -> Local]
  <2>1. status \in TaskStatus
    BY DEF TaskStatus, TerminalTask
  <2>2. [at |-> at, task |-> k] \in Local
    BY TaskLocal
  <2>. QED  BY <1>0, <1>1, <2>1, <2>2, MoveType, GotoType DEF TypeOK
<1>2. ASSUME NEW k \in Tasks PROVE task[k].reason \in TaskReason
  BY DEF TypeOK, TaskRow
<1>3. EngineFailure \cup {NoReason, "task.module_unavailable", "task.misrouted",
                          "task.canceled"} \subseteq TaskReason
  BY DEF TaskReason
<1>4. ASSUME NEW k \in Tasks, Take(w, k)
      PROVE  deliveries' \in [Queues -> SUBSET Tasks]
  BY <1>4 DEF Take, TypeOK
<1>5. ASSUME NEW k \in Tasks,
             RunDuplicate(w, k) \/ RunCanceled(w, k) \/ RunRefused(w, k) \/ RunClaim(w, k)
      PROVE  TypeOK'
  <2>0. deliveries' \in [Queues -> SUBSET Tasks]
    BY <1>4, <1>5 DEF RunDuplicate, RunCanceled, RunRefused, RunClaim
  <2>1. task' \in [Tasks -> TaskRow] /\ proc' \in [Proc -> Local]
    <3>1. CASE RunDuplicate(w, k)
      BY <3>1 DEF RunDuplicate, TypeOK
    <3>2. CASE RunCanceled(w, k)
      BY <1>1, <1>3, <3>2 DEF RunCanceled
    <3>3. CASE RunRefused(w, k)
      BY <1>1, <1>3, <3>3 DEF RunRefused
    <3>4. CASE RunClaim(w, k)
      BY <1>1, <1>2, <3>4 DEF RunClaim
    <3>. QED  BY <1>5, <3>1, <3>2, <3>3, <3>4
  <2>2. UNCHANGED <<job, result, dispatches, stream, roster, faults>>
    BY <1>5 DEF RunDuplicate, RunCanceled, RunRefused, RunClaim, Take
  <2>. QED  BY <2>0, <2>1, <2>2 DEF TypeOK
<1>6. ASSUME NEW k \in Tasks,
             \/ RunDropped(w, k) \/ RunCanceledLate(w, k)
             \/ RunFailed(w, k) \/ RunCompleted(w, k)
      PROVE  TypeOK'
  <2>1. task' \in [Tasks -> TaskRow] /\ proc' \in [Proc -> Local]
    <3>1. CASE RunDropped(w, k)
      BY <1>0, <3>1, IdleLocal, GotoType DEF RunDropped, TypeOK
    <3>2. CASE RunCanceledLate(w, k)
      BY <1>1, <1>3, <3>2 DEF RunCanceledLate
    <3>3. CASE RunFailed(w, k)
      BY <1>1, <1>3, <3>3 DEF RunFailed
    <3>4. CASE RunCompleted(w, k)
      BY <1>1, <1>3, <3>4 DEF RunCompleted
    <3>. QED  BY <1>6, <3>1, <3>2, <3>3, <3>4
  <2>2. result' \subseteq Tasks
    BY <1>6 DEF RunDropped, RunCanceledLate, RunFailed, RunCompleted, TypeOK
  <2>3. UNCHANGED <<job, dispatches, deliveries, stream, roster, faults>>
    BY <1>6 DEF RunDropped, RunCanceledLate, RunFailed, RunCompleted, EngineEnds
  <2>. QED  BY <2>1, <2>2, <2>3 DEF TypeOK
<1>7. CASE RunAnnounce(w)
  <2>1. proc[w].task \in Tasks
    BY <1>0, <1>7, LocalFields DEF RunAnnounce
  <2>2. JobOf[proc[w].task] \in Jobs
    BY <2>1, JobOfAssumption
  <2>3. [proc[w] EXCEPT !.at = "engine"] \in Local
    BY <1>0, <1>7 DEF RunAnnounce, Local, Idle
  <2>4. proc' \in [Proc -> Local]
    BY <1>0, <1>7, <2>3, GotoType DEF RunAnnounce, TypeOK
  <2>5. stream' \in [Jobs -> {"live", "final", "end", "late"}]
    BY <1>7, <2>2, PublishType DEF RunAnnounce, TypeOK
  <2>. QED  BY <1>7, <2>4, <2>5 DEF RunAnnounce, TypeOK, rows
<1>8. CASE RunReport(w)
  <2>. DEFINE j == JobOf[proc[w].task]
  <2>1. j \in Jobs
    BY <1>0, <1>8, LocalFields, JobOfAssumption DEF RunReport
  <2>2. Finalizing(j, NoReason, {}) \in Local
    BY <2>1, FinalizingLocal DEF Override
  <2>3. proc' \in [Proc -> Local]
    BY <1>0, <1>8, <2>2, GotoType DEF RunReport, TypeOK
  <2>4. stream' \in [Jobs -> {"live", "final", "end", "late"}]
    BY <1>8, <2>1, PublishType DEF RunReport, TypeOK
  <2>. QED  BY <1>8, <2>3, <2>4 DEF RunReport, TypeOK, rows
<1>. QED  BY <1>5, <1>6, <1>7, <1>8 DEF RunModule

LEMMA ReapType == ASSUME TypeOK, NEW p \in Platform, Reap(p) PROVE TypeOK'
<1>0. p \in Proc /\ proc[p] \in Local
  BY DEF TypeOK, Proc
<1>1. ASSUME NEW stale \in SUBSET Stranded, NEW stuck \in SUBSET Running,
             ReapRead(p, stale, stuck)
      PROVE  TypeOK'
  <2>1. stale \in SUBSET Jobs /\ stuck \in SUBSET Jobs
    BY DEF Stranded, Running
  <2>2. [at |-> "republish", send |-> stale, rest |-> stuck] \in Local
    BY <2>1 DEF Local
  <2>3. proc' \in [Proc -> Local]
    BY <1>0, <1>1, <2>1, <2>2, SweepLocal, GotoType DEF ReapRead, TypeOK
  <2>. QED  BY <1>1, <2>3 DEF ReapRead, TypeOK, rows
<1>2. CASE ReapRepublish(p)
  <2>. DEFINE r == proc[p]
  <2>1. r.send \in SUBSET Jobs /\ r.rest \in SUBSET Jobs
    BY <1>0, <1>2, LocalFields DEF ReapRepublish
  <2>2. PICK j \in r.send :
          /\ dispatches' = dispatches \cup {j}
          /\ Goto(p, IF r.send = {j} THEN Sweep(r.rest)
                     ELSE [r EXCEPT !.send = r.send \ {j}])
    BY <1>2 DEF ReapRepublish
  <2>3. [r EXCEPT !.send = r.send \ {j}] \in Local
    BY <1>0, <1>2, <2>1 DEF ReapRepublish, Local, Idle
  <2>4. proc' \in [Proc -> Local]
    BY <1>0, <2>1, <2>2, <2>3, SweepLocal, GotoType DEF TypeOK
  <2>5. dispatches' \subseteq Jobs
    BY <2>1, <2>2 DEF TypeOK
  <2>. QED  BY <1>2, <2>4, <2>5 DEF ReapRepublish, TypeOK, rows
<1>3. CASE ReapExpire(p)
  <2>. DEFINE r == proc[p]
              Expiring(j) == {k \in TasksOf(j) : Live(k)}
  <2>1. r.rest \in SUBSET Jobs
    BY <1>0, <1>3, LocalFields DEF ReapExpire
  <2>2. PICK j \in r.rest : /\ Move(Expiring(j), "failed", "job.timeout")
                            /\ Goto(p, Expired(j, Expiring(j), r.rest \ {j}))
    BY <1>3 DEF ReapExpire
  <2>3. Expiring(j) \in SUBSET Tasks
    BY DEF TasksOf
  <2>4. "failed" \in TaskStatus /\ "job.timeout" \in TaskReason
    BY DEF TaskStatus, TerminalTask, TaskReason
  <2>5. task' \in [Tasks -> TaskRow]
    BY <2>2, <2>4, MoveType DEF TypeOK
  <2>6. Expired(j, Expiring(j), r.rest \ {j}) \in Local
    BY <2>1, <2>3, ExpiredLocal
  <2>7. proc' \in [Proc -> Local]
    BY <1>0, <2>2, <2>6, GotoType DEF TypeOK
  <2>. QED  BY <1>3, <2>5, <2>7 DEF ReapExpire, TypeOK
<1>4. CASE ReapReport(p)
  <2>. DEFINE r == proc[p]
  <2>1. r.job \in Jobs /\ r.failed \in SUBSET Tasks /\ r.rest \in SUBSET Jobs
    BY <1>0, <1>4, LocalFields DEF ReapReport
  <2>2. PICK k \in r.failed :
          /\ deliveries' \in {deliveries, [q \in Queues |-> deliveries[q] \ {k}]}
          /\ Goto(p, IF r.failed = {k} THEN Finalizing(r.job, "job.timeout", r.rest)
                     ELSE [r EXCEPT !.failed = r.failed \ {k}])
    BY <1>4 DEF ReapReport
  <2>3. [r EXCEPT !.failed = r.failed \ {k}] \in Local
    BY <1>0, <1>4, <2>1 DEF ReapReport, Local, Idle
  <2>4. Finalizing(r.job, "job.timeout", r.rest) \in Local
    BY <2>1, FinalizingLocal DEF Override
  <2>5. proc' \in [Proc -> Local]
    BY <1>0, <2>2, <2>3, <2>4, GotoType DEF TypeOK
  <2>6. deliveries' \in [Queues -> SUBSET Tasks]
    BY <2>2 DEF TypeOK
  <2>7. stream' \in [Jobs -> {"live", "final", "end", "late"}]
    BY <1>4, <2>1, PublishType DEF ReapReport, TypeOK
  <2>. QED  BY <1>4, <2>5, <2>6, <2>7 DEF ReapReport, TypeOK, rows
<1>. QED  BY <1>1, <1>2, <1>3, <1>4 DEF Reap

LEMMA HeartbeatType == ASSUME TypeOK, NEW p \in Platform, Heartbeat(p) PROVE TypeOK'
<1>0. p \in Proc /\ proc[p] \in Local
  BY DEF TypeOK, Proc
<1>1. CASE HeartbeatRead(p)
  <2>1. [at |-> "heartbeat", rest |-> Running] \in Local
    BY DEF Local, Running
  <2>2. proc' \in [Proc -> Local]
    BY <1>0, <1>1, <2>1, GotoType DEF HeartbeatRead, TypeOK
  <2>. QED  BY <1>1, <2>2 DEF HeartbeatRead, TypeOK, rows
<1>2. CASE HeartbeatSend(p)
  <2>. DEFINE h == proc[p]
  <2>1. h.rest \in SUBSET Jobs
    BY <1>0, <1>2, LocalFields DEF HeartbeatSend
  <2>2. PICK j \in h.rest :
          /\ Publish(j, "live")
          /\ Goto(p, IF h.rest = {j} THEN Idle ELSE [h EXCEPT !.rest = h.rest \ {j}])
    BY <1>2 DEF HeartbeatSend
  <2>3. [h EXCEPT !.rest = h.rest \ {j}] \in Local
    BY <1>0, <1>2, <2>1 DEF HeartbeatSend, Local, Idle
  <2>4. proc' \in [Proc -> Local]
    BY <1>0, <2>2, <2>3, IdleLocal, GotoType DEF TypeOK
  <2>5. stream' \in [Jobs -> {"live", "final", "end", "late"}]
    BY <2>1, <2>2, PublishType DEF TypeOK
  <2>. QED  BY <1>2, <2>4, <2>5 DEF HeartbeatSend, TypeOK, rows
<1>. QED  BY <1>1, <1>2 DEF Heartbeat

LEMMA FaultsType == ASSUME TypeOK, Faults PROVE TypeOK'
<1>0. ASSUME Fault PROVE faults' \in Nat
  BY <1>0 DEF Fault, TypeOK
<1>1. ASSUME NEW p \in Proc, NEW image \in Images, Restart(p, image) PROVE TypeOK'
  <2>1. proc' \in [Proc -> Local]
    BY <1>1, IdleLocal, GotoType DEF Restart, TypeOK
  <2>2. roster' \in [Proc -> Images]
    BY <1>1 DEF Restart, TypeOK
  <2>. QED  BY <1>0, <1>1, <2>1, <2>2 DEF Restart, TypeOK, rows
<1>2. ASSUME NEW p \in Platform, ReapError(p) PROVE TypeOK'
  <2>1. p \in Proc /\ proc[p] \in Local
    BY DEF TypeOK, Proc
  <2>2. proc[p].rest \in SUBSET Jobs
    BY <1>2, <2>1, LocalFields DEF ReapError
  <2>3. proc' \in [Proc -> Local]
    BY <1>2, <2>1, <2>2, SweepLocal, GotoType DEF ReapError, TypeOK
  <2>. QED  BY <1>0, <1>2, <2>3 DEF ReapError, TypeOK, rows
<1>3. ASSUME NEW j \in Jobs, LoseDispatch(j) PROVE TypeOK'
  BY <1>0, <1>3 DEF LoseDispatch, TypeOK, rows
<1>4. ASSUME NEW q \in Queues, NEW k \in Tasks, LoseDelivery(q, k) PROVE TypeOK'
  BY <1>0, <1>4 DEF LoseDelivery, TypeOK, rows
<1>. QED  BY <1>1, <1>2, <1>3, <1>4 DEF Faults

(***************************************************************************)
(* Every step of the pipeline keeps the type invariant: rows, messages and *)
(* the variables of every handler of worker/tasks.py stay what the code    *)
(* can write.                                                              *)
(***************************************************************************)
LEMMA NextType == TypeOK /\ [Next]_vars => TypeOK'
<1>. SUFFICES ASSUME TypeOK, [Next]_vars PROVE TypeOK'
  OBVIOUS
<1>1. CASE Counting
  <2>1. CASE Waiting
    BY <2>1 DEF Waiting, vars, rows, TypeOK
  <2>. QED  BY <1>1, <2>1, DispatchType, RunModuleType, FinalizeType DEF Counting
<1>2. CASE UNCHANGED vars
  BY <1>2 DEF vars, rows, TypeOK
<1>. QED  BY <1>1, <1>2, ClientType, ReapType, HeartbeatType, FaultsType DEF Next

(***************************************************************************)
(* The rows, queues and handlers of the scan pipeline keep their types,    *)
(* whatever the jobs, workers, images and faults.                          *)
(***************************************************************************)
THEOREM TypeCorrect == Spec => []TypeOK
BY InitType, NextType, PTL DEF Spec
=============================================================================
