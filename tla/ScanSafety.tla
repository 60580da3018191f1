----------------------------- MODULE ScanSafety -----------------------------
(***************************************************************************)
(* The safety theorems of ScanPipeline.  The argument has two layers: what *)
(* one step may do to a job, to a task, to a process and to a channel,     *)
(* found action by action; and the invariants, which follow from that.     *)
(* Then the matrix of a job, the finisher that closes it, and that the     *)
(* pipeline implements ScanLifecycle.                                      *)
(***************************************************************************)
EXTENDS ScanProofs

(***************************************************************************)
(* The dispatch that holds a job's row: the job is open until it commits,  *)
(* and it writes the tasks of that job only.                               *)
(***************************************************************************)
FanoutOpen ==
  \A p \in Platform : proc[p].at = "fanout" =>
    /\ job[proc[p].job].status \notin TerminalJob
    /\ proc[p].send \cup proc[p].block \subseteq TasksOf(proc[p].job)

(***************************************************************************)
(* A task with an engine was claimed: no other delivery finds it queued.   *)
(***************************************************************************)
EngineClaimed ==
  \A w \in Workers : proc[w].at \in {"started", "engine"} =>
    task[proc[w].task].status \notin {"absent", "queued"}

SafetyInv ==
  /\ TypeOK
  /\ FanoutOpen
  /\ EngineClaimed
  /\ ClosedJobSettled
  /\ EndAfterCommit
  /\ OneEnd

-----------------------------------------------------------------------------
(* What one step may do *)

JobStep ==
  \A j \in Jobs :
    \/ job'[j] = job[j]
    \/ job[j].status = "absent" /\ job'[j].status = "queued"
    \/ /\ job[j].status = "queued" /\ job'[j].status = "running"
       /\ \E p \in Platform : DispatchCommit(p) /\ proc[p].job = j
    \/ \E p \in Proc : FinalizeClose(p) /\ proc[p].job = j

TaskStep ==
  \A k \in Tasks :
    \/ task'[k].status = task[k].status
    \/ Live(k) /\ task'[k].status \notin {"absent", "queued"}
    \/ \E p \in Platform :
         /\ DispatchCommit(p) /\ proc[p].job = JobOf[k]
         /\ task[k].status = "absent" \/ task'[k].status = "blocked"

(***************************************************************************)
(* A sweep has jobs to republish: it has just read them as stranded, or    *)
(* had them already.                                                       *)
(***************************************************************************)
Republishing(p) ==
  /\ p \in Platform /\ proc'[p].at = "republish"
  /\ \/ proc'[p].send \subseteq Stranded
     \/ proc[p].at = "republish" /\ proc'[p].send \subseteq proc[p].send

(***************************************************************************)
(* A handler is about to close its job with the job-timeout reason: it has *)
(* just failed a task of that job, or it was about to already.             *)
(***************************************************************************)
TimingOut(l) == l.at = "expired" \/ (l.at = "finalize" /\ l.override = "job.timeout")

LostToTimeout(j) ==
  \E k \in TasksOf(j) : task[k].status = "failed" /\ task[k].reason = "job.timeout"

Expiring(p) ==
  /\ TimingOut(proc'[p]) /\ proc'[p].at \in {"expired", "finalize"}
  /\ \/ TimingOut(proc[p]) /\ proc[p].job = proc'[p].job
     \/ LostToTimeout(proc[p].job)'

Plain(l) ==
  /\ l.at \notin {"fanout", "republish", "started", "engine", "closing", "ending"}
  /\ ~TimingOut(l)

ProcStep ==
  \A p \in Proc :
    \/ proc'[p] = proc[p] /\ roster'[p] = roster[p]
    \/ Plain(proc'[p])
    \/ Republishing(p)
    \/ Expiring(p)
    \/ p \in Platform /\ \E j \in Jobs : DispatchRead(p, j)
    \/ p \in Workers /\ (RunAnnounce(p) \/ \E k \in Tasks : RunClaim(p, k))
    \/ FinalizeClose(p)
    \/ PublishFinal(p)

StreamStep ==
  \A j \in Jobs :
    \/ stream'[j] = stream[j]
    \/ stream[j] \notin {"end", "late"} /\ stream'[j] = "live"
    \/ stream[j] \in {"end", "late"} /\ stream'[j] = "late"
    \/ /\ stream[j] \notin {"end", "late"} /\ stream'[j] = "final"
       /\ \E p \in Proc : PublishFinal(p) /\ proc[p].job = j
    \/ \E p \in Proc : PublishEnd(p) /\ proc[p].job = j

Step == JobStep /\ TaskStep /\ ProcStep /\ StreamStep

(* Where the handlers' helpers lead *)

LEMMA HelperAt ==
  /\ Idle.at = "idle"
  /\ \A rest : Sweep(rest).at \in {"idle", "sweep"}
  /\ \A j, override, rest : Finalizing(j, override, rest).at = "finalize"
  /\ \A j, send : Sending(j, send).at \in {"finalize", "send"}
  /\ \A j, live, rest : Expired(j, live, rest).at \in {"finalize", "expired"}
BY DEF Idle, Sweep, Finalizing, Sending, Expired

LEMMA HelperPlain ==
  /\ Plain(Idle)
  /\ \A rest : Plain(Sweep(rest))
  /\ \A j, rest : Plain(Finalizing(j, NoReason, rest))
  /\ \A j, send : Plain(Sending(j, send))
BY DEF Plain, TimingOut, NoReason, Idle, Sweep, Finalizing, Sending

LEMMA GotoStep ==
  ASSUME TypeOK, NEW p \in Proc, NEW l, Goto(p, l), UNCHANGED roster,
         \/ Plain(l)
         \/ p \in Platform /\ \E j \in Jobs : DispatchRead(p, j)
         \/ p \in Workers /\ (RunAnnounce(p) \/ \E k \in Tasks : RunClaim(p, k))
         \/ FinalizeClose(p)
         \/ PublishFinal(p)
         \/ Republishing(p)
         \/ Expiring(p)
  PROVE  ProcStep
BY DEF Goto, ProcStep, TypeOK

LEMMA LiveStreamStep ==
  ASSUME TypeOK, NEW j \in Jobs, Publish(j, "live")
  PROVE  StreamStep
BY DEF Publish, StreamStep, TypeOK

LEMMA MoveStep ==
  ASSUME TypeOK, NEW S, NEW status, NEW reason,
         \A k \in S : k \in Tasks => Live(k), status \notin {"absent", "queued"},
         Move(S, status, reason)
  PROVE  TaskStep
BY DEF Move, TaskStep, TypeOK, TaskRow

LEMMA RowsStay == ASSUME TypeOK, UNCHANGED rows PROVE JobStep /\ TaskStep
BY DEF rows, JobStep, TaskStep

LEMMA JobStays == ASSUME UNCHANGED job PROVE JobStep
BY DEF JobStep

LEMMA StreamStays == ASSUME UNCHANGED stream PROVE StreamStep
BY DEF StreamStep

LEMMA ProcStays == ASSUME UNCHANGED <<proc, roster>> PROVE ProcStep
BY DEF ProcStep

-----------------------------------------------------------------------------
(* Every action is such a step *)

LEMMA ClientStep == ASSUME TypeOK, Client PROVE Step
<1>. PICK j \in Jobs : Launch(j) \/ RequestCancel(j)
  BY DEF Client
<1>1. CASE Launch(j)
  BY <1>1, StreamStays, ProcStays DEF Launch, Step, JobStep, TaskStep, TypeOK, JobRow
<1>2. CASE RequestCancel(j)
  <2>1. TaskStep
    BY <1>2 DEF RequestCancel, TaskStep, TypeOK, TaskRow
  <2>. QED  BY <1>2, <2>1, JobStays, StreamStays, ProcStays DEF RequestCancel, Step
<1>. QED  BY <1>1, <1>2

LEMMA DispatchStep ==
  ASSUME TypeOK, FanoutOpen, NEW p \in Platform, Dispatch(p) PROVE Step
<1>0. p \in Proc /\ proc[p] \in Local
  BY DEF TypeOK, Proc
<1>1. ASSUME NEW j \in Jobs, DispatchDropped(p, j) PROVE Step
  BY <1>1, RowsStay, StreamStays, ProcStays DEF DispatchDropped, Step
<1>2. ASSUME NEW j \in Jobs, DispatchRead(p, j) PROVE Step
  <2>1. PICK l : Goto(p, l)
    BY <1>2 DEF DispatchRead
  <2>2. UNCHANGED <<rows, stream, roster>>
    BY <1>2 DEF DispatchRead
  <2>3. ProcStep
    BY <1>0, <1>2, <2>1, <2>2, GotoStep
  <2>. QED  BY <2>2, <2>3, RowsStay, StreamStays DEF Step
<1>3. CASE DispatchCommit(p)
  <2>. DEFINE d == proc[p]
  <2>1. d.at = "fanout" /\ d.job \in Jobs
    BY <1>0, <1>3, LocalFields DEF DispatchCommit
  <2>2. d.send \cup d.block \subseteq TasksOf(d.job)
    BY <2>1 DEF FanoutOpen
  <2>3. JobStep
    <3>1. \A j \in Jobs : \/ job'[j] = job[j]
                         \/ /\ j = d.job /\ job[j].status = "queued"
                            /\ job'[j].status = "running"
      BY <1>3, <2>1 DEF DispatchCommit, TypeOK, JobRow
    <3>. QED  BY <1>3, <3>1 DEF JobStep
  <2>4. TaskStep
    <3>. SUFFICES ASSUME NEW k \in Tasks, task'[k].status # task[k].status
                  PROVE  /\ JobOf[k] = d.job
                         /\ task[k].status = "absent" \/ task'[k].status = "blocked"
      BY <1>3 DEF TaskStep
    <3>1. k \in d.send \cup d.block
      BY <1>3 DEF DispatchCommit, CreateTasks, Move, TypeOK, TaskRow
    <3>2. JobOf[k] = d.job
      BY <2>2, <3>1 DEF TasksOf
    <3>3. CASE \A i \in TasksOf(d.job) : task[i].status = "absent"
      BY <2>2, <3>1, <3>2, <3>3
    <3>4. CASE ~ \A i \in TasksOf(d.job) : task[i].status = "absent"
      <4>1. task' = [i \in Tasks |-> IF i \in d.block
                       THEN [task[i] EXCEPT !.status = "blocked",
                                            !.reason = "task.module_unavailable"]
                       ELSE task[i]]
        BY <1>3, <3>4 DEF DispatchCommit, Move
      <4>. QED  BY <3>2, <4>1 DEF TypeOK, TaskRow
    <3>. QED  BY <3>2, <3>3, <3>4
  <2>5. ProcStep
    <3>1. PICK l : Goto(p, l) /\ Plain(l)
      BY <1>3, HelperPlain DEF DispatchCommit, Plain, TimingOut
    <3>. QED  BY <1>0, <1>3, <3>1, GotoStep DEF DispatchCommit
  <2>. QED  BY <1>3, <2>3, <2>4, <2>5, StreamStays DEF DispatchCommit, Step
<1>4. CASE DispatchAnnounce(p)
  <2>1. ProcStep
    BY <1>0, <1>4, GotoStep, HelperPlain DEF DispatchAnnounce
  <2>2. StreamStep
    BY <1>0, <1>4, LocalFields, LiveStreamStep DEF DispatchAnnounce
  <2>. QED  BY <1>4, <2>1, <2>2, RowsStay DEF DispatchAnnounce, Step
<1>5. CASE DispatchSend(p)
  <2>1. ProcStep
    BY <1>0, <1>5, GotoStep, HelperPlain DEF DispatchSend
  <2>. QED  BY <1>5, <2>1, RowsStay, StreamStays DEF DispatchSend, Step
<1>. QED  BY <1>1, <1>2, <1>3, <1>4, <1>5 DEF Dispatch

LEMMA FinalizeStep == ASSUME TypeOK, NEW p \in Proc, Finalize(p) PROVE Step
<1>0. proc[p] \in Local
  BY DEF TypeOK
<1>1. CASE FinalizeClose(p)
  <2>1. JobStep
    BY <1>1 DEF FinalizeClose, JobStep, TypeOK
  <2>2. TaskStep
    BY <1>1 DEF FinalizeClose, TaskStep
  <2>3. PICK l : Goto(p, l)
    BY <1>1 DEF FinalizeClose
  <2>4. ProcStep
    BY <1>1, <2>3, GotoStep DEF FinalizeClose
  <2>. QED  BY <1>1, <2>1, <2>2, <2>4, StreamStays DEF FinalizeClose, Step
<1>2. CASE FinalizeSkip(p)
  <2>1. ProcStep
    BY <1>2, GotoStep, HelperPlain DEF FinalizeSkip
  <2>. QED  BY <1>2, <2>1, RowsStay, StreamStays DEF FinalizeSkip, Step
<1>3. CASE PublishFinal(p)
  <2>1. PICK l : Goto(p, l)
    BY <1>3 DEF PublishFinal
  <2>2. ProcStep
    BY <1>3, <2>1, GotoStep DEF PublishFinal
  <2>3. StreamStep
    BY <1>3 DEF PublishFinal, Publish, StreamStep, TypeOK
  <2>. QED  BY <1>3, <2>2, <2>3, RowsStay DEF PublishFinal, Step
<1>4. CASE PublishEnd(p)
  <2>1. ProcStep
    BY <1>4, GotoStep, HelperPlain DEF PublishEnd
  <2>2. StreamStep
    BY <1>4 DEF PublishEnd, Publish, StreamStep, TypeOK
  <2>. QED  BY <1>4, <2>1, <2>2, RowsStay DEF PublishEnd, Step
<1>. QED  BY <1>1, <1>2, <1>3, <1>4 DEF Finalize

LEMMA RunModuleStep ==
  ASSUME TypeOK, EngineClaimed, NEW w \in Workers, RunModule(w) PROVE Step
<1>0. w \in Proc /\ proc[w] \in Local
  BY DEF TypeOK, Proc
<1>1. ASSUME NEW k \in Tasks, Live(k), NEW reason,
             NEW status \in {"running", "blocked", "failed", "canceled", "completed"},
             Move({k}, status, reason), UNCHANGED job
      PROVE  JobStep /\ TaskStep
  BY <1>1, JobStays, MoveStep
<1>2. ASSUME NEW k \in Tasks, Goto(w, [at |-> "report", task |-> k]), UNCHANGED roster
      PROVE  ProcStep
  <2>1. Plain([at |-> "report", task |-> k])
    BY DEF Plain, TimingOut
  <2>. QED  BY <1>0, <1>2, <2>1, GotoStep
<1>3. ASSUME NEW k \in Tasks,
             RunDuplicate(w, k) \/ RunCanceled(w, k) \/ RunRefused(w, k) \/ RunClaim(w, k)
      PROVE  Step
  <2>1. UNCHANGED <<job, result, dispatches, stream, roster, faults>>
    BY <1>3 DEF RunDuplicate, RunCanceled, RunRefused, RunClaim, Take
  <2>2. CASE RunDuplicate(w, k)
    BY <2>1, <2>2, RowsStay, ProcStays, StreamStays DEF RunDuplicate, Step, rows
  <2>3. Claimable(k) => Live(k)
    BY DEF Claimable, Live
  <2>4. CASE RunCanceled(w, k)
    BY <1>1, <1>2, <2>1, <2>3, <2>4, StreamStays DEF RunCanceled, Step
  <2>5. CASE RunRefused(w, k)
    BY <1>1, <1>2, <2>1, <2>3, <2>5, StreamStays DEF RunRefused, Step
  <2>6. CASE RunClaim(w, k)
    <3>1. ProcStep
      <4>1. Goto(w, [at |-> "started", task |-> k])
        BY <2>6 DEF RunClaim
      <4>. QED  BY <1>0, <2>1, <2>6, <4>1, GotoStep
    <3>2. JobStep /\ TaskStep
      BY <1>1, <2>1, <2>3, <2>6 DEF RunClaim
    <3>. QED  BY <2>1, <3>1, <3>2, StreamStays DEF Step
  <2>. QED  BY <1>3, <2>2, <2>4, <2>5, <2>6
<1>4. ASSUME NEW k \in Tasks,
             \/ RunDropped(w, k) \/ RunCanceledLate(w, k)
             \/ RunFailed(w, k) \/ RunCompleted(w, k)
      PROVE  Step
  <2>1. EngineEnds(w, k)
    BY <1>4 DEF RunDropped, RunCanceledLate, RunFailed, RunCompleted
  <2>2. UNCHANGED <<job, stream, roster>>
    BY <2>1 DEF EngineEnds
  <2>3. Recordable(k) => Live(k)
    BY <2>1 DEF EngineEnds, EngineClaimed, Recordable, Live, TypeOK, TaskRow, TaskStatus
  <2>4. CASE RunDropped(w, k)
    <3>1. ProcStep
      BY <1>0, <2>2, <2>4, HelperPlain, GotoStep DEF RunDropped
    <3>2. TaskStep
      BY <2>4 DEF RunDropped, TaskStep
    <3>. QED  BY <2>2, <3>1, <3>2, JobStays, StreamStays DEF Step
  <2>5. CASE RunCanceledLate(w, k)
    BY <1>1, <1>2, <2>2, <2>3, <2>5, StreamStays DEF RunCanceledLate, Step
  <2>6. CASE RunFailed(w, k)
    BY <1>1, <1>2, <2>2, <2>3, <2>6, StreamStays DEF RunFailed, Step
  <2>7. CASE RunCompleted(w, k)
    BY <1>1, <1>2, <2>2, <2>3, <2>7, StreamStays DEF RunCompleted, Step
  <2>. QED  BY <1>4, <2>4, <2>5, <2>6, <2>7
<1>5. CASE RunAnnounce(w)
  <2>1. PICK l : Goto(w, l)
    BY <1>5 DEF RunAnnounce
  <2>2. ProcStep
    BY <1>0, <1>5, <2>1, GotoStep DEF RunAnnounce
  <2>3. JobOf[proc[w].task] \in Jobs
    BY <1>0, <1>5, LocalFields, JobOfAssumption DEF RunAnnounce
  <2>. QED  BY <1>5, <2>2, <2>3, RowsStay, LiveStreamStep DEF RunAnnounce, Step
<1>6. CASE RunReport(w)
  <2>1. ProcStep
    BY <1>0, <1>6, HelperPlain, GotoStep DEF RunReport
  <2>2. JobOf[proc[w].task] \in Jobs
    BY <1>0, <1>6, LocalFields, JobOfAssumption DEF RunReport
  <2>. QED  BY <1>6, <2>1, <2>2, RowsStay, LiveStreamStep DEF RunReport, Step
<1>. QED  BY <1>3, <1>4, <1>5, <1>6 DEF RunModule

LEMMA ReapStep == ASSUME TypeOK, NEW p \in Platform, Reap(p) PROVE Step
<1>0. p \in Proc /\ proc[p] \in Local
  BY DEF TypeOK, Proc
<1>1. ASSUME NEW stale \in SUBSET Stranded, NEW stuck, ReapRead(p, stale, stuck)
      PROVE  Step
  <2>1. ProcStep
    <3>1. CASE stale = {}
      BY <1>0, <1>1, <3>1, HelperPlain, GotoStep DEF ReapRead
    <3>2. CASE stale # {}
      <4>1. Goto(p, [at |-> "republish", send |-> stale, rest |-> stuck]) /\ UNCHANGED roster
        BY <1>1, <3>2 DEF ReapRead
      <4>2. Republishing(p)
        BY <1>0, <4>1 DEF Goto, TypeOK, Republishing
      <4>. QED  BY <1>0, <4>1, <4>2, GotoStep
    <3>. QED  BY <3>1, <3>2
  <2>. QED  BY <1>1, <2>1, RowsStay, StreamStays DEF ReapRead, Step
<1>2. CASE ReapRepublish(p)
  <2>1. PICK j : Goto(p, IF proc[p].send = {j} THEN Sweep(proc[p].rest)
                         ELSE [proc[p] EXCEPT !.send = proc[p].send \ {j}])
    BY <1>2 DEF ReapRepublish
  <2>2. CASE proc[p].send = {j}
    <3>1. ProcStep
      BY <1>0, <1>2, <2>1, <2>2, HelperPlain, GotoStep DEF ReapRepublish
    <3>. QED  BY <1>2, <3>1, RowsStay, StreamStays DEF ReapRepublish, Step
  <2>3. CASE proc[p].send # {j}
    <3>. DEFINE l == [proc[p] EXCEPT !.send = proc[p].send \ {j}]
    <3>1. proc[p].at = "republish" /\ l.at = "republish" /\ l.send = proc[p].send \ {j}
      BY <1>0, <1>2 DEF ReapRepublish, Local, Idle
    <3>2. Goto(p, l)
      BY <2>1, <2>3
    <3>3. proc'[p] = l
      BY <1>0, <3>2 DEF Goto, TypeOK
    <3>4. Republishing(p)
      BY <3>1, <3>3 DEF Republishing
    <3>5. ProcStep
      BY <1>0, <1>2, <3>2, <3>4, GotoStep DEF ReapRepublish
    <3>. QED  BY <1>2, <3>5, RowsStay, StreamStays DEF ReapRepublish, Step
  <2>. QED  BY <2>2, <2>3
<1>3. CASE ReapExpire(p)
  <2>. DEFINE live(j) == {k \in TasksOf(j) : Live(k)}
  <2>0. proc[p].rest \in SUBSET Jobs
    BY <1>0, <1>3, LocalFields DEF ReapExpire
  <2>1. PICK j \in proc[p].rest :
               /\ Move(live(j), "failed", "job.timeout")
               /\ Goto(p, Expired(j, live(j), proc[p].rest \ {j}))
    BY <1>3 DEF ReapExpire
  <2>2. TaskStep
    BY <2>1, MoveStep
  <2>3. CASE live(j) = {}
    <3>1. Goto(p, Finalizing(j, NoReason, proc[p].rest \ {j}))
      BY <2>1, <2>3 DEF Expired
    <3>2. ProcStep
      BY <1>0, <1>3, <3>1, HelperPlain, GotoStep DEF ReapExpire
    <3>. QED  BY <1>3, <2>2, <3>2, JobStays, StreamStays DEF ReapExpire, Step
  <2>4. CASE live(j) # {}
    <3>. DEFINE l == [at |-> "expired", job |-> j, failed |-> live(j),
                      rest |-> proc[p].rest \ {j}]
    <3>1. Goto(p, l)
      BY <2>1, <2>4 DEF Expired
    <3>2. proc'[p] = l
      BY <1>0, <3>1 DEF Goto, TypeOK
    <3>3. PICK k \in TasksOf(j) : Live(k)
      BY <2>4
    <3>4. task'[k].status = "failed" /\ task'[k].reason = "job.timeout"
      BY <2>1, <3>3 DEF Move, TasksOf, TypeOK, TaskRow
    <3>5. Expiring(p)
      <4>1. k \in TasksOf(j) /\ TasksOf(j)' = TasksOf(j)
        BY DEF TasksOf
      <4>2. LostToTimeout(j)'
        BY <3>4, <4>1 DEF LostToTimeout
      <4>3. LostToTimeout(proc[p].job)'
        BY <3>2, <4>2 DEF LostToTimeout
      <4>. QED  BY <3>2, <4>3 DEF Expiring, TimingOut
    <3>6. ProcStep
      BY <1>0, <1>3, <3>1, <3>5, GotoStep DEF ReapExpire
    <3>. QED  BY <1>3, <2>2, <3>6, JobStays, StreamStays DEF ReapExpire, Step
  <2>. QED  BY <2>3, <2>4
<1>4. CASE ReapReport(p)
  <2>1. PICK k : Goto(p, IF proc[p].failed = {k}
                           THEN Finalizing(proc[p].job, "job.timeout", proc[p].rest)
                           ELSE [proc[p] EXCEPT !.failed = proc[p].failed \ {k}])
    BY <1>4 DEF ReapReport
  <2>2. PICK l : /\ Goto(p, l) /\ TimingOut(l) /\ l.job = proc[p].job
                 /\ l.at \in {"expired", "finalize"}
    <3>. DEFINE more == [proc[p] EXCEPT !.failed = proc[p].failed \ {k}]
                last == Finalizing(proc[p].job, "job.timeout", proc[p].rest)
    <3>1. more.at = "expired" /\ more.job = proc[p].job
      BY <1>0, <1>4 DEF ReapReport, Local, Idle
    <3>2. TimingOut(last) /\ last.job = proc[p].job /\ last.at = "finalize"
      BY DEF Finalizing, TimingOut
    <3>. QED  BY <2>1, <3>1, <3>2 DEF TimingOut
  <2>3. proc'[p] = l /\ TimingOut(proc[p])
    BY <1>0, <1>4, <2>2 DEF Goto, TypeOK, ReapReport, TimingOut
  <2>4. Expiring(p)
    BY <2>2, <2>3 DEF Expiring
  <2>5. ProcStep
    BY <1>0, <1>4, <2>2, <2>4, GotoStep DEF ReapReport
  <2>6. StreamStep
    BY <1>0, <1>4, LocalFields, LiveStreamStep DEF ReapReport
  <2>. QED  BY <1>4, <2>5, <2>6, RowsStay DEF ReapReport, Step
<1>. QED  BY <1>1, <1>2, <1>3, <1>4 DEF Reap

LEMMA HeartbeatStep == ASSUME TypeOK, NEW p \in Platform, Heartbeat(p) PROVE Step
<1>0. p \in Proc /\ proc[p] \in Local
  BY DEF TypeOK, Proc
<1>1. CASE HeartbeatRead(p)
  <2>1. ProcStep
    BY <1>0, <1>1, GotoStep DEF HeartbeatRead, Plain, TimingOut
  <2>. QED  BY <1>1, <2>1, RowsStay, StreamStays DEF HeartbeatRead, Step
<1>2. CASE HeartbeatSend(p)
  <2>1. proc[p].rest \in SUBSET Jobs
    BY <1>0, <1>2, LocalFields DEF HeartbeatSend
  <2>2. PICK j \in proc[p].rest :
          /\ Publish(j, "live")
          /\ Goto(p, IF proc[p].rest = {j} THEN Idle
                     ELSE [proc[p] EXCEPT !.rest = proc[p].rest \ {j}])
    BY <1>2 DEF HeartbeatSend
  <2>3. [proc[p] EXCEPT !.rest = proc[p].rest \ {j}].at = "heartbeat"
    BY <1>0, <1>2 DEF HeartbeatSend, Local, Idle
  <2>4. ProcStep
    BY <1>0, <1>2, <2>2, <2>3, HelperPlain, GotoStep DEF HeartbeatSend, Plain, TimingOut
  <2>5. StreamStep
    BY <2>1, <2>2, LiveStreamStep
  <2>. QED  BY <1>2, <2>4, <2>5, RowsStay DEF HeartbeatSend, Step
<1>. QED  BY <1>1, <1>2 DEF Heartbeat

LEMMA FaultsStep == ASSUME TypeOK, Faults PROVE Step
<1>1. ASSUME NEW p \in Proc, NEW image \in Images, Restart(p, image) PROVE Step
  <2>1. ProcStep
    BY <1>1, HelperPlain DEF Restart, Goto, ProcStep, TypeOK
  <2>. QED  BY <1>1, <2>1, RowsStay, StreamStays DEF Restart, Step
<1>2. ASSUME NEW p \in Platform, ReapError(p) PROVE Step
  <2>1. PICK rest : Goto(p, Sweep(rest))
    BY <1>2 DEF ReapError
  <2>2. ProcStep
    BY <1>2, <2>1, HelperPlain, GotoStep DEF ReapError, Proc
  <2>. QED  BY <1>2, <2>2, RowsStay, StreamStays DEF ReapError, Step
<1>3. ASSUME NEW j, LoseDispatch(j) PROVE Step
  BY <1>3, RowsStay, StreamStays, ProcStays DEF LoseDispatch, Step
<1>4. ASSUME NEW q, NEW k, LoseDelivery(q, k) PROVE Step
  BY <1>4, RowsStay, StreamStays, ProcStays DEF LoseDelivery, Step
<1>. QED  BY <1>1, <1>2, <1>3, <1>4 DEF Faults

LEMMA NextStep == ASSUME TypeOK, FanoutOpen, EngineClaimed, [Next]_vars PROVE Step
<1>1. CASE UNCHANGED vars
  BY <1>1, RowsStay, StreamStays, ProcStays DEF vars, Step
<1>2. CASE Counting
  <2>1. CASE Waiting
    BY <1>1, <2>1 DEF Waiting
  <2>. QED  BY <1>2, <2>1, DispatchStep, RunModuleStep, FinalizeStep DEF Counting
<1>. QED  BY <1>1, <1>2, ClientStep, ReapStep, HeartbeatStep, FaultsStep DEF Next
-----------------------------------------------------------------------------
(* The invariants follow *)

LEMMA CloserFacts ==
  ASSUME TypeOK, NEW p \in Proc, FinalizeClose(p)
  PROVE  /\ proc[p].at = "finalize" /\ proc[p].job \in Jobs
         /\ proc[p].override \in Override
         /\ ~JobLocked(proc[p].job) /\ Closable(proc[p].job)
         /\ job'[proc[p].job] = JobOutcome(Statuses(proc[p].job), proc[p].override)
         /\ proc'[p].at = "closing" /\ proc'[p].job = proc[p].job
         /\ \A q \in Proc : q # p => proc'[q] = proc[q]
         /\ UNCHANGED <<task, stream>>
BY LocalFields DEF FinalizeClose, Goto, TypeOK

LEMMA EnderFacts ==
  ASSUME TypeOK, NEW p \in Proc, PublishFinal(p)
  PROVE  /\ proc[p].at = "closing" /\ proc[p].job \in Jobs
         /\ proc'[p].at = "ending" /\ proc'[p].job = proc[p].job
<1>1. proc[p].at = "closing" /\ proc[p] \in Local
  BY DEF PublishFinal, TypeOK
<1>2. proc[p] \in [at : {"closing", "ending"}, job : Jobs, rest : SUBSET Jobs]
  BY <1>1 DEF Local, Idle
<1>3. proc'[p] = [proc[p] EXCEPT !.at = "ending"]
  BY DEF PublishFinal, Goto, TypeOK
<1>. QED  BY <1>1, <1>2, <1>3

LEMMA AnnouncerFacts ==
  ASSUME TypeOK, NEW w \in Workers, RunAnnounce(w)
  PROVE  /\ proc[w].at = "started" /\ proc[w].task \in Tasks
         /\ proc'[w].at = "engine" /\ proc'[w].task = proc[w].task
         /\ UNCHANGED <<rows, roster>>
<1>1. w \in Proc /\ proc[w].at = "started" /\ proc[w] \in Local
  BY DEF RunAnnounce, TypeOK, Proc
<1>2. proc[w] \in [at : {"started", "engine", "report"}, task : Tasks]
  BY <1>1 DEF Local, Idle
<1>3. proc'[w] = [proc[w] EXCEPT !.at = "engine"] /\ UNCHANGED <<rows, roster>>
  BY <1>1 DEF RunAnnounce, Goto, TypeOK
<1>. QED  BY <1>1, <1>2, <1>3

LEMMA ClaimerFacts ==
  ASSUME TypeOK, NEW w \in Workers, NEW k \in Tasks, RunClaim(w, k)
  PROVE  /\ proc[w] = Idle /\ task[k].status = "queued"
         /\ Declared(w, k) = QueueOf[w]
         /\ task'[k].status = "running"
         /\ proc' = [proc EXCEPT ![w] = [at |-> "started", task |-> k]]
         /\ UNCHANGED <<job, stream, roster>>
BY DEF RunClaim, Take, Claimable, OnItsQueue, Move, Goto, TypeOK, TaskRow

(***************************************************************************)
(* The counting rule agrees with the counts it stands for.                 *)
(***************************************************************************)
LEMMA OutcomeCounts ==
  ASSUME NEW j, NEW override, JobDone(Statuses(j))
  PROVE  CountsTo(j, JobOutcome(Statuses(j), override).status)
<1>. DEFINE all == TasksOf(j)
            completed == {k \in all : task[k].status = "completed"}
            canceled  == {k \in all : task[k].status = "canceled"}
            outcome   == JobOutcome(Statuses(j), override).status
<1>1. PICK i \in all : TRUE
  BY DEF JobDone, Statuses
<1>2. CASE Statuses(j) = {"completed"}
  <2>1. completed = all
    BY <1>2 DEF Statuses
  <2>2. outcome = "completed"
    BY <1>2 DEF JobOutcome
  <2>. QED  BY <2>1, <2>2 DEF CountsTo
<1>3. CASE Statuses(j) # {"completed"} /\ "completed" \in Statuses(j)
  <2>1. completed # {} /\ completed # all
    BY <1>1, <1>3 DEF Statuses
  <2>2. outcome = "partial"
    BY <1>3 DEF JobOutcome
  <2>. QED  BY <2>1, <2>2 DEF CountsTo
<1>4. CASE "completed" \notin Statuses(j) /\ "canceled" \in Statuses(j)
  <2>1. completed = {} /\ canceled # {}
    BY <1>4 DEF Statuses
  <2>2. outcome = "canceled"
    BY <1>4 DEF JobOutcome
  <2>. QED  BY <2>1, <2>2 DEF CountsTo
<1>5. CASE "completed" \notin Statuses(j) /\ "canceled" \notin Statuses(j)
  <2>1. completed = {} /\ canceled = {}
    BY <1>5 DEF Statuses
  <2>2. outcome = "failed"
    BY <1>5 DEF JobOutcome
  <2>. QED  BY <2>1, <2>2 DEF CountsTo
<1>. QED  BY <1>2, <1>3, <1>4, <1>5

LEMMA SettledKept ==
  ASSUME TypeOK, TypeOK', FanoutOpen, ClosedJobSettled, Step
  PROVE  ClosedJobSettled'
<1>. SUFFICES ASSUME NEW j \in Jobs, job'[j].status \in TerminalJob
              PROVE  /\ \A k \in TasksOf(j) : task'[k].status \in TerminalTask
                     /\ CountsTo(j, job[j].status)'
  BY DEF ClosedJobSettled, TerminalJob, TerminalTask, TasksOf
<1>1. CASE job'[j] = job[j]
  <2>1. /\ \A k \in TasksOf(j) : task[k].status \in TerminalTask
        /\ CountsTo(j, job[j].status)
    BY <1>1 DEF ClosedJobSettled, TerminalJob, TerminalTask
  <2>2. ASSUME NEW k \in TasksOf(j) PROVE task'[k].status = task[k].status
    <3>1. k \in Tasks /\ JobOf[k] = j /\ ~Live(k)
      BY <2>1 DEF TasksOf, Live, TerminalTask
    <3>2. ~ \E p \in Platform : proc[p].at = "fanout" /\ proc[p].job = j
      BY <1>1 DEF FanoutOpen
    <3>. QED  BY <3>1, <3>2 DEF Step, TaskStep, DispatchCommit
  <2>3. CountsTo(j, job[j].status)'
    BY <1>1, <2>1, <2>2 DEF CountsTo, TasksOf
  <2>. QED  BY <2>1, <2>2, <2>3
<1>2. CASE job'[j].status \in {"queued", "running"}
  BY <1>2 DEF TerminalJob
<1>3. ASSUME NEW p \in Proc, FinalizeClose(p), proc[p].job = j
      PROVE  /\ \A k \in TasksOf(j) : task'[k].status \in TerminalTask
             /\ CountsTo(j, job[j].status)'
  <2>1. /\ task' = task /\ JobDone(Statuses(j))
        /\ job'[j] = JobOutcome(Statuses(j), proc[p].override)
    BY <1>3, CloserFacts DEF Closable
  <2>2. \A k \in TasksOf(j) : task[k].status \in TerminalTask
    BY <2>1 DEF JobDone, Statuses
  <2>3. CountsTo(j, job'[j].status)
    BY <2>1, OutcomeCounts
  <2>4. CountsTo(j, job[j].status)'
    BY <2>1, <2>3 DEF CountsTo, TasksOf
  <2>. QED  BY <2>1, <2>2, <2>4
<1>. QED  BY <1>1, <1>2, <1>3 DEF Step, JobStep

LEMMA FanoutKept ==
  ASSUME TypeOK, TypeOK', FanoutOpen, Step
  PROVE  FanoutOpen'
<1>. SUFFICES ASSUME NEW p \in Platform, proc'[p].at = "fanout"
              PROVE  /\ job'[proc'[p].job].status \notin TerminalJob
                     /\ proc'[p].send \cup proc'[p].block \subseteq TasksOf(proc'[p].job)
  BY DEF FanoutOpen, TasksOf
<1>0. p \in Proc
  BY DEF Proc
<1>1. CASE proc'[p] = proc[p]
  <2>. DEFINE j == proc[p].job
  <2>1. /\ j \in Jobs /\ job[j].status \notin TerminalJob /\ JobLocked(j)
        /\ proc[p].send \cup proc[p].block \subseteq TasksOf(j)
    BY <1>0, <1>1, LocalFields DEF FanoutOpen, JobLocked, TypeOK
  <2>2. job'[j].status \notin TerminalJob
    <3>1. ASSUME NEW q \in Proc, FinalizeClose(q), proc[q].job = j PROVE FALSE
      BY <2>1, <3>1, CloserFacts
    <3>. QED  BY <2>1, <3>1 DEF Step, JobStep, TerminalJob
  <2>. QED  BY <1>1, <2>1, <2>2
<1>2. ASSUME NEW j \in Jobs, DispatchRead(p, j)
      PROVE  /\ job'[proc'[p].job].status \notin TerminalJob
             /\ proc'[p].send \cup proc'[p].block \subseteq TasksOf(proc'[p].job)
  <2>1. /\ proc'[p].job = j
        /\ proc'[p].send \cup proc'[p].block \subseteq TasksOf(j)
    BY <1>0, <1>2 DEF DispatchRead, Goto, TypeOK
  <2>2. UNCHANGED job /\ job[j].status \notin TerminalJob
    BY <1>2 DEF DispatchRead, rows
  <2>. QED  BY <2>1, <2>2
<1>3. p \notin Workers
  BY PipelineAssumption
<1>4. ~FinalizeClose(p) /\ ~PublishFinal(p)
  <2>1. CASE FinalizeClose(p)
    BY <1>0, <2>1, CloserFacts
  <2>2. CASE PublishFinal(p)
    BY <1>0, <2>2, EnderFacts
  <2>. QED  BY <2>1, <2>2
<1>. QED  BY <1>0, <1>1, <1>2, <1>3, <1>4 DEF Step, ProcStep, Plain, Republishing, Expiring
(***************************************************************************)
(* A process has an engine after a step if it had it before, or claimed    *)
(* the task in this step; either way it kept its roster.                   *)
(***************************************************************************)
LEMMA EngineStep ==
  ASSUME TypeOK, Step, NEW w \in Workers, proc'[w].at \in {"started", "engine"}
  PROVE  /\ roster'[w] = roster[w] /\ proc'[w].task \in Tasks
         /\ \/ /\ proc[w].at \in {"started", "engine"}
               /\ proc'[w].task = proc[w].task
            \/ RunClaim(w, proc'[w].task)
<1>0. w \in Proc /\ w \notin Platform
  BY PipelineAssumption DEF Proc
<1>1. ~FinalizeClose(w) /\ ~PublishFinal(w)
  <2>1. CASE FinalizeClose(w)
    BY <1>0, <2>1, CloserFacts
  <2>2. CASE PublishFinal(w)
    BY <1>0, <2>2, EnderFacts
  <2>. QED  BY <2>1, <2>2
<1>2. CASE proc'[w] = proc[w] /\ roster'[w] = roster[w]
  BY <1>0, <1>2, LocalFields DEF TypeOK
<1>3. CASE RunAnnounce(w)
  BY <1>3, AnnouncerFacts
<1>4. ASSUME NEW k \in Tasks, RunClaim(w, k)
      PROVE  /\ roster'[w] = roster[w] /\ proc'[w].task \in Tasks
             /\ RunClaim(w, proc'[w].task)
  <2>1. proc'[w] = [at |-> "started", task |-> k] /\ roster' = roster
    BY <1>0, <1>4, ClaimerFacts DEF TypeOK
  <2>2. proc'[w].task = k
    BY <2>1
  <2>. QED  BY <1>4, <2>1, <2>2
<1>. QED  BY <1>0, <1>1, <1>2, <1>3, <1>4 DEF Step, ProcStep, Plain, Republishing, Expiring

LEMMA EngineClaimedKept ==
  ASSUME TypeOK, EngineClaimed, Step
  PROVE  EngineClaimed'
<1>. SUFFICES ASSUME NEW w \in Workers, proc'[w].at \in {"started", "engine"}
              PROVE  task'[proc'[w].task].status \notin {"absent", "queued"}
  BY DEF EngineClaimed
<1>. DEFINE k == proc'[w].task
<1>1. CASE RunClaim(w, k)
  <2>1. k \in Tasks
    BY EngineStep
  <2>2. task'[k].status = "running"
    BY <1>1, <2>1, ClaimerFacts
  <2>. QED  BY <2>2
<1>2. CASE proc[w].at \in {"started", "engine"} /\ k = proc[w].task
  <2>1. k \in Tasks /\ task[k].status \notin {"absent", "queued"}
    BY <1>2, EngineStep DEF EngineClaimed
  <2>. QED  BY <2>1 DEF Step, TaskStep
<1>. QED  BY <1>1, <1>2, EngineStep

(***************************************************************************)
(* A worker starts an engine by claiming the task, and by nothing else.    *)
(***************************************************************************)
LEMMA StartIsClaim ==
  ASSUME TypeOK, Step, NEW w \in Workers, NEW k \in Tasks, Starts(w, k)
  PROVE  RunClaim(w, k)
BY EngineStep DEF Starts

LEMMA OneEngineStep ==
  ASSUME TypeOK, Step, NEW k \in Tasks
  PROVE  /\ Unclaimable(k) => Unclaimable(k)'
         /\ \A w \in Workers : Starts(w, k) =>
              /\ ~Unclaimable(k) /\ Unclaimable(k)'
              /\ \A v \in Workers : Starts(v, k) => v = w
<1>1. Unclaimable(k) => Unclaimable(k)'
  BY DEF Step, TaskStep, Unclaimable
<1>2. ASSUME NEW w \in Workers, Starts(w, k)
      PROVE  /\ ~Unclaimable(k) /\ Unclaimable(k)'
             /\ \A v \in Workers : Starts(v, k) => v = w
  <2>1. RunClaim(w, k)
    BY <1>2, StartIsClaim
  <2>2. task[k].status = "queued" /\ task'[k].status = "running"
    BY <2>1, ClaimerFacts
  <2>3. ASSUME NEW v \in Workers, Starts(v, k), v # w PROVE FALSE
    <3>1. proc'[v] = proc[v]
      BY <2>1, <2>3, ClaimerFacts DEF TypeOK, Proc
    <3>. QED  BY <2>3, <3>1 DEF Starts
  <2>. QED  BY <2>2, <2>3 DEF Unclaimable
<1>. QED  BY <1>1, <1>2

LEMMA ClosedKept ==
  ASSUME TypeOK, Step, NEW j \in Jobs, job[j].status \in TerminalJob
  PROVE  job'[j] = job[j]
<1>1. ASSUME NEW p \in Proc, FinalizeClose(p), proc[p].job = j PROVE FALSE
  BY <1>1, CloserFacts DEF Closable
<1>2. job[j].status \notin {"absent", "queued"}
  BY DEF TerminalJob
<1>. QED  BY <1>1, <1>2 DEF Step, JobStep

LEMMA CloserStep ==
  ASSUME TypeOK, Step, NEW p \in Proc, NEW j \in Jobs, Closing(p, j)'
  PROVE  Closing(p, j) \/ (FinalizeClose(p) /\ proc[p].job = j)
<1>0. proc'[p].at \in {"closing", "ending"} /\ proc'[p].job = j
  BY DEF Closing
<1>1. CASE FinalizeClose(p)
  BY <1>0, <1>1, CloserFacts
<1>2. CASE PublishFinal(p)
  BY <1>0, <1>2, EnderFacts DEF Closing
<1>3. CASE proc'[p] = proc[p]
  BY <1>0, <1>3 DEF Closing
<1>4. ASSUME p \in Platform, NEW i \in Jobs, DispatchRead(p, i) PROVE FALSE
  <2>1. PICK send, block :
          proc' = [proc EXCEPT ![p] = [at |-> "fanout", job |-> i,
                                       send |-> send, block |-> block]]
    BY <1>4 DEF DispatchRead, Goto
  <2>. QED  BY <1>0, <2>1 DEF TypeOK
<1>5. ASSUME p \in Workers, RunAnnounce(p) PROVE FALSE
  BY <1>0, <1>5, AnnouncerFacts
<1>6. ASSUME p \in Workers, NEW k \in Tasks, RunClaim(p, k) PROVE FALSE
  <2>1. proc' = [proc EXCEPT ![p] = [at |-> "started", task |-> k]]
    BY <1>6, ClaimerFacts
  <2>. QED  BY <1>0, <2>1 DEF TypeOK
<1>. QED  BY <1>0, <1>1, <1>2, <1>3, <1>4, <1>5, <1>6 DEF Step, ProcStep, Plain, Republishing, Expiring

LEMMA EndAfterCommitKept ==
  ASSUME TypeOK, EndAfterCommit, Step
  PROVE  EndAfterCommit'
<1>. SUFFICES ASSUME NEW j \in Jobs,
                     stream'[j] # "live" \/ \E p \in Proc : Closing(p, j)'
              PROVE  job'[j].status \in TerminalJob
  BY DEF EndAfterCommit
<1>1. ASSUME job[j].status \in TerminalJob PROVE job'[j].status \in TerminalJob
  BY <1>1, ClosedKept
<1>2. CASE stream'[j] # "live"
  <2>1. ASSUME NEW p \in Proc, PublishFinal(p) \/ PublishEnd(p), proc[p].job = j
        PROVE  Closing(p, j)
    BY <2>1 DEF PublishFinal, PublishEnd, Closing
  <2>2. stream[j] # "live" \/ \E p \in Proc : Closing(p, j)
    BY <1>2, <2>1 DEF Step, StreamStep
  <2>. QED  BY <1>1, <2>2 DEF EndAfterCommit
<1>3. ASSUME NEW p \in Proc, Closing(p, j)' PROVE job'[j].status \in TerminalJob
  <2>1. CASE Closing(p, j)
    BY <1>1, <2>1 DEF EndAfterCommit
  <2>2. CASE FinalizeClose(p) /\ proc[p].job = j
    BY <2>2, CloserFacts, OutcomeType
  <2>. QED  BY <1>3, <2>1, <2>2, CloserStep
<1>. QED  BY <1>2, <1>3

LEMMA OneEndKept ==
  ASSUME TypeOK, EndAfterCommit, OneEnd, Step
  PROVE  OneEnd'
<1>. SUFFICES ASSUME NEW j \in Jobs, NEW p \in Proc, Closing(p, j)'
              PROVE  /\ stream'[j] \notin {"end", "late"}
                     /\ \A q \in Proc : Closing(q, j)' => q = p
  BY DEF OneEnd
<1>1. CASE Closing(p, j)
  <2>1. /\ job[j].status \in TerminalJob /\ stream[j] \notin {"end", "late"}
        /\ \A q \in Proc : Closing(q, j) => q = p
    BY <1>1 DEF EndAfterCommit, OneEnd
  <2>2. ASSUME NEW q \in Proc, Closing(q, j)' PROVE q = p
    <3>1. ~(FinalizeClose(q) /\ proc[q].job = j)
      BY <2>1, CloserFacts DEF Closable
    <3>. QED  BY <2>1, <2>2, <3>1, CloserStep
  <2>3. ASSUME NEW q \in Proc, PublishEnd(q), proc[q].job = j PROVE FALSE
    <3>1. q = p
      BY <2>1, <2>3 DEF PublishEnd, Closing
    <3>2. proc'[p] = Sweep(proc[p].rest)
      BY <2>3, <3>1 DEF PublishEnd, Goto, TypeOK
    <3>. QED  BY <3>2, HelperAt DEF Closing
  <2>. QED  BY <2>1, <2>2, <2>3 DEF Step, StreamStep
<1>2. CASE FinalizeClose(p) /\ proc[p].job = j
  <2>1. /\ job[j].status \notin TerminalJob /\ UNCHANGED stream
        /\ \A q \in Proc : q # p => proc'[q] = proc[q]
    BY <1>2, CloserFacts DEF Closable
  <2>2. stream[j] = "live" /\ \A q \in Proc : ~Closing(q, j)
    BY <2>1 DEF EndAfterCommit
  <2>. QED  BY <2>1, <2>2 DEF Closing
<1>. QED  BY <1>1, <1>2, CloserStep
-----------------------------------------------------------------------------
(* The theorems *)

LEMMA InitSafety == Init => SafetyInv
<1>. SUFFICES ASSUME Init PROVE SafetyInv
  OBVIOUS
<1>1. /\ \A p \in Proc : proc[p].at = "idle"
      /\ \A j \in Jobs : job[j].status = "absent" /\ stream[j] = "live"
  BY HelperAt DEF Init, RowsInit, NoJobRow
<1>2. Platform \subseteq Proc /\ Workers \subseteq Proc
  BY DEF Proc
<1>3. FanoutOpen /\ EngineClaimed
  BY <1>1, <1>2 DEF FanoutOpen, EngineClaimed
<1>4. ClosedJobSettled
  BY <1>1 DEF ClosedJobSettled
<1>5. EndAfterCommit /\ OneEnd
  BY <1>1 DEF EndAfterCommit, OneEnd, Closing
<1>. QED  BY InitType, <1>3, <1>4, <1>5 DEF SafetyInv

LEMMA NextSafety == SafetyInv /\ [Next]_vars => SafetyInv' /\ Step
<1>. SUFFICES ASSUME SafetyInv, [Next]_vars PROVE SafetyInv' /\ Step
  OBVIOUS
<1>1. TypeOK' /\ Step
  BY NextType, NextStep DEF SafetyInv
<1>. QED
  BY <1>1, FanoutKept, EngineClaimedKept, SettledKept, EndAfterCommitKept,
     OneEndKept DEF SafetyInv

(***************************************************************************)
(* The inductive invariant: with its two strengthenings, FanoutOpen and    *)
(* EngineClaimed, each invariant below is kept by every handler.           *)
(***************************************************************************)
THEOREM SafetyInvariant == Spec => []SafetyInv
BY InitSafety, NextSafety, PTL DEF Spec

(***************************************************************************)
(* A closed job has only terminal tasks and the status they count to,      *)
(* whatever images are deployed side by side and whatever faults occur:    *)
(* finalize_job_if_done counts without locking the tasks, and yet no write *)
(* of a worker, of a reaper or of a second dispatch escapes its count.     *)
(***************************************************************************)
THEOREM ClosedJobsStaySettled == Spec => []ClosedJobSettled
<1>1. SafetyInv => ClosedJobSettled
  BY DEF SafetyInv
<1>. QED  BY <1>1, SafetyInvariant, PTL

(***************************************************************************)
(* finalize_job_if_done is at most once: a closed job is not written again *)
(* by any of the workers, reapers and dispatches that race to finalize it. *)
(***************************************************************************)
THEOREM ClosedJobsStayFrozen == Spec => ClosedJobFrozen
<1>1. SafetyInv /\ [Next]_vars =>
        [\A j \in Jobs : job[j].status \in TerminalJob => job'[j] = job[j]]_vars
  <2>. SUFFICES ASSUME SafetyInv, [Next]_vars,
                       NEW j \in Jobs, job[j].status \in TerminalJob
                PROVE  job'[j] = job[j]
    OBVIOUS
  <2>. QED  BY NextSafety, ClosedKept DEF SafetyInv
<1>. QED  BY <1>1, SafetyInvariant, PTL DEF Spec, ClosedJobFrozen

(***************************************************************************)
(* run_module starts one engine per task, ever: for any number of          *)
(* duplicate deliveries, republished dispatches and restarted workers, in  *)
(* any mix of images, a task is claimed from the queue once and never      *)
(* returns to it.                                                          *)
(***************************************************************************)
THEOREM OneEngineEver == Spec => OneEnginePerTask
<1>1. SafetyInv /\ [Next]_vars =>
        [\A k \in Tasks :
           /\ Unclaimable(k) => Unclaimable(k)'
           /\ \A w \in Workers : Starts(w, k) =>
                /\ ~Unclaimable(k) /\ Unclaimable(k)'
                /\ \A v \in Workers : Starts(v, k) => v = w]_vars
  <2>. SUFFICES ASSUME SafetyInv, [Next]_vars, NEW k \in Tasks
                PROVE  /\ Unclaimable(k) => Unclaimable(k)'
                       /\ \A w \in Workers : Starts(w, k) =>
                            /\ ~Unclaimable(k) /\ Unclaimable(k)'
                            /\ \A v \in Workers : Starts(v, k) => v = w
    OBVIOUS
  <2>. QED  BY NextSafety, OneEngineStep DEF SafetyInv
<1>. QED  BY <1>1, SafetyInvariant, PTL DEF Spec, OneEnginePerTask

(***************************************************************************)
(* The terminal job event and "end" follow the commit they describe.       *)
(***************************************************************************)
THEOREM EndsFollowCommits == Spec => []EndAfterCommit
<1>1. SafetyInv => EndAfterCommit
  BY DEF SafetyInv
<1>. QED  BY <1>1, SafetyInvariant, PTL

(***************************************************************************)
(* One finisher announces the end of a job, once.                          *)
(***************************************************************************)
THEOREM EndsOnce == Spec => []OneEnd
<1>1. SafetyInv => OneEnd
  BY DEF SafetyInv
<1>. QED  BY <1>1, SafetyInvariant, PTL
-----------------------------------------------------------------------------
(* The matrix *)

(***************************************************************************)
(* A dispatch, in the queue, about to be republished or under way, is of a *)
(* job that was launched.                                                  *)
(***************************************************************************)
Launched ==
  /\ \A j \in dispatches : job[j].status # "absent"
  /\ \A p \in Platform :
       /\ proc[p].at = "republish" =>
            \A j \in proc[p].send : job[j].status # "absent"
       /\ proc[p].at = "fanout" => job[proc[p].job].status # "absent"

(***************************************************************************)
(* As long as the job is queued, the dispatch that read it plans the whole *)
(* of its matrix.                                                          *)
(***************************************************************************)
FanoutPlan ==
  \A p \in Platform :
    proc[p].at = "fanout" /\ job[proc[p].job].status = "queued" =>
      proc[p].send \cup proc[p].block = TasksOf(proc[p].job)

MatrixInv == SafetyInv /\ Launched /\ FanoutPlan /\ MatrixWhole

(***************************************************************************)
(* A dispatch message comes from the launch or from a sweep.               *)
(***************************************************************************)
LEMMA DispatchesGrow ==
  ASSUME [Next]_vars, NEW j \in dispatches'
  PROVE  \/ j \in dispatches
         \/ Launch(j)
         \/ \E p \in Platform : ReapRepublish(p) /\ j \in proc[p].send
<1>. SUFFICES ASSUME dispatches' # dispatches
              PROVE  \/ j \in dispatches
                     \/ Launch(j)
                     \/ \E p \in Platform : ReapRepublish(p) /\ j \in proc[p].send
  OBVIOUS
<1>1. CASE Client
  BY <1>1 DEF Client, Launch, RequestCancel
<1>2. ASSUME NEW p \in Platform, Dispatch(p) PROVE j \in dispatches
  BY <1>2 DEF Dispatch, DispatchDropped, DispatchRead, DispatchCommit,
              DispatchAnnounce, DispatchSend
<1>3. ASSUME NEW w \in Workers, RunModule(w) PROVE FALSE
  BY <1>3 DEF RunModule, RunDuplicate, RunCanceled, RunRefused, RunClaim, Take,
              RunDropped, RunCanceledLate, RunFailed, RunCompleted, EngineEnds,
              RunAnnounce, RunReport
<1>4. ASSUME NEW p \in Proc, Finalize(p) PROVE FALSE
  BY <1>4 DEF Finalize, FinalizeClose, FinalizeSkip, PublishFinal, PublishEnd
<1>5. ASSUME NEW p \in Platform, Reap(p)
      PROVE  j \in dispatches \/ (ReapRepublish(p) /\ j \in proc[p].send)
  BY <1>5 DEF Reap, ReapRead, ReapRepublish, ReapExpire, ReapReport
<1>6. ASSUME NEW p \in Platform, Heartbeat(p) PROVE FALSE
  BY <1>6 DEF Heartbeat, HeartbeatRead, HeartbeatSend
<1>7. CASE Faults
  BY <1>7 DEF Faults, Restart, ReapError, LoseDispatch, LoseDelivery
<1>8. CASE Waiting \/ UNCHANGED vars
  BY <1>8 DEF Waiting, vars
<1>. QED  BY <1>1, <1>2, <1>3, <1>4, <1>5, <1>6, <1>7, <1>8 DEF Next, Counting

LEMMA NeverAbsentAgain ==
  ASSUME TypeOK, Step, NEW j \in Jobs, job[j].status # "absent"
  PROVE  job'[j].status # "absent"
<1>1. ASSUME NEW p \in Proc, FinalizeClose(p), proc[p].job = j
      PROVE  job'[j].status # "absent"
  BY <1>1, CloserFacts, OutcomeType DEF TerminalJob
<1>. QED  BY <1>1 DEF Step, JobStep

LEMMA FanoutSource ==
  ASSUME TypeOK, Step, NEW p \in Platform, proc'[p].at = "fanout"
  PROVE  proc'[p] = proc[p] \/ \E j \in Jobs : DispatchRead(p, j)
<1>1. p \in Proc /\ p \notin Workers
  BY PipelineAssumption DEF Proc
<1>2. ~FinalizeClose(p) /\ ~PublishFinal(p)
  <2>1. CASE FinalizeClose(p)
    BY <1>1, <2>1, CloserFacts
  <2>2. CASE PublishFinal(p)
    BY <1>1, <2>2, EnderFacts
  <2>. QED  BY <2>1, <2>2
<1>. QED  BY <1>1, <1>2 DEF Step, ProcStep, Plain, Republishing, Expiring

LEMMA RepublishSource ==
  ASSUME TypeOK, Step, NEW p \in Platform, proc'[p].at = "republish"
  PROVE  \/ proc'[p].send \subseteq Stranded
         \/ proc[p].at = "republish" /\ proc'[p].send \subseteq proc[p].send
<1>1. p \in Proc /\ p \notin Workers
  BY PipelineAssumption DEF Proc
<1>2. ~FinalizeClose(p) /\ ~PublishFinal(p)
  <2>1. CASE FinalizeClose(p)
    BY <1>1, <2>1, CloserFacts
  <2>2. CASE PublishFinal(p)
    BY <1>1, <2>2, EnderFacts
  <2>. QED  BY <2>1, <2>2
<1>3. ASSUME NEW j \in Jobs, DispatchRead(p, j) PROVE FALSE
  BY <1>1, <1>3 DEF DispatchRead, Goto, TypeOK
<1>. QED  BY <1>1, <1>2, <1>3 DEF Step, ProcStep, Plain, Republishing, Expiring

LEMMA ReadFacts ==
  ASSUME TypeOK, NEW p \in Platform, NEW j \in Jobs, DispatchRead(p, j)
  PROVE  /\ j \in dispatches /\ job' = job /\ task' = task
         /\ proc'[p].job = j
         /\ (\A k \in TasksOf(j) : task[k].status = "absent") =>
              proc'[p].send \cup proc'[p].block = TasksOf(j)
         /\ \A k \in proc'[p].send : k \in TasksOf(j) /\ Declared(p, k) # NoQueue
         /\ \A k \in proc'[p].block : k \in TasksOf(j) /\ Declared(p, k) = NoQueue
<1>. DEFINE wanted == {k \in TasksOf(j) :
                         \/ \A i \in TasksOf(j) : task[i].status = "absent"
                         \/ task[k].status = "queued" /\ ~task[k].cancel}
            send   == {k \in wanted : Declared(p, k) # NoQueue}
<1>1. proc'[p] = [at |-> "fanout", job |-> j, send |-> send, block |-> wanted \ send]
  BY DEF DispatchRead, Goto, TypeOK, Proc
<1>. QED  BY <1>1 DEF DispatchRead, rows

LEMMA LaunchedKept ==
  ASSUME TypeOK, Launched, Step, [Next]_vars
  PROVE  Launched'
<1>1. ASSUME NEW j \in dispatches', TypeOK' PROVE job'[j].status # "absent"
  <2>0. j \in Jobs
    BY <1>1 DEF TypeOK
  <2>1. CASE Launch(j)
    BY <2>0, <2>1 DEF Launch, TypeOK, JobRow
  <2>2. ASSUME NEW p \in Platform, ReapRepublish(p), j \in proc[p].send
        PROVE  job[j].status # "absent"
    BY <2>2 DEF Launched, ReapRepublish
  <2>. QED  BY <2>0, <2>1, <2>2, DispatchesGrow, NeverAbsentAgain DEF Launched
<1>2. ASSUME NEW p \in Platform, proc'[p].at = "republish", TypeOK', NEW j \in proc'[p].send
      PROVE  job'[j].status # "absent"
  <2>1. j \in Jobs
    BY <1>2, LocalFields DEF TypeOK, Proc
  <2>2. job[j].status # "absent"
    BY <1>2, RepublishSource DEF Launched, Stranded
  <2>. QED  BY <2>1, <2>2, NeverAbsentAgain
<1>3. ASSUME NEW p \in Platform, proc'[p].at = "fanout", TypeOK'
      PROVE  job'[proc'[p].job].status # "absent"
  <2>1. proc'[p].job \in Jobs
    BY <1>3, LocalFields DEF TypeOK, Proc
  <2>2. job[proc'[p].job].status # "absent"
    BY <1>3, FanoutSource, ReadFacts DEF Launched
  <2>. QED  BY <2>1, <2>2, NeverAbsentAgain
<1>. QED  BY <1>1, <1>2, <1>3, NextType DEF Launched

LEMMA FanoutPlanKept ==
  ASSUME TypeOK, TypeOK', Launched, FanoutPlan, MatrixWhole, Step
  PROVE  FanoutPlan'
<1>. SUFFICES ASSUME NEW p \in Platform, proc'[p].at = "fanout",
                     job'[proc'[p].job].status = "queued"
              PROVE  proc'[p].send \cup proc'[p].block = TasksOf(proc'[p].job)
  BY DEF FanoutPlan, TasksOf
<1>1. CASE proc'[p] = proc[p]
  <2>. DEFINE j == proc[p].job
  <2>1. j \in Jobs /\ job[j].status # "absent"
    BY <1>1, LocalFields DEF TypeOK, Proc, Launched
  <2>2. ASSUME NEW q \in Proc, FinalizeClose(q), proc[q].job = j PROVE FALSE
    BY <1>1, <2>2, CloserFacts, OutcomeType DEF TerminalJob
  <2>3. job[j].status = "queued"
    BY <1>1, <2>1, <2>2 DEF Step, JobStep
  <2>. QED  BY <1>1, <2>3 DEF FanoutPlan
<1>2. ASSUME NEW j \in Jobs, DispatchRead(p, j)
      PROVE  proc'[p].send \cup proc'[p].block = TasksOf(proc'[p].job)
  <2>1. job[j].status = "queued" /\ proc'[p].job = j
    BY <1>2, ReadFacts
  <2>2. \A k \in TasksOf(j) : task[k].status = "absent"
    BY <2>1 DEF MatrixWhole
  <2>. QED  BY <1>2, <2>1, <2>2, ReadFacts
<1>. QED  BY <1>1, <1>2, FanoutSource

LEMMA MatrixKept ==
  ASSUME TypeOK, Launched, FanoutPlan, MatrixWhole, Step
  PROVE  MatrixWhole'
<1>. SUFFICES ASSUME NEW j \in Jobs, NEW k \in TasksOf(j)
              PROVE  task'[k].status = "absent" <=> job'[j].status \in {"absent", "queued"}
  BY DEF MatrixWhole, TasksOf
<1>0. /\ k \in Tasks /\ JobOf[k] = j
      /\ task[k].status = "absent" <=> job[j].status \in {"absent", "queued"}
  BY DEF MatrixWhole, TasksOf
<1>1. ASSUME NEW p \in Platform, DispatchCommit(p), proc[p].job = j
      PROVE  /\ job[j].status # "absent" /\ proc[p].at = "fanout"
             /\ job[j].status = "queued" =>
                  job'[j].status = "running" /\ task'[k].status # "absent"
  <2>1. job[j].status # "absent" /\ proc[p].at = "fanout"
    BY <1>1 DEF DispatchCommit, Launched
  <2>2. ASSUME job[j].status = "queued"
        PROVE  job'[j].status = "running" /\ task'[k].status # "absent"
    <3>1. \A i \in TasksOf(j) : task[i].status = "absent"
      BY <2>2 DEF MatrixWhole
    <3>2. k \in proc[p].send \cup proc[p].block
      BY <1>1, <2>1, <2>2 DEF FanoutPlan
    <3>3. CreateTasks(proc[p].send, proc[p].block)
      BY <1>1, <3>1 DEF DispatchCommit
    <3>4. task'[k].status \in {"queued", "blocked"}
      BY <1>0, <3>2, <3>3 DEF CreateTasks, NoTaskRow
    <3>. QED  BY <1>1, <2>2, <3>4 DEF DispatchCommit, TypeOK, JobRow
  <2>. QED  BY <2>1, <2>2
<1>2. ASSUME NEW p \in Proc, FinalizeClose(p), proc[p].job = j
      PROVE  task'[k].status # "absent" /\ job'[j].status \notin {"absent", "queued"}
  <2>1. task' = task /\ JobDone(Statuses(j)) /\ job'[j].status \in TerminalJob
    BY <1>2, CloserFacts, OutcomeType DEF Closable
  <2>2. task[k].status \in TerminalTask
    BY <2>1 DEF JobDone, Statuses
  <2>. QED  BY <2>1, <2>2 DEF TerminalTask, TerminalJob
<1>3. CASE job'[j] = job[j] \/ (job[j].status = "absent" /\ job'[j].status = "queued")
  <2>1. CASE task'[k].status = task[k].status
    BY <1>0, <1>3, <2>1
  <2>2. CASE Live(k) /\ task'[k].status \notin {"absent", "queued"}
    BY <1>0, <1>3, <2>2 DEF Live
  <2>3. ASSUME NEW p \in Platform, DispatchCommit(p), proc[p].job = JobOf[k],
               task[k].status = "absent" \/ task'[k].status = "blocked"
        PROVE  task'[k].status = "absent" <=> job'[j].status \in {"absent", "queued"}
    BY <1>0, <1>1, <1>3, <2>3
  <2>. QED  BY <1>0, <2>1, <2>2, <2>3 DEF Step, TaskStep
<1>4. CASE /\ job[j].status = "queued" /\ job'[j].status = "running"
           /\ \E p \in Platform : DispatchCommit(p) /\ proc[p].job = j
  BY <1>1, <1>4
<1>. QED  BY <1>2, <1>3, <1>4 DEF Step, JobStep

LEMMA InitMatrix == Init => MatrixInv
<1>. SUFFICES ASSUME Init PROVE MatrixInv
  OBVIOUS
<1>1. \A p \in Platform : proc[p].at = "idle"
  BY HelperAt DEF Init, Proc
<1>2. Launched /\ FanoutPlan
  BY <1>1 DEF Init, Launched, FanoutPlan
<1>3. MatrixWhole
  BY DEF Init, RowsInit, MatrixWhole, TasksOf, NoJobRow, NoTaskRow
<1>. QED  BY <1>2, <1>3, InitSafety DEF MatrixInv

LEMMA NextMatrix == MatrixInv /\ [Next]_vars => MatrixInv' /\ Step
<1>. SUFFICES ASSUME MatrixInv, [Next]_vars PROVE MatrixInv' /\ Step
  OBVIOUS
<1>1. SafetyInv' /\ Step /\ TypeOK /\ TypeOK'
  BY NextSafety DEF MatrixInv, SafetyInv
<1>. QED  BY <1>1, LaunchedKept, FanoutPlanKept, MatrixKept DEF MatrixInv

(***************************************************************************)
(* A job's matrix appears whole, with the job's step to running, and no    *)
(* dispatch that is duplicated, republished or cut short ever adds to it   *)
(* or leaves a test out: it stands on FanoutPlan, what a dispatch planned  *)
(* under the row lock is still the whole matrix when it commits.           *)
(***************************************************************************)
THEOREM MatrixAlwaysWhole == Spec => []MatrixWhole
<1>1. MatrixInv => MatrixWhole
  BY DEF MatrixInv
<1>. QED  BY <1>1, InitMatrix, NextMatrix, PTL DEF Spec
-----------------------------------------------------------------------------
(* The last finisher *)

(***************************************************************************)
(* A process that will count the children of the job before it is idle.    *)
(***************************************************************************)
Finisher(p, j) ==
  \/ /\ proc[p].at \in {"fanout", "announce", "send", "expired", "finalize"}
     /\ proc[p].job = j
  \/ proc[p].at = "report" /\ JobOf[proc[p].task] = j

(***************************************************************************)
(* A finisher stays one until it has counted, and whoever starts a job or  *)
(* ends one of its tasks becomes one.                                      *)
(***************************************************************************)
FinisherStays ==
  \A p \in Proc, j \in Jobs : Finisher(p, j) =>
    \/ Finisher(p, j)'
    \/ proc[p].at = "finalize" /\ (FinalizeClose(p) \/ FinalizeSkip(p))

Ended(j) ==
  \/ job[j].status # "running" /\ job'[j].status = "running"
  \/ \E k \in TasksOf(j) :
       task[k].status \notin TerminalTask /\ task'[k].status \in TerminalTask

FinisherAdded == \A j \in Jobs : Ended(j) => \E p \in Proc : Finisher(p, j)'

CloserStepOf == FinisherStays /\ FinisherAdded

LEMMA NothingEnds ==
  ASSUME UNCHANGED rows PROVE FinisherAdded
BY DEF rows, FinisherAdded, Ended

LEMMA ProcsStay ==
  ASSUME UNCHANGED proc PROVE FinisherStays
BY DEF FinisherStays, Finisher

LEMMA OnlyOneEnds ==
  ASSUME TypeOK, NEW p \in Proc, NEW i \in Jobs, Finisher(p, i)',
         \A j \in Jobs : j # i => job'[j] = job[j] \/ job'[j].status # "running",
         \A k \in Tasks : JobOf[k] # i => task'[k].status = task[k].status
  PROVE  FinisherAdded
BY DEF FinisherAdded, Ended, TasksOf

LEMMA FinisherGoto ==
  ASSUME TypeOK, NEW p \in Proc, NEW l, Goto(p, l),
         \A j \in Jobs : Finisher(p, j) =>
           \/ Finisher(p, j)'
           \/ proc[p].at = "finalize" /\ (FinalizeClose(p) \/ FinalizeSkip(p))
  PROVE  FinisherStays
BY DEF FinisherStays, Finisher, Goto, TypeOK

LEMMA WasNoFinisher ==
  ASSUME TypeOK, NEW p \in Proc, NEW l, Goto(p, l),
         proc[p].at \notin {"fanout", "announce", "send", "expired", "finalize", "report"}
  PROVE  FinisherStays
BY FinisherGoto DEF Finisher

LEMMA StillFinisher ==
  ASSUME TypeOK, NEW p \in Proc, NEW i, NEW l, Goto(p, l),
         l.at \in {"announce", "send", "expired", "finalize"}, l.job = i,
         \/ proc[p].at \in {"fanout", "announce", "send", "expired"} /\ proc[p].job = i
         \/ proc[p].at = "report" /\ JobOf[proc[p].task] = i
  PROVE  FinisherStays /\ Finisher(p, i)'
<1>1. proc'[p] = l
  BY DEF Goto, TypeOK
<1>2. Finisher(p, i)'
  BY <1>1 DEF Finisher
<1>3. \A j \in Jobs : Finisher(p, j) => j = i
  BY DEF Finisher
<1>. QED  BY <1>2, <1>3, FinisherGoto

LEMMA SendingFinishes ==
  ASSUME NEW j, NEW send
  PROVE  Sending(j, send).at \in {"send", "finalize"} /\ Sending(j, send).job = j
BY DEF Sending, Finalizing

LEMMA DispatchFinishers ==
  ASSUME TypeOK, FanoutOpen, NEW p \in Platform, Dispatch(p)
  PROVE  CloserStepOf
<1>0. p \in Proc /\ proc[p] \in Local
  BY DEF TypeOK, Proc
<1>1. ASSUME NEW j \in Jobs, DispatchDropped(p, j) PROVE CloserStepOf
  BY <1>1, NothingEnds, ProcsStay DEF DispatchDropped, CloserStepOf
<1>2. ASSUME NEW j \in Jobs, DispatchRead(p, j) PROVE CloserStepOf
  <2>1. PICK l : Goto(p, l)
    BY <1>2 DEF DispatchRead
  <2>. QED
    BY <1>0, <1>2, <2>1, NothingEnds, WasNoFinisher, HelperAt DEF DispatchRead, CloserStepOf
<1>3. CASE DispatchCommit(p)
  <2>. DEFINE d == proc[p]
  <2>0. PICK i \in Jobs : i = d.job
    BY <1>0, <1>3, LocalFields DEF DispatchCommit
  <2>1. d.at = "fanout" /\ d.send \cup d.block \subseteq TasksOf(i)
    BY <1>3, <2>0 DEF DispatchCommit, FanoutOpen
  <2>2. PICK l : Goto(p, l) /\ l.at \in {"announce", "send", "finalize"} /\ l.job = i
    BY <1>3, <2>0, SendingFinishes DEF DispatchCommit
  <2>3. FinisherStays /\ Finisher(p, i)'
    BY <1>0, <2>0, <2>1, <2>2, StillFinisher
  <2>4. \A k \in Tasks : JobOf[k] # i => task'[k].status = task[k].status
    BY <1>3, <2>1 DEF DispatchCommit, CreateTasks, Move, TasksOf, TypeOK, TaskRow
  <2>5. \A j \in Jobs : j # i => job'[j] = job[j]
    BY <1>3, <2>0 DEF DispatchCommit, TypeOK
  <2>. QED  BY <1>0, <2>3, <2>4, <2>5, OnlyOneEnds DEF CloserStepOf
<1>4. CASE DispatchAnnounce(p) \/ DispatchSend(p)
  <2>1. proc[p].at \in {"announce", "send"}
    BY <1>4 DEF DispatchAnnounce, DispatchSend
  <2>2. PICK i : i = proc[p].job
    OBVIOUS
  <2>3. PICK send : Goto(p, Sending(i, send))
    BY <1>4, <2>2 DEF DispatchAnnounce, DispatchSend
  <2>4. FinisherStays
    BY <1>0, <2>1, <2>2, <2>3, SendingFinishes, StillFinisher
  <2>. QED  BY <1>4, <2>4, NothingEnds DEF DispatchAnnounce, DispatchSend, CloserStepOf
<1>. QED  BY <1>1, <1>2, <1>3, <1>4 DEF Dispatch

LEMMA FinalizeFinishers ==
  ASSUME TypeOK, NEW p \in Proc, Finalize(p)
  PROVE  CloserStepOf
<1>1. CASE FinalizeClose(p)
  <2>1. PICK l : Goto(p, l) /\ proc[p].at = "finalize"
    BY <1>1 DEF FinalizeClose
  <2>2. FinisherStays
    BY <1>1, <2>1, FinisherGoto
  <2>3. /\ proc[p].job \in Jobs /\ task' = task
        /\ job'[proc[p].job].status # "running"
        /\ \A j \in Jobs : j # proc[p].job => job'[j] = job[j]
    BY <1>1, CloserFacts, OutcomeType DEF FinalizeClose, TypeOK, TerminalJob
  <2>4. FinisherAdded
    BY <2>3 DEF FinisherAdded, Ended
  <2>. QED  BY <2>2, <2>4 DEF CloserStepOf
<1>2. CASE FinalizeSkip(p)
  <2>1. PICK l : Goto(p, l) /\ proc[p].at = "finalize"
    BY <1>2 DEF FinalizeSkip
  <2>2. FinisherStays
    BY <1>2, <2>1, FinisherGoto
  <2>. QED  BY <1>2, <2>2, NothingEnds DEF FinalizeSkip, CloserStepOf
<1>3. CASE PublishFinal(p) \/ PublishEnd(p)
  <2>1. PICK l : Goto(p, l) /\ proc[p].at \in {"closing", "ending"}
    BY <1>3 DEF PublishFinal, PublishEnd
  <2>. QED  BY <1>3, <2>1, NothingEnds, WasNoFinisher DEF PublishFinal, PublishEnd, CloserStepOf
<1>. QED  BY <1>1, <1>2, <1>3 DEF Finalize

LEMMA RunModuleFinishers ==
  ASSUME TypeOK, EngineClaimed, NEW w \in Workers, RunModule(w)
  PROVE  CloserStepOf
<1>0. w \in Proc /\ proc[w] \in Local
  BY DEF TypeOK, Proc
<1>1. ASSUME NEW k \in Tasks, Goto(w, [at |-> "report", task |-> k]),
             NEW status, NEW reason, Move({k}, status, reason), UNCHANGED job
      PROVE  FinisherAdded
  <2>1. proc'[w] = [at |-> "report", task |-> k]
    BY <1>0, <1>1 DEF Goto, TypeOK
  <2>2. JobOf[k] \in Jobs /\ Finisher(w, JobOf[k])'
    BY <2>1, JobOfAssumption DEF Finisher
  <2>3. \A i \in Tasks : JobOf[i] # JobOf[k] => task'[i].status = task[i].status
    BY <1>1 DEF Move
  <2>. QED  BY <1>0, <1>1, <2>2, <2>3, OnlyOneEnds
<1>2. ASSUME NEW k \in Tasks,
             RunDuplicate(w, k) \/ RunCanceled(w, k) \/ RunRefused(w, k) \/ RunClaim(w, k)
      PROVE  CloserStepOf
  <2>1. UNCHANGED job /\ proc[w] = Idle
    BY <1>2 DEF RunDuplicate, RunCanceled, RunRefused, RunClaim, Take
  <2>2. FinisherStays
    <3>1. CASE RunDuplicate(w, k)
      BY <3>1, ProcsStay DEF RunDuplicate
    <3>2. ASSUME NEW l, Goto(w, l) PROVE FinisherStays
      BY <1>0, <2>1, <3>2, WasNoFinisher, HelperAt
    <3>. QED  BY <1>2, <3>1, <3>2 DEF RunCanceled, RunRefused, RunClaim
  <2>3. CASE RunDuplicate(w, k)
    BY <2>1, <2>2, <2>3 DEF RunDuplicate, FinisherAdded, Ended, CloserStepOf
  <2>4. CASE RunCanceled(w, k)
    BY <1>1, <2>1, <2>2, <2>4 DEF RunCanceled, CloserStepOf
  <2>5. CASE RunRefused(w, k)
    BY <1>1, <2>1, <2>2, <2>5 DEF RunRefused, CloserStepOf
  <2>6. CASE RunClaim(w, k)
    <3>1. \A i \in Tasks : task'[i].status \in {task[i].status, "running"}
      BY <2>6 DEF RunClaim, Move, TypeOK, TaskRow
    <3>2. FinisherAdded
      BY <2>1, <3>1 DEF FinisherAdded, Ended, TerminalTask, TasksOf
    <3>. QED  BY <2>2, <3>2 DEF CloserStepOf
  <2>. QED  BY <1>2, <2>3, <2>4, <2>5, <2>6
<1>3. ASSUME NEW k \in Tasks,
             \/ RunDropped(w, k) \/ RunCanceledLate(w, k)
             \/ RunFailed(w, k) \/ RunCompleted(w, k)
      PROVE  CloserStepOf
  <2>1. UNCHANGED job /\ proc[w].at = "engine"
    BY <1>3 DEF RunDropped, RunCanceledLate, RunFailed, RunCompleted, EngineEnds
  <2>2. FinisherStays
    <3>1. PICK l : Goto(w, l)
      BY <1>3 DEF RunDropped, RunCanceledLate, RunFailed, RunCompleted
    <3>. QED  BY <1>0, <2>1, <3>1, WasNoFinisher
  <2>3. CASE RunDropped(w, k)
    BY <2>1, <2>2, <2>3 DEF RunDropped, FinisherAdded, Ended, CloserStepOf
  <2>4. CASE RunCanceledLate(w, k)
    BY <1>1, <2>1, <2>2, <2>4 DEF RunCanceledLate, CloserStepOf
  <2>5. CASE RunFailed(w, k)
    BY <1>1, <2>1, <2>2, <2>5 DEF RunFailed, CloserStepOf
  <2>6. CASE RunCompleted(w, k)
    BY <1>1, <2>1, <2>2, <2>6 DEF RunCompleted, CloserStepOf
  <2>. QED  BY <1>3, <2>3, <2>4, <2>5, <2>6
<1>4. CASE RunAnnounce(w)
  <2>1. PICK l : Goto(w, l) /\ proc[w].at = "started"
    BY <1>4 DEF RunAnnounce
  <2>. QED  BY <1>0, <1>4, <2>1, NothingEnds, WasNoFinisher DEF RunAnnounce, CloserStepOf
<1>5. CASE RunReport(w)
  <2>1. PICK i : i = JobOf[proc[w].task]
    OBVIOUS
  <2>2. proc[w].at = "report" /\ Goto(w, Finalizing(i, NoReason, {}))
    BY <1>5, <2>1 DEF RunReport
  <2>3. /\ Finalizing(i, NoReason, {}).at = "finalize"
        /\ Finalizing(i, NoReason, {}).job = i
    BY DEF Finalizing
  <2>4. FinisherStays
    BY <1>0, <2>1, <2>2, <2>3, StillFinisher
  <2>. QED  BY <1>5, <2>4, NothingEnds DEF RunReport, CloserStepOf
<1>. QED  BY <1>2, <1>3, <1>4, <1>5 DEF RunModule

LEMMA ReapFinishers ==
  ASSUME TypeOK, NEW p \in Platform, Reap(p)
  PROVE  CloserStepOf
<1>0. p \in Proc /\ proc[p] \in Local
  BY DEF TypeOK, Proc
<1>1. ASSUME NEW stale, NEW stuck, ReapRead(p, stale, stuck) PROVE CloserStepOf
  BY <1>0, <1>1, NothingEnds, WasNoFinisher, HelperAt DEF ReapRead, CloserStepOf
<1>2. CASE ReapRepublish(p)
  <2>1. PICK l : Goto(p, l) /\ proc[p].at = "republish"
    BY <1>2 DEF ReapRepublish
  <2>. QED  BY <1>0, <1>2, <2>1, NothingEnds, WasNoFinisher DEF ReapRepublish, CloserStepOf
<1>3. CASE ReapExpire(p)
  <2>. DEFINE live(j) == {k \in TasksOf(j) : Live(k)}
  <2>0. proc[p].rest \in SUBSET Jobs /\ proc[p].at = "sweep"
    BY <1>0, <1>3, LocalFields DEF ReapExpire
  <2>1. PICK j \in proc[p].rest :
               /\ Move(live(j), "failed", "job.timeout")
               /\ Goto(p, Expired(j, live(j), proc[p].rest \ {j}))
    BY <1>3 DEF ReapExpire
  <2>2. proc'[p] = Expired(j, live(j), proc[p].rest \ {j})
    BY <1>0, <2>1 DEF Goto, TypeOK
  <2>3. Finisher(p, j)'
    BY <2>2 DEF Finisher, Expired, Finalizing
  <2>4. \A k \in Tasks : JobOf[k] # j => task'[k].status = task[k].status
    BY <2>1 DEF Move, TasksOf
  <2>5. FinisherAdded
    BY <1>0, <1>3, <2>0, <2>3, <2>4, OnlyOneEnds DEF ReapExpire
  <2>. QED  BY <1>0, <2>0, <2>1, <2>5, WasNoFinisher DEF CloserStepOf
<1>4. CASE ReapReport(p)
  <2>1. PICK i : i = proc[p].job
    OBVIOUS
  <2>2. PICK k : Goto(p, IF proc[p].failed = {k}
                           THEN Finalizing(i, "job.timeout", proc[p].rest)
                           ELSE [proc[p] EXCEPT !.failed = proc[p].failed \ {k}])
    BY <1>4, <2>1 DEF ReapReport
  <2>. DEFINE more == [proc[p] EXCEPT !.failed = proc[p].failed \ {k}]
              last == Finalizing(i, "job.timeout", proc[p].rest)
  <2>3. proc[p].at = "expired"
    BY <1>4 DEF ReapReport
  <2>4. more.at = "expired" /\ more.job = i
    BY <1>0, <2>1, <2>3 DEF Local, Idle
  <2>5. last.at = "finalize" /\ last.job = i
    BY DEF Finalizing
  <2>6. PICK l : Goto(p, l) /\ l.at \in {"expired", "finalize"} /\ l.job = i
    BY <2>2, <2>4, <2>5
  <2>7. FinisherStays
    BY <1>0, <2>1, <2>3, <2>6, StillFinisher
  <2>. QED  BY <1>4, <2>7, NothingEnds DEF ReapReport, CloserStepOf
<1>. QED  BY <1>1, <1>2, <1>3, <1>4 DEF Reap

(***************************************************************************)
(* Every step but a fault; a fault ends the premise faults = 0.            *)
(***************************************************************************)
LEMMA NextFinishers ==
  ASSUME TypeOK, FanoutOpen, EngineClaimed, [Next]_vars
  PROVE  CloserStepOf \/ faults' # 0
<1>1. CASE Client
  <2>1. FinisherStays
    BY <1>1, ProcsStay DEF Client, Launch, RequestCancel
  <2>2. PICK j \in Jobs : Launch(j) \/ RequestCancel(j)
    BY <1>1 DEF Client
  <2>3. /\ \A i \in Jobs : job'[i] = job[i] \/ job'[i].status # "running"
        /\ \A k \in Tasks : task'[k].status = task[k].status
    BY <2>2 DEF Launch, RequestCancel, TypeOK, TaskRow, JobRow
  <2>. QED  BY <2>1, <2>3 DEF CloserStepOf, FinisherAdded, Ended, TasksOf
<1>2. CASE UNCHANGED vars
  BY <1>2, NothingEnds, ProcsStay DEF vars, CloserStepOf
<1>3. CASE Waiting
  BY <1>2, <1>3 DEF Waiting
<1>4. CASE Faults
  BY <1>4 DEF Faults, Restart, ReapError, LoseDispatch, LoseDelivery, Fault, TypeOK
<1>5. ASSUME NEW p \in Platform, Heartbeat(p) PROVE CloserStepOf
  <2>0. p \in Proc
    BY DEF Proc
  <2>1. PICK l : Goto(p, l) /\ (proc[p] = Idle \/ proc[p].at = "heartbeat")
    BY <1>5 DEF Heartbeat, HeartbeatRead, HeartbeatSend
  <2>2. FinisherStays
    BY <2>0, <2>1, WasNoFinisher, HelperAt
  <2>. QED  BY <1>5, <2>2, NothingEnds DEF Heartbeat, HeartbeatRead, HeartbeatSend, CloserStepOf
<1>. QED
  BY <1>1, <1>2, <1>3, <1>4, <1>5, DispatchFinishers, FinalizeFinishers,
     RunModuleFinishers, ReapFinishers DEF Next, Counting

LEMMA CloserPendingKept ==
  ASSUME TypeOK, CloserPending, CloserStepOf \/ faults' # 0, [Next]_vars, TypeOK'
  PROVE  CloserPending'
<1>. SUFFICES ASSUME faults' = 0, NEW j \in Jobs,
                     job'[j].status = "running", JobDone(Statuses(j))'
              PROVE  \E p \in Proc : Finisher(p, j)'
  BY DEF CloserPending, Finisher
<1>1. faults = 0
  <2>1. CASE Faults
    BY <2>1 DEF Faults, Restart, ReapError, LoseDispatch, LoseDelivery, Fault, TypeOK
  <2>2. CASE Client \/ Waiting \/ UNCHANGED vars
    BY <2>2 DEF Client, Launch, RequestCancel, Waiting, vars
  <2>3. ASSUME NEW p \in Platform, Dispatch(p) PROVE faults' = faults
    BY <2>3 DEF Dispatch, DispatchDropped, DispatchRead, DispatchCommit,
                DispatchAnnounce, DispatchSend
  <2>4. ASSUME NEW w \in Workers, RunModule(w) PROVE faults' = faults
    BY <2>4 DEF RunModule, RunDuplicate, RunCanceled, RunRefused, RunClaim, Take,
                RunDropped, RunCanceledLate, RunFailed, RunCompleted, EngineEnds,
                RunAnnounce, RunReport
  <2>5. ASSUME NEW p \in Proc, Finalize(p) PROVE faults' = faults
    BY <2>5 DEF Finalize, FinalizeClose, FinalizeSkip, PublishFinal, PublishEnd
  <2>6. ASSUME NEW p \in Platform, Reap(p) \/ Heartbeat(p) PROVE faults' = faults
    BY <2>6 DEF Reap, ReapRead, ReapRepublish, ReapExpire, ReapReport,
                Heartbeat, HeartbeatRead, HeartbeatSend
  <2>. QED  BY <2>1, <2>2, <2>3, <2>4, <2>5, <2>6 DEF Next, Counting
<1>2. CASE job[j].status = "running" /\ JobDone(Statuses(j))
  <2>1. PICK p \in Proc : Finisher(p, j)
    BY <1>1, <1>2 DEF CloserPending, Finisher
  <2>2. ~FinalizeClose(p) \/ proc[p].at # "finalize"
    <3>1. ASSUME FinalizeClose(p), proc[p].at = "finalize" PROVE FALSE
      <4>1. proc[p].job = j
        BY <2>1, <3>1 DEF Finisher
      <4>. QED  BY <3>1, <4>1, CloserFacts, OutcomeType DEF TerminalJob
    <3>. QED  BY <3>1
  <2>3. ~FinalizeSkip(p) \/ proc[p].at # "finalize"
    BY <1>2, <2>1 DEF Finisher, FinalizeSkip, Closable, TerminalJob
  <2>. QED  BY <2>1, <2>2, <2>3 DEF CloserStepOf, FinisherStays
<1>3. CASE ~(job[j].status = "running" /\ JobDone(Statuses(j)))
  <2>1. CASE job[j].status # "running"
    BY <2>1 DEF CloserStepOf, FinisherAdded, Ended
  <2>2. CASE ~JobDone(Statuses(j))
    <3>1. \A k \in TasksOf(j) : task'[k].status \in TerminalTask
      BY DEF JobDone, Statuses, TasksOf
    <3>2. \E k \in TasksOf(j) : TRUE
      BY DEF JobDone, Statuses, TasksOf
    <3>3. \E k \in TasksOf(j) : task[k].status \notin TerminalTask
      BY <2>2, <3>2 DEF JobDone, Statuses
    <3>. QED  BY <3>1, <3>3 DEF CloserStepOf, FinisherAdded, Ended
  <2>. QED  BY <1>3, <2>1, <2>2
<1>. QED  BY <1>2, <1>3

(***************************************************************************)
(* Counting without a lock on the tasks never misses the last finisher: in *)
(* any order in which any number of workers, dispatches and sweeps commit  *)
(* and count, one of them has still to count when the last child ends.     *)
(***************************************************************************)
THEOREM LastFinisherCounts == Spec => []CloserPending
<1>1. Init => CloserPending
  BY DEF Init, RowsInit, CloserPending, NoJobRow
<1>2. SafetyInv /\ CloserPending /\ [Next]_vars => CloserPending'
  <2>. SUFFICES ASSUME SafetyInv, CloserPending, [Next]_vars PROVE CloserPending'
    OBVIOUS
  <2>1. TypeOK' /\ TypeOK /\ FanoutOpen /\ EngineClaimed
    BY NextSafety DEF SafetyInv
  <2>. QED  BY <2>1, NextFinishers, CloserPendingKept
<1>. QED  BY <1>1, <1>2, SafetyInvariant, PTL DEF Spec
-----------------------------------------------------------------------------
(* The abstract lifecycle *)

(***************************************************************************)
(* The images that may be deployed agree on which tests have a module, on  *)
(* whatever queue each routes it.  Where they do not, a second dispatch    *)
(* may block a task that has ended (DispatchCommit).                       *)
(***************************************************************************)
SameModules ==
  \A a, b \in Images, t \in Tests : a[t] = NoQueue <=> b[t] = NoQueue

Lacking(k) == \E image \in Images : image[TestOf[k]] = NoQueue

(***************************************************************************)
(* Then every dispatch splits a job in the same way, and a task no image   *)
(* has a module for is blocked from its first moment on: what a second     *)
(* dispatch writes over it is what stands there.                           *)
(***************************************************************************)
FanoutSplit ==
  \A p \in Platform : proc[p].at = "fanout" =>
    /\ \A k \in proc[p].send : ~Lacking(k)
    /\ \A k \in proc[p].block : Lacking(k)

LackingBlocked ==
  \A k \in Tasks : Lacking(k) =>
    \/ task[k].status = "absent"
    \/ task[k].status = "blocked" /\ task[k].reason = "task.module_unavailable"

OverrideEarned == \A p \in Proc : TimingOut(proc[p]) => LostToTimeout(proc[p].job)

LifecycleInv ==
  /\ MatrixInv
  /\ FanoutSplit
  /\ LackingBlocked
  /\ OverrideEarned
  /\ ResultIffCompleted
  /\ TimeoutEarned

LEMMA SameRows ==
  /\ Lifecycle!rows = rows
  /\ \A j : Lifecycle!TasksOf(j) = TasksOf(j) /\ Lifecycle!Statuses(j) = Statuses(j)
  /\ \A k : Lifecycle!Live(k) <=> Live(k)
BY DEF Lifecycle!rows, rows, Lifecycle!TasksOf, TasksOf, Lifecycle!Statuses, Statuses,
       Lifecycle!Live, Live

LEMMA SameMove ==
  ASSUME NEW S, NEW status, NEW reason
  PROVE  Lifecycle!Move(S, status, reason) <=> Move(S, status, reason)
BY DEF Lifecycle!Move, Move

LEMMA SameDone ==
  ASSUME NEW statuses, NEW override
  PROVE  /\ Lifecycle!JobDone(statuses) <=> JobDone(statuses)
         /\ Lifecycle!JobOutcome(statuses, override) = JobOutcome(statuses, override)
BY DEF Lifecycle!JobDone, JobDone, Lifecycle!TerminalTask, TerminalTask,
       Lifecycle!JobOutcome, JobOutcome, Lifecycle!NoReason, NoReason

(***************************************************************************)
(* What the abstract lifecycle keeps: a terminal task and its result are   *)
(* never written again, a result stands beside a completed task, and a     *)
(* job-timeout reason beside a task that was lost to it.                   *)
(***************************************************************************)
Frozen(k) == task'[k] = task[k] /\ (k \in result' <=> k \in result)

LEMMA LifecycleTask ==
  ASSUME TypeOK, MatrixWhole, [Lifecycle!LifecycleNext]_rows, NEW k \in Tasks
  PROVE  \/ Frozen(k)
         \/ /\ task[k].status \in {"absent", "queued", "running"}
            /\ task'[k].status # "completed"
            /\ k \in result' <=> k \in result
         \/ /\ task[k].status = "running" /\ task'[k].status = "completed"
            /\ k \in result'
<1>1. CASE UNCHANGED rows
  BY <1>1 DEF rows, Frozen
<1>2. ASSUME NEW j \in Jobs, Lifecycle!Commit(j) \/ Lifecycle!Close(j) PROVE Frozen(k)
  BY <1>2 DEF Lifecycle!Commit, Lifecycle!Close, Frozen
<1>3. ASSUME NEW j \in Jobs, Lifecycle!Materialize(j)
      PROVE  \/ Frozen(k)
             \/ /\ task[k].status = "absent" /\ task'[k].status # "completed"
                /\ k \in result' <=> k \in result
  <2>1. PICK blocked \in SUBSET TasksOf(j) :
          Lifecycle!CreateTasks(TasksOf(j) \ blocked, blocked)
    BY <1>3, SameRows DEF Lifecycle!Materialize
  <2>2. CASE k \in TasksOf(j)
    <3>1. task[k].status = "absent"
      BY <1>3, <2>2 DEF Lifecycle!Materialize, MatrixWhole
    <3>2. task'[k].status \in {"queued", "blocked"}
      BY <2>1, <2>2 DEF Lifecycle!CreateTasks, Lifecycle!NoTaskRow
    <3>. QED  BY <1>3, <3>1, <3>2 DEF Lifecycle!Materialize
  <2>3. CASE k \notin TasksOf(j)
    BY <1>3, <2>1, <2>3 DEF Lifecycle!CreateTasks, Lifecycle!Materialize, Frozen
  <2>. QED  BY <2>2, <2>3
<1>4. ASSUME NEW S, NEW status, NEW reason, Lifecycle!Move(S, status, reason),
             \A i \in S : i \in Tasks => Live(i), status # "completed", result' = result
      PROVE  \/ Frozen(k)
             \/ /\ task[k].status \in {"queued", "running"}
                /\ task'[k].status # "completed"
                /\ k \in result' <=> k \in result
  BY <1>4 DEF Lifecycle!Move, Frozen, Live, TypeOK, TaskRow
<1>5. ASSUME NEW j \in Jobs, Lifecycle!Expire(j) \/ Lifecycle!RequestCancel(j)
      PROVE  \/ Frozen(k)
             \/ /\ task[k].status \in {"queued", "running"}
                /\ task'[k].status # "completed"
                /\ k \in result' <=> k \in result
  <2>1. CASE Lifecycle!Expire(j)
    BY <1>4, <2>1, SameRows DEF Lifecycle!Expire
  <2>2. CASE Lifecycle!RequestCancel(j)
    BY <2>2, SameRows DEF Lifecycle!RequestCancel, Frozen, Live, TypeOK, TaskRow
  <2>. QED  BY <1>5, <2>1, <2>2
<1>6. ASSUME NEW i \in Tasks,
             \/ Lifecycle!Claim(i) \/ Lifecycle!Refuse(i)
             \/ Lifecycle!Fail(i) \/ Lifecycle!Cancel(i)
      PROVE  \/ Frozen(k)
             \/ /\ task[k].status \in {"queued", "running"}
                /\ task'[k].status # "completed"
                /\ k \in result' <=> k \in result
  BY <1>4, <1>6, SameRows
     DEF Lifecycle!Claim, Lifecycle!Refuse, Lifecycle!Fail, Lifecycle!Cancel, Live
<1>7. ASSUME NEW i \in Tasks, Lifecycle!Complete(i)
      PROVE  \/ Frozen(k)
             \/ /\ task[k].status = "running" /\ task'[k].status = "completed"
                /\ k \in result'
  BY <1>7 DEF Lifecycle!Complete, Lifecycle!Move, Frozen, TypeOK, TaskRow
<1>. QED  BY <1>1, <1>2, <1>3, <1>5, <1>6, <1>7 DEF Lifecycle!LifecycleNext

LEMMA LifecycleFreezes ==
  ASSUME TypeOK, MatrixWhole, [Lifecycle!LifecycleNext]_rows,
         NEW k \in Tasks, task[k].status \in TerminalTask
  PROVE  Frozen(k)
BY LifecycleTask DEF TerminalTask

LEMMA ResultKept ==
  ASSUME TypeOK, MatrixWhole, ResultIffCompleted, [Lifecycle!LifecycleNext]_rows
  PROVE  ResultIffCompleted'
<1>. SUFFICES ASSUME NEW k \in Tasks
              PROVE  k \in result' <=> task'[k].status = "completed"
  BY DEF ResultIffCompleted
<1>. QED  BY LifecycleTask DEF ResultIffCompleted, Frozen

LEMMA TimeoutKept ==
  ASSUME TypeOK, MatrixWhole, TimeoutEarned, [Lifecycle!LifecycleNext]_rows
  PROVE  TimeoutEarned'
<1>. SUFFICES ASSUME NEW j \in Jobs, job'[j].reason = "job.timeout"
              PROVE  \E k \in TasksOf(j) :
                       task'[k].status = "failed" /\ task'[k].reason = "job.timeout"
  BY DEF TimeoutEarned, TasksOf
<1>1. LostToTimeout(j)
  <2>1. CASE job'[j].reason = job[j].reason
    BY <2>1 DEF TimeoutEarned, LostToTimeout
  <2>2. ASSUME NEW i \in Jobs, Lifecycle!Commit(i) \/ Lifecycle!Materialize(i)
        PROVE  job'[j].reason = job[j].reason
    BY <2>2 DEF Lifecycle!Commit, Lifecycle!Materialize, TypeOK, JobRow
  <2>3. ASSUME NEW i \in Jobs, Lifecycle!Close(i)
        PROVE  job'[j].reason = job[j].reason \/ LostToTimeout(j)
    <3>1. PICK why :
            /\ why = "job.timeout" => LostToTimeout(i)
            /\ job' = [job EXCEPT ![i] = JobOutcome(Statuses(i), why)]
      <4>1. PICK why :
              /\ why = "job.timeout" =>
                   \E k \in Lifecycle!TasksOf(i) :
                     task[k].status = "failed" /\ task[k].reason = why
              /\ job' = [job EXCEPT ![i] =
                           Lifecycle!JobOutcome(Lifecycle!Statuses(i), why)]
        BY <2>3 DEF Lifecycle!Close
      <4>2. why = "job.timeout" => LostToTimeout(i)
        BY <4>1, SameRows DEF LostToTimeout
      <4>3. Lifecycle!JobOutcome(Lifecycle!Statuses(i), why)
              = JobOutcome(Statuses(i), why)
        BY SameRows, SameDone
      <4>. QED  BY <4>1, <4>2, <4>3
    <3>2. CASE i # j
      BY <3>1, <3>2
    <3>3. CASE i = j
      <4>1. job'[j].reason = JobOutcome(Statuses(j), why).reason
        BY <3>1, <3>3 DEF TypeOK
      <4>2. why = "job.timeout"
        BY <4>1 DEF JobOutcome, NoReason
      <4>. QED  BY <3>1, <3>3, <4>2
    <3>. QED  BY <3>2, <3>3
  <2>4. ASSUME NEW i \in Jobs, Lifecycle!Expire(i) \/ Lifecycle!RequestCancel(i)
        PROVE  job' = job
    BY <2>4 DEF Lifecycle!Expire, Lifecycle!RequestCancel
  <2>5. ASSUME NEW i \in Tasks,
               \/ Lifecycle!Claim(i) \/ Lifecycle!Refuse(i) \/ Lifecycle!Complete(i)
               \/ Lifecycle!Fail(i) \/ Lifecycle!Cancel(i)
        PROVE  job' = job
    BY <2>5 DEF Lifecycle!Claim, Lifecycle!Refuse, Lifecycle!Complete, Lifecycle!Fail,
                Lifecycle!Cancel
  <2>6. CASE UNCHANGED rows
    BY <2>1, <2>6 DEF rows
  <2>. QED  BY <2>1, <2>2, <2>3, <2>4, <2>5, <2>6 DEF Lifecycle!LifecycleNext
<1>2. PICK k \in TasksOf(j) : task[k].status = "failed" /\ task[k].reason = "job.timeout"
  BY <1>1 DEF LostToTimeout
<1>3. k \in Tasks /\ task'[k] = task[k]
  BY <1>2, LifecycleFreezes DEF TasksOf, TerminalTask, Frozen
<1>. QED  BY <1>2, <1>3

(* Every step of the pipeline is one of the lifecycle, or none *)

LEMMA ClientLifecycle == ASSUME Client PROVE Lifecycle!LifecycleNext
<1>. PICK j \in Jobs : Launch(j) \/ RequestCancel(j)
  BY DEF Client
<1>1. CASE Launch(j)
  BY <1>1 DEF Launch, Lifecycle!Commit, Lifecycle!LifecycleNext
<1>2. CASE RequestCancel(j)
  <2>1. Lifecycle!RequestCancel(j)
    BY <1>2, SameRows DEF RequestCancel, Lifecycle!RequestCancel
  <2>. QED  BY <2>1 DEF Lifecycle!LifecycleNext
<1>. QED  BY <1>1, <1>2

(***************************************************************************)
(* A dispatch of a queued job inserts the whole matrix; every other one    *)
(* writes blocked where blocked stands, and leaves the rows as they are.   *)
(***************************************************************************)
LEMMA DispatchLifecycle ==
  ASSUME TypeOK, MatrixInv, FanoutSplit, LackingBlocked,
         NEW p \in Platform, Dispatch(p)
  PROVE  [Lifecycle!LifecycleNext]_rows
<1>0. p \in Proc /\ proc[p] \in Local
  BY DEF TypeOK, Proc
<1>1. CASE DispatchCommit(p)
  <2>. DEFINE d == proc[p]
              fresh == \A k \in TasksOf(d.job) : task[k].status = "absent"
  <2>1. /\ d.at = "fanout" /\ d.job \in Jobs /\ result' = result
        /\ job[d.job].status # "absent"
        /\ d.send \cup d.block \subseteq TasksOf(d.job)
    BY <1>0, <1>1, LocalFields
       DEF DispatchCommit, MatrixInv, SafetyInv, Launched, FanoutOpen
  <2>2. CASE job[d.job].status = "queued"
    <3>1. d.send = TasksOf(d.job) \ d.block
      <4>1. d.send \cup d.block = TasksOf(d.job)
        BY <2>1, <2>2 DEF MatrixInv, FanoutPlan
      <4>2. \A k \in d.send : k \notin d.block
        BY <2>1 DEF FanoutSplit
      <4>. QED  BY <4>1, <4>2
    <3>2. fresh
      BY <2>1, <2>2 DEF MatrixInv, MatrixWhole
    <3>3. CreateTasks(TasksOf(d.job) \ d.block, d.block)
      BY <1>1, <2>1, <3>1, <3>2 DEF DispatchCommit
    <3>4. Lifecycle!CreateTasks(Lifecycle!TasksOf(d.job) \ d.block, d.block)
      BY <3>3, SameRows DEF CreateTasks, Lifecycle!CreateTasks, NoTaskRow,
         Lifecycle!NoTaskRow, NoReason, Lifecycle!NoReason
    <3>5. job' = [job EXCEPT ![d.job].status = "running"]
      BY <1>1, <2>2 DEF DispatchCommit
    <3>6. Lifecycle!Materialize(d.job)
      <4>1. d.block \in SUBSET Lifecycle!TasksOf(d.job)
        BY <2>1, SameRows
      <4>. QED  BY <2>1, <2>2, <3>4, <3>5, <4>1 DEF Lifecycle!Materialize
    <3>. QED  BY <2>1, <3>6 DEF Lifecycle!LifecycleNext
  <2>3. CASE job[d.job].status # "queued"
    <3>1. job' = job
      BY <1>1, <2>3 DEF DispatchCommit
    <3>2. \A k \in TasksOf(d.job) : task[k].status # "absent"
      BY <2>1, <2>3 DEF MatrixInv, MatrixWhole
    <3>3. CASE fresh
      <4>1. /\ d.send = {} /\ d.block = {}
            /\ CreateTasks(d.send, d.block)
        BY <1>1, <2>1, <3>2, <3>3 DEF DispatchCommit
      <4>2. task' = [k \in Tasks |-> task[k]]
        BY <4>1 DEF CreateTasks
      <4>. QED  BY <2>1, <3>1, <4>2 DEF rows, TypeOK
    <3>4. CASE ~fresh
      <4>1. Move(d.block, "blocked", "task.module_unavailable")
        BY <1>1, <3>4 DEF DispatchCommit
      <4>2. ASSUME NEW k \in Tasks, k \in d.block PROVE task'[k] = task[k]
        <5>1. task[k].status = "blocked" /\ task[k].reason = "task.module_unavailable"
          BY <2>1, <3>2, <4>2 DEF FanoutSplit, LackingBlocked
        <5>. QED  BY <4>1, <4>2, <5>1 DEF Move, TypeOK, TaskRow
      <4>3. task' = [k \in Tasks |-> task[k]]
        BY <4>1, <4>2 DEF Move
      <4>. QED  BY <2>1, <3>1, <4>3 DEF rows, TypeOK
    <3>. QED  BY <3>3, <3>4
  <2>. QED  BY <2>2, <2>3
<1>2. CASE ~DispatchCommit(p)
  BY <1>2 DEF Dispatch, DispatchDropped, DispatchRead, DispatchAnnounce, DispatchSend
<1>. QED  BY <1>1, <1>2

(***************************************************************************)
(* The job that is closed has its matrix and children that are all done,   *)
(* so it was running; and a timeout reason was earned.                     *)
(***************************************************************************)
LEMMA FinalizeLifecycle ==
  ASSUME TypeOK, MatrixInv, OverrideEarned, NEW p \in Proc, Finalize(p)
  PROVE  [Lifecycle!LifecycleNext]_rows
<1>1. CASE FinalizeClose(p)
  <2>. DEFINE j == proc[p].job
  <2>1. /\ j \in Jobs /\ proc[p].override \in Override /\ proc[p].at = "finalize"
        /\ job[j].status \notin TerminalJob /\ JobDone(Statuses(j))
        /\ job' = [job EXCEPT ![j] = JobOutcome(Statuses(j), proc[p].override)]
        /\ UNCHANGED <<task, result>>
    BY <1>1, CloserFacts DEF FinalizeClose, Closable
  <2>2. job[j].status = "running"
    <3>1. PICK k \in TasksOf(j) : task[k].status \in TerminalTask
      BY <2>1 DEF JobDone, Statuses
    <3>2. job[j].status \notin {"absent", "queued"}
      BY <2>1, <3>1 DEF MatrixInv, MatrixWhole, TerminalTask
    <3>. QED  BY <2>1, <3>2 DEF TypeOK, JobRow, JobStatus
  <2>3. proc[p].override = "job.timeout" =>
          \E k \in TasksOf(j) : task[k].status = "failed" /\ task[k].reason = "job.timeout"
    BY <2>1 DEF OverrideEarned, TimingOut, LostToTimeout
  <2>4. Lifecycle!Close(j)
    <3>1. PICK why : why = proc[p].override
      OBVIOUS
    <3>2. /\ why \in {Lifecycle!NoReason, "job.timeout"}
          /\ job' = [job EXCEPT ![j] =
                       Lifecycle!JobOutcome(Lifecycle!Statuses(j), why)]
          /\ Lifecycle!JobDone(Lifecycle!Statuses(j))
      BY <2>1, <3>1, SameRows, SameDone DEF Override, NoReason, Lifecycle!NoReason
    <3>3. why = "job.timeout" =>
            \E k \in Lifecycle!TasksOf(j) : task[k].status = "failed" /\ task[k].reason = why
      BY <2>3, <3>1, SameRows
    <3>. QED  BY <2>1, <2>2, <3>2, <3>3 DEF Lifecycle!Close
  <2>. QED  BY <2>1, <2>4 DEF Lifecycle!LifecycleNext
<1>2. CASE ~FinalizeClose(p)
  BY <1>2 DEF Finalize, FinalizeSkip, PublishFinal, PublishEnd
<1>. QED  BY <1>1, <1>2

LEMMA RunModuleLifecycle ==
  ASSUME TypeOK, EngineClaimed, NEW w \in Workers, RunModule(w)
  PROVE  [Lifecycle!LifecycleNext]_rows
<1>1. ASSUME NEW k \in Tasks,
             RunDuplicate(w, k) \/ RunCanceled(w, k) \/ RunRefused(w, k) \/ RunClaim(w, k)
      PROVE  [Lifecycle!LifecycleNext]_rows
  <2>1. UNCHANGED <<job, result>>
    BY <1>1 DEF RunDuplicate, RunCanceled, RunRefused, RunClaim, Take
  <2>2. CASE RunDuplicate(w, k)
    BY <2>1, <2>2 DEF RunDuplicate, rows
  <2>3. CASE RunCanceled(w, k)
    <3>1. Lifecycle!Cancel(k)
      BY <2>1, <2>3, SameRows, SameMove DEF RunCanceled, Claimable, Live, Lifecycle!Cancel
    <3>. QED  BY <3>1 DEF Lifecycle!LifecycleNext
  <2>4. CASE RunRefused(w, k)
    <3>1. Lifecycle!Refuse(k)
      BY <2>1, <2>4, SameMove DEF RunRefused, Claimable, Lifecycle!Refuse
    <3>. QED  BY <3>1 DEF Lifecycle!LifecycleNext
  <2>5. CASE RunClaim(w, k)
    <3>1. Lifecycle!Claim(k)
      BY <2>1, <2>5, SameMove DEF RunClaim, Claimable, Lifecycle!Claim
    <3>. QED  BY <3>1 DEF Lifecycle!LifecycleNext
  <2>. QED  BY <1>1, <2>2, <2>3, <2>4, <2>5
<1>2. ASSUME NEW k \in Tasks,
             \/ RunDropped(w, k) \/ RunCanceledLate(w, k)
             \/ RunFailed(w, k) \/ RunCompleted(w, k)
      PROVE  [Lifecycle!LifecycleNext]_rows
  <2>1. EngineEnds(w, k)
    BY <1>2 DEF RunDropped, RunCanceledLate, RunFailed, RunCompleted
  <2>2. job' = job
    BY <2>1 DEF EngineEnds
  <2>3. Recordable(k) => task[k].status = "running"
    BY <2>1 DEF EngineEnds, EngineClaimed, Recordable, TypeOK, TaskRow, TaskStatus
  <2>4. CASE RunDropped(w, k)
    BY <2>2, <2>4 DEF RunDropped, rows
  <2>5. CASE RunCanceledLate(w, k)
    <3>1. Lifecycle!Cancel(k)
      BY <2>2, <2>3, <2>5, SameRows, SameMove DEF RunCanceledLate, Live, Lifecycle!Cancel
    <3>. QED  BY <3>1 DEF Lifecycle!LifecycleNext
  <2>6. CASE RunFailed(w, k)
    <3>1. Lifecycle!Fail(k)
      BY <2>2, <2>3, <2>6, SameMove
         DEF RunFailed, Lifecycle!Fail, EngineFailure, Lifecycle!EngineFailure
    <3>. QED  BY <3>1 DEF Lifecycle!LifecycleNext
  <2>7. CASE RunCompleted(w, k)
    <3>1. Lifecycle!Complete(k)
      BY <2>2, <2>3, <2>7, SameMove
         DEF RunCompleted, Lifecycle!Complete, NoReason, Lifecycle!NoReason
    <3>. QED  BY <3>1 DEF Lifecycle!LifecycleNext
  <2>. QED  BY <1>2, <2>4, <2>5, <2>6, <2>7
<1>3. CASE RunAnnounce(w) \/ RunReport(w)
  BY <1>3 DEF RunAnnounce, RunReport
<1>. QED  BY <1>1, <1>2, <1>3 DEF RunModule

(***************************************************************************)
(* A sweep that finds live tasks finds their job running: it has a matrix, *)
(* and a closed job has none live.                                         *)
(***************************************************************************)
LEMMA ReapLifecycle ==
  ASSUME TypeOK, MatrixInv, NEW p \in Platform, Reap(p)
  PROVE  [Lifecycle!LifecycleNext]_rows
<1>0. p \in Proc /\ proc[p] \in Local
  BY DEF TypeOK, Proc
<1>1. CASE ReapExpire(p)
  <2>. DEFINE live(j) == {k \in TasksOf(j) : Live(k)}
  <2>0. proc[p].rest \in SUBSET Jobs /\ UNCHANGED <<job, result>>
    BY <1>0, <1>1, LocalFields DEF ReapExpire
  <2>1. PICK j \in proc[p].rest : Move(live(j), "failed", "job.timeout")
    BY <1>1 DEF ReapExpire
  <2>2. CASE live(j) = {}
    <3>1. task' = [k \in Tasks |-> task[k]]
      BY <2>1, <2>2 DEF Move
    <3>. QED  BY <2>0, <3>1 DEF rows, TypeOK
  <2>3. CASE live(j) # {}
    <3>1. PICK k \in TasksOf(j) : task[k].status \in {"queued", "running"}
      BY <2>3 DEF Live
    <3>2. job[j].status \notin {"absent", "queued"}
      BY <2>0, <3>1 DEF MatrixInv, MatrixWhole
    <3>3. job[j].status \notin TerminalJob
      BY <2>0, <3>1 DEF MatrixInv, SafetyInv, ClosedJobSettled, TerminalJob
    <3>4. job[j].status = "running"
      BY <2>0, <3>2, <3>3 DEF TypeOK, JobRow, JobStatus
    <3>5. live(j) = {i \in Lifecycle!TasksOf(j) : Lifecycle!Live(i)}
      BY SameRows
    <3>6. Lifecycle!Expire(j)
      BY <2>0, <2>1, <3>4, <3>5, SameMove DEF Lifecycle!Expire
    <3>. QED  BY <2>0, <3>6 DEF Lifecycle!LifecycleNext
  <2>. QED  BY <2>2, <2>3
<1>2. CASE ~ReapExpire(p)
  BY <1>2 DEF Reap, ReapRead, ReapRepublish, ReapReport
<1>. QED  BY <1>1, <1>2

LEMMA NextLifecycle ==
  ASSUME TypeOK, MatrixInv, FanoutSplit, LackingBlocked, OverrideEarned, [Next]_vars
  PROVE  [Lifecycle!LifecycleNext]_rows
<1>1. EngineClaimed
  BY DEF MatrixInv, SafetyInv
<1>2. CASE Client
  BY <1>2, ClientLifecycle
<1>3. ASSUME NEW p \in Platform, Heartbeat(p) PROVE UNCHANGED rows
  BY <1>3 DEF Heartbeat, HeartbeatRead, HeartbeatSend
<1>4. CASE Faults
  BY <1>4 DEF Faults, Restart, ReapError, LoseDispatch, LoseDelivery
<1>5. CASE Waiting \/ UNCHANGED vars
  BY <1>5 DEF Waiting, vars
<1>. QED
  BY <1>1, <1>2, <1>3, <1>4, <1>5, DispatchLifecycle, FinalizeLifecycle,
     RunModuleLifecycle, ReapLifecycle DEF Next, Counting

LEMMA FanoutSplitKept ==
  ASSUME SameModules, TypeOK, FanoutSplit, Step
  PROVE  FanoutSplit'
<1>. SUFFICES ASSUME NEW p \in Platform, proc'[p].at = "fanout"
              PROVE  /\ \A k \in proc'[p].send : ~Lacking(k)
                     /\ \A k \in proc'[p].block : Lacking(k)
  BY DEF FanoutSplit, Lacking
<1>1. ASSUME NEW k \in Tasks PROVE Lacking(k) <=> Declared(p, k) = NoQueue
  <2>1. roster[p] \in Images /\ TestOf[k] \in Tests
    BY PipelineAssumption DEF TypeOK, Proc
  <2>. QED  BY <2>1 DEF SameModules, Lacking, Declared
<1>2. ASSUME NEW j \in Jobs, DispatchRead(p, j)
      PROVE  /\ \A k \in proc'[p].send : ~Lacking(k)
             /\ \A k \in proc'[p].block : Lacking(k)
  BY <1>1, <1>2, ReadFacts DEF TasksOf
<1>3. CASE proc'[p] = proc[p]
  BY <1>3 DEF FanoutSplit
<1>. QED  BY <1>2, <1>3, FanoutSource

LEMMA LackingBlockedKept ==
  ASSUME TypeOK, FanoutSplit, LackingBlocked, Step,
         \A k \in Tasks : task[k].status \in TerminalTask => task'[k] = task[k]
  PROVE  LackingBlocked'
<1>. SUFFICES ASSUME NEW k \in Tasks, Lacking(k)
              PROVE  \/ task'[k].status = "absent"
                     \/ /\ task'[k].status = "blocked"
                        /\ task'[k].reason = "task.module_unavailable"
  BY DEF LackingBlocked, Lacking
<1>1. CASE task[k].status = "blocked"
  BY <1>1 DEF LackingBlocked, TerminalTask
<1>2. CASE task[k].status = "absent"
  <2>1. ASSUME NEW p \in Platform, DispatchCommit(p)
        PROVE  \/ task'[k] = task[k]
               \/ /\ task'[k].status = "blocked"
                  /\ task'[k].reason = "task.module_unavailable"
    <3>1. proc[p].at = "fanout" /\ k \notin proc[p].send
      BY <2>1 DEF DispatchCommit, FanoutSplit
    <3>2. \/ CreateTasks(proc[p].send, proc[p].block)
          \/ Move(proc[p].block, "blocked", "task.module_unavailable")
      BY <2>1 DEF DispatchCommit
    <3>3. CASE CreateTasks(proc[p].send, proc[p].block)
      BY <3>1, <3>3 DEF CreateTasks, NoTaskRow
    <3>4. CASE Move(proc[p].block, "blocked", "task.module_unavailable")
      BY <3>4 DEF Move, TypeOK, TaskRow
    <3>. QED  BY <3>2, <3>3, <3>4
  <2>2. ~Live(k)
    BY <1>2 DEF Live
  <2>. QED  BY <1>2, <2>1, <2>2 DEF Step, TaskStep
<1>. QED  BY <1>1, <1>2 DEF LackingBlocked

LEMMA TimeoutSource ==
  ASSUME TypeOK, Step, NEW p \in Proc, TimingOut(proc'[p])
  PROVE  proc'[p] = proc[p] \/ Expiring(p)
<1>0. proc'[p].at \in {"expired", "finalize"}
  BY DEF TimingOut
<1>1. ~FinalizeClose(p)
  BY <1>0, CloserFacts
<1>2. ~PublishFinal(p)
  BY <1>0, EnderFacts
<1>3. ASSUME p \in Platform, NEW j \in Jobs, DispatchRead(p, j) PROVE FALSE
  BY <1>0, <1>3 DEF DispatchRead, Goto, TypeOK
<1>4. ASSUME p \in Workers, RunAnnounce(p) PROVE FALSE
  BY <1>0, <1>4, AnnouncerFacts
<1>5. ASSUME p \in Workers, NEW k \in Tasks, RunClaim(p, k) PROVE FALSE
  <2>1. proc' = [proc EXCEPT ![p] = [at |-> "started", task |-> k]]
    BY <1>5, ClaimerFacts
  <2>. QED  BY <1>0, <2>1 DEF TypeOK
<1>6. ~Plain(proc'[p]) /\ ~Republishing(p)
  BY <1>0 DEF Plain, Republishing
<1>. QED  BY <1>1, <1>2, <1>3, <1>4, <1>5, <1>6 DEF Step, ProcStep

LEMMA OverrideEarnedKept ==
  ASSUME TypeOK, OverrideEarned, Step,
         \A k \in Tasks : task[k].status \in TerminalTask => task'[k] = task[k]
  PROVE  OverrideEarned'
<1>. SUFFICES ASSUME NEW p \in Proc, TimingOut(proc'[p]), NEW j, j = proc'[p].job
              PROVE  LostToTimeout(j)'
  BY DEF OverrideEarned, TimingOut, LostToTimeout, TasksOf
<1>1. LostToTimeout(j) => LostToTimeout(j)'
  BY DEF LostToTimeout, TasksOf, TerminalTask
<1>2. CASE TimingOut(proc[p]) /\ proc[p].job = j
  BY <1>1, <1>2 DEF OverrideEarned
<1>3. CASE LostToTimeout(proc[p].job)'
  BY <1>3 DEF LostToTimeout
<1>. QED  BY <1>2, <1>3, TimeoutSource DEF Expiring

LEMMA InitLifecycle == Init => LifecycleInv
<1>. SUFFICES ASSUME Init PROVE LifecycleInv
  OBVIOUS
<1>1. \A p \in Proc : proc[p].at = "idle"
  BY HelperAt DEF Init
<1>2. FanoutSplit /\ OverrideEarned
  BY <1>1 DEF FanoutSplit, OverrideEarned, TimingOut, Proc
<1>3. LackingBlocked /\ ResultIffCompleted /\ TimeoutEarned
  BY DEF Init, RowsInit, LackingBlocked, ResultIffCompleted, TimeoutEarned, NoJobRow,
         NoTaskRow, NoReason
<1>. QED  BY <1>2, <1>3, InitMatrix DEF LifecycleInv

LEMMA NextLifecycleInv ==
  ASSUME SameModules, LifecycleInv, [Next]_vars
  PROVE  LifecycleInv' /\ [Lifecycle!LifecycleNext]_rows
<1>1. MatrixInv' /\ Step /\ TypeOK /\ MatrixWhole
  BY NextMatrix DEF LifecycleInv, MatrixInv, SafetyInv
<1>2. [Lifecycle!LifecycleNext]_rows
  BY <1>1, NextLifecycle DEF LifecycleInv
<1>3. \A k \in Tasks : task[k].status \in TerminalTask => task'[k] = task[k]
  BY <1>1, <1>2, LifecycleFreezes DEF Frozen
<1>. QED
  BY <1>1, <1>2, <1>3, FanoutSplitKept, LackingBlockedKept, OverrideEarnedKept,
     ResultKept, TimeoutKept DEF LifecycleInv

(***************************************************************************)
(* While the deployed images agree on which tests of the catalog have a    *)
(* module, as they do at any commit, the pipeline with its processes,      *)
(* queues and transactions implements the abstract lifecycle, whatever is  *)
(* lost, duplicated or killed, and also where most tests have no module    *)
(* and their tasks are blocked.                                            *)
(***************************************************************************)
THEOREM LifecycleImplemented ==
  ASSUME SameModules
  PROVE  Spec => ImplementsLifecycle
<1>1. Init => Lifecycle!RowsInit
  BY DEF Init, RowsInit, Lifecycle!RowsInit, NoJobRow, Lifecycle!NoJobRow,
         NoTaskRow, Lifecycle!NoTaskRow, NoReason, Lifecycle!NoReason
<1>2. LifecycleInv /\ [Next]_vars => LifecycleInv'
  BY NextLifecycleInv
<1>3. LifecycleInv /\ [Next]_vars => [Lifecycle!LifecycleNext]_Lifecycle!rows
  BY NextLifecycleInv DEF rows, Lifecycle!rows
<1>. QED
  BY <1>1, <1>2, <1>3, InitLifecycle, PTL
  DEF Spec, ImplementsLifecycle, Lifecycle!LifecycleSpec

(***************************************************************************)
(* Under the same assumption a terminal task, a blocked one included, is   *)
(* never written again and never gains a result, by no late engine, sweep  *)
(* or second dispatch.                                                     *)
(***************************************************************************)
THEOREM TerminalTasksStayFrozen ==
  ASSUME SameModules
  PROVE  Spec => TerminalTaskFrozen
<1>1. LifecycleInv /\ [Next]_vars => LifecycleInv'
  BY NextLifecycleInv
<1>2. LifecycleInv /\ [Next]_vars =>
        [\A k \in Tasks : task[k].status \in TerminalTask =>
           task'[k] = task[k] /\ (k \in result' <=> k \in result)]_vars
  <2>. SUFFICES ASSUME LifecycleInv, [Next]_vars,
                       NEW k \in Tasks, task[k].status \in TerminalTask
                PROVE  Frozen(k)
    BY DEF Frozen
  <2>. QED
    BY NextLifecycleInv, LifecycleFreezes DEF LifecycleInv, MatrixInv, SafetyInv
<1>. QED  BY <1>1, <1>2, InitLifecycle, PTL DEF Spec, TerminalTaskFrozen

(***************************************************************************)
(* Under the same assumption the transaction that completes a task is the  *)
(* only one that leaves a result, and nothing separates the two later.     *)
(***************************************************************************)
THEOREM ResultsStayWithTasks ==
  ASSUME SameModules
  PROVE  Spec => []ResultIffCompleted
<1>1. LifecycleInv /\ [Next]_vars => LifecycleInv'
  BY NextLifecycleInv
<1>2. LifecycleInv => ResultIffCompleted
  BY DEF LifecycleInv
<1>. QED  BY <1>1, <1>2, InitLifecycle, PTL DEF Spec

(***************************************************************************)
(* Under the same assumption a job closed with the job-timeout reason lost *)
(* a task to the timeout, also when the sweep that failed it raced with    *)
(* the last finishers for the job row.                                     *)
(***************************************************************************)
THEOREM TimeoutsEarned ==
  ASSUME SameModules
  PROVE  Spec => []TimeoutEarned
<1>1. LifecycleInv /\ [Next]_vars => LifecycleInv'
  BY NextLifecycleInv
<1>2. LifecycleInv => TimeoutEarned
  BY DEF LifecycleInv
<1>. QED  BY <1>1, <1>2, InitLifecycle, PTL DEF Spec
=============================================================================
