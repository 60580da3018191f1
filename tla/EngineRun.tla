------------------------------ MODULE EngineRun ------------------------------
(***************************************************************************)
(* One call of modules/execution.py run_engine: the parent (the worker),   *)
(* the child process that imports and calls the engine, the one-way pipe   *)
(* from the child to the parent, and a program the engine may have started *)
(* (a helper), which lives in the child's process group.                   *)
(*                                                                         *)
(* A step is one system call of one process, or a stretch of a process     *)
(* that no other can see.  A message that does not fit in one write is in  *)
(* the pipe in part before it is there as a whole.  The budget is over at  *)
(* some moment, and so is the time a terminated child is given: clocks are *)
(* left out.  So is the branch for a malformed message: only               *)
(* _progress_writer and _child_main write to the pipe, and what they write *)
(* has the keys that run_engine reads.                                     *)
(***************************************************************************)
EXTENDS Integers, Sequences

CONSTANTS
  Lines,      \* the progress lines the engine writes, in order
  Errors,     \* what an engine error may say
  PipeRoom    \* messages the pipe holds before a writer blocks

(***************************************************************************)
(* An error begins with the type of the exception, what the parent says of *)
(* a silent child does not.                                                *)
(***************************************************************************)
ASSUME EngineAssumption ==
  PipeRoom \in Nat \ {0} /\ "exited without a result" \notin Errors

VARIABLES
  parent,     \* where run_engine is
  expired,    \* the budget is over
  shown,      \* the progress lines re-emitted
  outcome,    \* the EngineOutcome, or what was raised instead
  child,      \* where the child is, what it is writing, the signals it got
  written,    \* the messages the child has written as a whole
  pipe,       \* those of them the parent has not read
  torn,       \* part of a message is in the pipe
  helper      \* the program the engine started

engineVars == <<parent, expired, shown, outcome, child, written, pipe, torn, helper>>

Progress(line) == [kind |-> "progress", body |-> line]
Result == [kind |-> "result", body |-> "report"]
Failure(text) == [kind |-> "error", body |-> text]

NoOutcome == [kind |-> "none", body |-> "none"]
Overrun  == [kind |-> "timed_out", body |-> "overran its budget"]
Silent   == [kind |-> "error", body |-> "exited without a result"]
Broken   == [kind |-> "raised", body |-> "got end of file during message"]

Alive == child.at # "dead"

(***************************************************************************)
(* A process that got SIGKILL does nothing any more but die.               *)
(***************************************************************************)
Runs(at) == child.at = at /\ child.signal # "kill"

(***************************************************************************)
(* The pipe has something to say: data, or that its last writer is gone.   *)
(***************************************************************************)
Readable == pipe # <<>> \/ torn \/ child.at \in {"closed", "dead"}

EngineInit ==
  /\ parent = "loop"
  /\ expired = FALSE
  /\ shown = <<>>
  /\ outcome = NoOutcome
  /\ child = [at |-> "spawned", detached |-> FALSE, message |-> NoOutcome, signal |-> "none"]
  /\ written = <<>>
  /\ pipe = <<>>
  /\ torn = FALSE
  /\ helper = "none"

-----------------------------------------------------------------------------
(* The child: _child_main *)

ChildStep == UNCHANGED <<parent, expired, shown, outcome>>

(***************************************************************************)
(* setsid makes the child the leader of a group; it may fail.              *)
(***************************************************************************)
Detach ==
  /\ Runs("spawned")
  /\ \E detached \in BOOLEAN :
       child' = [child EXCEPT !.at = "engine", !.detached = detached]
  /\ ChildStep /\ UNCHANGED <<written, pipe, torn, helper>>

StartHelper ==
  /\ Runs("engine") /\ helper = "none"
  /\ helper' = "alive"
  /\ ChildStep /\ UNCHANGED <<child, written, pipe, torn>>

HelperExits ==
  /\ helper = "alive"
  /\ helper' = "dead"
  /\ ChildStep /\ UNCHANGED <<child, written, pipe, torn>>

(***************************************************************************)
(* The engine reports progress, or it ends: with a report, or with an      *)
(* exception (of its own, of the import, of a report that cannot be        *)
(* marshalled), which is rendered to one error line.                       *)
(***************************************************************************)
Writable == Len(pipe) < PipeRoom

BeginSend ==
  /\ Runs("engine") /\ Writable
  /\ \E message \in {Result}
                    \cup {Failure(text) : text \in Errors}
                    \cup {Progress(Lines[i]) : i \in {Len(written) + 1} \cap DOMAIN Lines} :
       child' = [child EXCEPT !.at = "sending", !.message = message]
  /\ torn' = TRUE
  /\ ChildStep /\ UNCHANGED <<written, pipe, helper>>

EndSend ==
  /\ Runs("sending")
  /\ child' = [child EXCEPT !.at = IF child.message.kind = "progress" THEN "engine"
                                                                     ELSE "closed",
                            !.message = NoOutcome]
  /\ written' = Append(written, child.message)
  /\ pipe' = Append(pipe, child.message)
  /\ torn' = FALSE
  /\ ChildStep /\ UNCHANGED helper

(***************************************************************************)
(* The child ends: by itself when all is said, by a fault of the engine or *)
(* of the machine at any moment, or by a signal.  What it had written in   *)
(* part stays in the pipe.                                                 *)
(***************************************************************************)
ChildDies ==
  /\ Alive
  /\ child' = [child EXCEPT !.at = "dead", !.message = NoOutcome]
  /\ ChildStep /\ UNCHANGED <<written, pipe, torn, helper>>

-----------------------------------------------------------------------------
(* The parent: the loop of run_engine *)

ParentStep == UNCHANGED <<expired, child, helper>>

BudgetEnds ==
  /\ ~expired /\ parent \in {"loop", "poll", "recv"}
  /\ expired' = TRUE
  /\ UNCHANGED <<parent, shown, outcome, child, written, pipe, torn, helper>>

Ends(how) == parent' = "reap" /\ outcome' = how

(***************************************************************************)
(* The head of the loop gives up on a spent budget, also with a message    *)
(* waiting.                                                                *)
(***************************************************************************)
LoopTimeout ==
  /\ parent = "loop" /\ expired
  /\ Ends(Overrun)
  /\ ParentStep /\ UNCHANGED <<shown, written, pipe, torn>>

LoopPoll ==
  /\ parent = "loop" /\ ~expired
  /\ parent' = "poll"
  /\ ParentStep /\ UNCHANGED <<shown, outcome, written, pipe, torn>>

PollReady ==
  /\ parent = "poll" /\ Readable
  /\ parent' = "recv"
  /\ ParentStep /\ UNCHANGED <<shown, outcome, written, pipe, torn>>

PollTimeout ==
  /\ parent = "poll" /\ ~Readable /\ expired
  /\ Ends(Overrun)
  /\ ParentStep /\ UNCHANGED <<shown, written, pipe, torn>>

(***************************************************************************)
(* recv waits for a whole message, however late.                           *)
(***************************************************************************)
Receive ==
  /\ parent = "recv" /\ pipe # <<>>
  /\ pipe' = Tail(pipe)
  /\ IF Head(pipe).kind = "progress"
       THEN /\ shown' = Append(shown, Head(pipe).body)
            /\ parent' = "loop"
            /\ UNCHANGED outcome
       ELSE /\ Ends(Head(pipe))
            /\ UNCHANGED shown
  /\ ParentStep /\ UNCHANGED <<written, torn>>

Hangup == parent = "recv" /\ pipe = <<>> /\ child.at \in {"closed", "dead"}

ReceiveEnd_Unread ==
  /\ parent = "recv" /\ child.at \in {"closed", "dead"}
  /\ Ends(Silent)
  /\ ParentStep /\ UNCHANGED <<shown, written, pipe, torn>>

(***************************************************************************)
(* The end of the pipe at the start of a message (or right after its       *)
(* length) is "exited without a result".                                   *)
(***************************************************************************)
ReceiveEnd ==
  /\ Hangup
  /\ Ends(Silent)
  /\ ParentStep /\ UNCHANGED <<shown, written, pipe, torn>>

(***************************************************************************)
(* In the middle of a message it is an OSError, which run_engine lets      *)
(* through when it has reaped the child.                                   *)
(***************************************************************************)
ReceiveTorn ==
  /\ Hangup /\ torn
  /\ Ends(Broken)
  /\ ParentStep /\ UNCHANGED <<shown, written, pipe, torn>>

-----------------------------------------------------------------------------
(* The parent: _reap *)

ReapStep == UNCHANGED <<expired, shown, outcome, written, pipe, torn>>

(***************************************************************************)
(* A signal to the group reaches the helper when the child leads the group *)
(* it lives in.  SIGKILL is not survived, SIGTERM may be.                  *)
(***************************************************************************)
SignalHelper(signal) ==
  IF child.detached /\ helper = "alive"
    THEN helper' \in IF signal = "kill" THEN {"dead"} ELSE {"alive", "dead"}
    ELSE UNCHANGED helper

ReapTerminate ==
  /\ parent = "reap" /\ Alive
  /\ SignalHelper("term")
  /\ child' = [child EXCEPT !.signal = "term"]
  /\ parent' = "grace"
  /\ ReapStep

ReapKill_TermAgain ==
  /\ parent = "grace" /\ Alive
  /\ SignalHelper("term")
  /\ child' = [child EXCEPT !.signal = "term"]
  /\ parent' = "join"
  /\ ReapStep

(***************************************************************************)
(* join(grace) returns when the child is dead, or when the time is over.   *)
(***************************************************************************)
ReapKill ==
  /\ parent = "grace" /\ Alive
  /\ SignalHelper("kill")
  /\ child' = [child EXCEPT !.signal = "kill"]
  /\ parent' = "join"
  /\ ReapStep

ReapJoin_Grace ==
  /\ parent \in {"reap", "grace", "join"}
  /\ parent' = "returned"
  /\ ReapStep /\ UNCHANGED <<child, helper>>

ReapJoin ==
  /\ parent \in {"reap", "grace", "join"} /\ ~Alive
  /\ parent' = "returned"
  /\ ReapStep /\ UNCHANGED <<child, helper>>

-----------------------------------------------------------------------------
RunEngine ==
  \/ LoopTimeout \/ LoopPoll \/ PollReady \/ PollTimeout
  \/ Receive \/ ReceiveEnd \/ ReceiveTorn
  \/ ReapTerminate \/ ReapKill \/ ReapJoin

ChildMain == Detach \/ BeginSend \/ EndSend \/ ChildDies

EngineNext ==
  \/ RunEngine
  \/ BudgetEnds
  \/ ChildMain
  \/ StartHelper \/ HelperExits
=============================================================================
