----------------------------- MODULE ModuleProofs -----------------------------
(***************************************************************************)
(* Theorems about ModuleRun, for any lines and errors of an engine, any    *)
(* pipe, any options and any reports.                                      *)
(***************************************************************************)
EXTENDS ModuleProperties, FiniteSetTheorems, TLAPS

(***************************************************************************)
(* The child is reaped: nothing brings a dead child back, a killed one     *)
(* starts nothing, and the signal that kills it kills its group.           *)
(***************************************************************************)
ChildRow == [at : {"spawned", "engine", "sending", "closed", "dead"}, detached : BOOLEAN,
             message : Message \cup {NoOutcome}, signal : {"none", "term", "kill"}]

ReapInv ==
  /\ child \in ChildRow
  /\ parent = "returned" => child.at = "dead"
  /\ child.signal = "kill" /\ child.detached => helper # "alive"

LEMMA ReapInit == Init => ReapInv
BY DEF Init, EngineInit, ReapInv, ChildRow

LEMMA ChildReap ==
  ASSUME ReapInv, ChildMain \/ StartHelper \/ HelperExits
  PROVE  ReapInv'
<1>1. CASE Detach
  BY <1>1 DEF Detach, Runs, ChildStep, ReapInv, ChildRow
<1>2. CASE BeginSend
  <2>1. PICK message \in Message : child' = [child EXCEPT !.at = "sending", !.message = message]
    BY <1>2 DEF BeginSend, Message
  <2>2. child' \in ChildRow /\ child'.at = "sending" /\ child'.signal = child.signal
        /\ child'.detached = child.detached
    BY <2>1 DEF ReapInv, ChildRow
  <2>. QED  BY <1>2, <2>2 DEF BeginSend, Runs, ChildStep, ReapInv
<1>3. CASE EndSend
  BY <1>3 DEF EndSend, Runs, ChildStep, ReapInv, ChildRow
<1>4. CASE ChildDies
  BY <1>4 DEF ChildDies, ChildStep, ReapInv, ChildRow
<1>5. CASE StartHelper \/ HelperExits
  BY <1>5 DEF StartHelper, HelperExits, Runs, ChildStep, ReapInv
<1>. QED  BY <1>1, <1>2, <1>3, <1>4, <1>5 DEF ChildMain

LEMMA ParentReap ==
  ASSUME ReapInv, RunEngine \/ BudgetEnds
  PROVE  ReapInv'
<1>1. CASE ReapTerminate
  BY <1>1 DEF ReapTerminate, SignalHelper, ReapInv, ChildRow
<1>2. CASE ReapKill
  BY <1>2 DEF ReapKill, SignalHelper, ReapInv, ChildRow
<1>3. CASE ReapJoin
  BY <1>3 DEF ReapJoin, Alive, ReapInv
<1>4. CASE LoopTimeout \/ LoopPoll \/ PollReady \/ PollTimeout \/ Receive \/ ReceiveEnd
           \/ ReceiveTorn
  BY <1>4 DEF LoopTimeout, LoopPoll, PollReady, PollTimeout, Receive, ReceiveEnd,
              ReceiveTorn, Ends, ParentStep, ReapInv
<1>5. CASE BudgetEnds
  BY <1>5 DEF BudgetEnds, ReapInv
<1>. QED  BY <1>1, <1>2, <1>3, <1>4, <1>5 DEF RunEngine

(* A step is one of the engine's, or leaves the engine alone. *)
LEMMA EngineOrNot ==
  ASSUME [Next]_vars
  PROVE  Engine \/ UNCHANGED engineVars
BY DEF Next, vars, RefuseTarget, RefuseOption, Configure, Spawn, Complete, RefuseReport,
       Fail, Done

LEMMA ReapStepKeeps ==
  ASSUME ReapInv, [Next]_vars
  PROVE  ReapInv'
<1>1. CASE Engine
  BY <1>1, ChildReap, ParentReap DEF Engine, EngineNext
<1>2. CASE UNCHANGED engineVars
  BY <1>2 DEF engineVars, ReapInv
<1>. QED  BY <1>1, <1>2, EngineOrNot

(***************************************************************************)
(* run_engine returns when its child is gone; and of a group that had to   *)
(* be killed nothing is left.                                              *)
(***************************************************************************)
THEOREM ChildAlwaysGone == Spec => []ChildGone
<1>1. ReapInv => ChildGone
  BY DEF ReapInv, ChildGone
<1>. QED  BY <1>1, ReapInit, ReapStepKeeps, PTL DEF Spec

-----------------------------------------------------------------------------
(***************************************************************************)
(* What was said.  The messages written are those the parent took and, in  *)
(* the same order, those in the pipe; the first that is no progress is the *)
(* last there is.                                                          *)
(***************************************************************************)
Final == {Result} \cup {Failure(text) : text \in Errors}

Ending(message) == message.kind # "progress"

Taken == IF outcome \in Final THEN Len(shown) + 1 ELSE Len(shown)

Spoken ==
  /\ written \in Seq(Message) /\ pipe \in Seq(Message)
  /\ shown \in Seq({message.body : message \in Message})
  /\ child.message \in Message \cup {NoOutcome}
  /\ child.at = "sending" => child.message \in Message

LastIsLast ==
  \A i \in 1 .. Len(written) : Ending(written[i]) =>
    i = Len(written) /\ child.at \in {"closed", "dead"}

ClosedSaid ==
  child.at = "closed" => written # <<>> /\ Ending(written[Len(written)])

InOrder ==
  /\ Len(written) = Taken + Len(pipe)
  /\ \A i \in 1 .. Len(pipe) : pipe[i] = written[Taken + i]
  /\ \A i \in 1 .. Len(shown) : shown[i] = written[i].body /\ ~Ending(written[i])

Outcomes == Final \cup {NoOutcome, Overrun, Silent, Broken}

OutcomeSaid ==
  /\ outcome \in Outcomes
  /\ parent \in {"loop", "poll", "recv"} => outcome = NoOutcome
  /\ outcome \in Final => Said(outcome) /\ Len(written) = Len(shown) + 1
  /\ outcome = Overrun => expired
  /\ outcome \in {Silent, Broken} =>
       child.at = "dead" /\ \A i \in 1 .. Len(written) : ~Ending(written[i])

SaidInv == Spoken /\ LastIsLast /\ ClosedSaid /\ InOrder /\ OutcomeSaid

(* The messages, and the outcomes that are none. *)
LEMMA Kinds ==
  /\ \A message \in Final : Ending(message) /\ message \in Message
  /\ \A message \in Message : Ending(message) => message \in Final
  /\ NoOutcome \notin Final /\ Overrun \notin Final /\ Broken \notin Final
  /\ Silent \notin Final
<1>1. Final \subseteq Message /\ \A message \in Final : Ending(message)
  BY DEF Final, Message, Ending, Result, Failure
<1>2. \A message \in Message : Ending(message) => message \in Final
  BY DEF Final, Message, Ending, Progress
<1>3. \A message \in Final : message.kind \in {"result", "error"}
                             /\ (message.kind = "error" => message.body \in Errors)
  BY DEF Final, Result, Failure
<1>4. NoOutcome.kind = "none" /\ Overrun.kind = "timed_out" /\ Broken.kind = "raised"
      /\ Silent.kind = "error" /\ Silent.body = "exited without a result"
  BY DEF NoOutcome, Overrun, Broken, Silent
<1>. QED  BY <1>1, <1>2, <1>3, <1>4, EngineAssumption

LEMMA SaidInit == Init => SaidInv
<1>1. Init => Taken = 0 /\ Len(written) = 0 /\ Len(pipe) = 0 /\ Len(shown) = 0
  BY Kinds DEF Init, EngineInit, Taken
<1>2. Init => Spoken
  BY DEF Init, EngineInit, Spoken
<1>3. Init => LastIsLast /\ ClosedSaid /\ InOrder
  BY <1>1 DEF Init, EngineInit, LastIsLast, ClosedSaid, InOrder
<1>4. Init => OutcomeSaid
  <2>1. NoOutcome \in Outcomes /\ NoOutcome \notin {Overrun, Silent, Broken}
    BY DEF Outcomes, NoOutcome, Overrun, Silent, Broken
  <2>. QED  BY <2>1, Kinds DEF Init, EngineInit, OutcomeSaid
<1>. QED  BY <1>2, <1>3, <1>4 DEF SaidInv

-----------------------------------------------------------------------------
(* Steps of the child *)

LEMMA SendKeeps ==
  ASSUME ReapInv, SaidInv, EndSend
  PROVE  SaidInv'
<1>. DEFINE m == child.message
<1>0. /\ child \in ChildRow /\ child.at = "sending" /\ m \in Message
      /\ UNCHANGED <<shown, outcome, parent, expired>>
      /\ written' = Append(written, m) /\ pipe' = Append(pipe, m)
      /\ written \in Seq(Message) /\ pipe \in Seq(Message)
  BY DEF EndSend, Runs, ChildStep, SaidInv, Spoken, ReapInv
<1>1. child'.at = (IF m.kind = "progress" THEN "engine" ELSE "closed")
      /\ child'.message = NoOutcome
  BY <1>0 DEF EndSend, ChildRow
<1>2. /\ Len(written') = Len(written) + 1 /\ Len(pipe') = Len(pipe) + 1
      /\ written'[Len(written) + 1] = m /\ pipe'[Len(pipe) + 1] = m
      /\ \A i \in 1 .. Len(written) : written'[i] = written[i]
      /\ \A i \in 1 .. Len(pipe) : pipe'[i] = pipe[i]
      /\ written' \in Seq(Message) /\ pipe' \in Seq(Message)
      /\ Len(written) \in Nat /\ Len(pipe) \in Nat
  BY <1>0
<1>3. \A i \in 1 .. Len(written) : ~Ending(written[i])
  BY <1>0 DEF SaidInv, LastIsLast
<1>4. Spoken'
  BY <1>0, <1>1, <1>2 DEF SaidInv, Spoken
<1>5. LastIsLast' /\ ClosedSaid'
  <2>1. written' # <<>> /\ written'[Len(written')] = m
    BY <1>2
  <2>2. \A i \in 1 .. Len(written') : i = Len(written') \/ ~Ending(written'[i])
    BY <1>2, <1>3
  <2>. QED  BY <1>1, <2>1, <2>2 DEF LastIsLast, ClosedSaid, Ending
<1>6. outcome \notin Final
  <2>. SUFFICES ASSUME outcome \in Final PROVE FALSE
    OBVIOUS
  <2>1. written # <<>> /\ written[Len(written)] = outcome
    BY DEF SaidInv, OutcomeSaid, Said
  <2>2. Len(written) \in 1 .. Len(written)
    BY <1>0, <2>1
  <2>. QED  BY <1>3, <2>1, <2>2, Kinds
<1>7. InOrder'
  <2>1. Taken' = Taken /\ Taken = Len(shown) /\ Len(shown) \in Nat
    BY <1>0, <1>6 DEF Taken, SaidInv, Spoken
  <2>2. /\ Len(written) = Len(shown) + Len(pipe)
        /\ \A i \in 1 .. Len(pipe) : pipe[i] = written[Len(shown) + i]
        /\ \A i \in 1 .. Len(shown) : shown[i] = written[i].body /\ ~Ending(written[i])
    BY <2>1 DEF SaidInv, InOrder
  <2>3. Len(written') = Len(shown) + Len(pipe')
    BY <1>2, <2>1, <2>2
  <2>4. \A i \in 1 .. Len(pipe') : pipe'[i] = written'[Len(shown) + i]
    <3>. TAKE i \in 1 .. Len(pipe')
    <3>1. CASE i = Len(pipe) + 1
      BY <1>2, <2>1, <2>2, <3>1
    <3>2. CASE i \in 1 .. Len(pipe)
      <4>1. Len(shown) + i \in 1 .. Len(written)
        BY <1>2, <2>1, <2>2, <3>2
      <4>. QED  BY <1>2, <2>2, <3>2, <4>1
    <3>. QED  BY <1>2, <3>1, <3>2
  <2>5. \A i \in 1 .. Len(shown) : shown[i] = written'[i].body /\ ~Ending(written'[i])
    <3>. TAKE i \in 1 .. Len(shown)
    <3>1. i \in 1 .. Len(written)
      BY <1>2, <2>1, <2>2
    <3>. QED  BY <1>2, <2>2, <3>1
  <2>. QED  BY <1>0, <2>1, <2>3, <2>4, <2>5 DEF InOrder
<1>8. OutcomeSaid'
  BY <1>0, <1>6 DEF SaidInv, OutcomeSaid
<1>. QED  BY <1>4, <1>5, <1>7, <1>8 DEF SaidInv

(* A step that says, takes and decides nothing. *)
Deciding == {"loop", "poll", "recv"}

LEMMA NothingSaid ==
  ASSUME ReapInv, SaidInv, UNCHANGED <<written, pipe, shown, outcome>>,
         parent' \in Deciding => parent \in Deciding, expired => expired',
         child.at = "dead" => child'.at = "dead",
         child.at = "closed" => child'.at \in {"closed", "dead"},
         child'.at = "closed" => child.at = "closed",
         child'.message \in Message \cup {NoOutcome},
         child'.at = "sending" => child'.message \in Message
  PROVE  SaidInv'
<1>1. Spoken' /\ InOrder'
  BY DEF SaidInv, Spoken, InOrder, Taken
<1>2. LastIsLast' /\ ClosedSaid'
  BY DEF SaidInv, LastIsLast, ClosedSaid
<1>3. OutcomeSaid'
  BY DEF SaidInv, OutcomeSaid, Said, Deciding
<1>. QED  BY <1>1, <1>2, <1>3 DEF SaidInv

LEMMA ChildSaid ==
  ASSUME ReapInv, SaidInv, ChildMain \/ StartHelper \/ HelperExits
  PROVE  SaidInv'
<1>0. /\ child \in ChildRow /\ child.message \in Message \cup {NoOutcome}
      /\ child.at = "sending" => child.message \in Message
  BY DEF ReapInv, SaidInv, Spoken
<1>1. CASE Detach
  <2>1. child.at = "spawned" /\ child'.at = "engine" /\ child'.message = child.message
    BY <1>0, <1>1 DEF Detach, Runs, ChildRow
  <2>. QED  BY <1>0, <1>1, <2>1, NothingSaid DEF Detach, ChildStep
<1>2. CASE BeginSend
  <2>1. PICK message \in Message :
          child' = [child EXCEPT !.at = "sending", !.message = message]
    BY <1>2 DEF BeginSend, Message
  <2>2. child.at = "engine" /\ child'.at = "sending" /\ child'.message = message
    BY <1>0, <1>2, <2>1 DEF BeginSend, Runs, ChildRow
  <2>. QED  BY <1>2, <2>2, NothingSaid DEF BeginSend, ChildStep
<1>3. CASE ChildDies
  <2>1. child'.at = "dead" /\ child'.message = NoOutcome
    BY <1>0, <1>3 DEF ChildDies, ChildRow
  <2>. QED  BY <1>3, <2>1, NothingSaid DEF ChildDies, ChildStep
<1>4. CASE StartHelper \/ HelperExits
  BY <1>0, <1>4, NothingSaid DEF StartHelper, HelperExits, ChildStep
<1>. QED  BY <1>1, <1>2, <1>3, <1>4, SendKeeps DEF ChildMain

-----------------------------------------------------------------------------
(* Steps of the parent *)

LEMMA QuietParent ==
  ASSUME ReapInv, SaidInv,
         LoopPoll \/ PollReady \/ ReapTerminate \/ ReapKill \/ ReapJoin \/ BudgetEnds
  PROVE  SaidInv'
<1>0. /\ child \in ChildRow /\ child.message \in Message \cup {NoOutcome}
      /\ child.at = "sending" => child.message \in Message
  BY DEF ReapInv, SaidInv, Spoken
<1>1. CASE LoopPoll \/ PollReady \/ ReapJoin \/ BudgetEnds
  BY <1>0, <1>1, NothingSaid
  DEF LoopPoll, PollReady, ReapJoin, ReapStep, BudgetEnds, ParentStep, Deciding
<1>2. CASE ReapTerminate \/ ReapKill
  <2>1. child'.at = child.at /\ child'.message = child.message
    BY <1>0, <1>2 DEF ReapTerminate, ReapKill, ChildRow
  <2>. QED  BY <1>0, <1>2, <2>1, NothingSaid DEF ReapTerminate, ReapKill, ReapStep, Deciding
<1>. QED  BY <1>1, <1>2

(* Before it decides the parent has taken what it shows. *)
LEMMA Undecided ==
  ASSUME SaidInv, parent \in Deciding
  PROVE  /\ outcome = NoOutcome /\ outcome \notin Final /\ Taken = Len(shown)
         /\ Len(shown) \in Nat /\ Len(pipe) \in Nat /\ Len(written) = Len(shown) + Len(pipe)
         /\ \A i \in 1 .. Len(pipe) : pipe[i] = written[Len(shown) + i]
         /\ \A i \in 1 .. Len(shown) : shown[i] = written[i].body /\ ~Ending(written[i])
<1>1. outcome = NoOutcome
  BY DEF SaidInv, OutcomeSaid, Deciding
<1>2. outcome \notin Final /\ Taken = Len(shown)
  BY <1>1, Kinds DEF Taken
<1>. QED  BY <1>1, <1>2 DEF SaidInv, InOrder, Spoken

(* An end that is no message takes none. *)
LEMMA EndsUnsaid ==
  ASSUME ReapInv, SaidInv, parent \in Deciding, NEW how \in {Overrun, Silent, Broken},
         Ends(how), UNCHANGED <<expired, child, shown, written, pipe>>,
         how = Overrun => expired,
         how # Overrun => child.at = "dead" /\ \A i \in 1 .. Len(written) : ~Ending(written[i])
  PROVE  SaidInv'
<1>1. how \in Outcomes /\ how \notin Final
  BY Kinds DEF Outcomes
<1>2. Taken' = Taken
  BY <1>1, Undecided DEF Taken, Ends
<1>3. Spoken' /\ LastIsLast' /\ ClosedSaid' /\ InOrder'
  BY <1>2 DEF SaidInv, Spoken, LastIsLast, ClosedSaid, InOrder
<1>4. Overrun.kind = "timed_out" /\ Silent.kind = "error" /\ Broken.kind = "raised"
  BY DEF Overrun, Silent, Broken
<1>5. OutcomeSaid'
  BY <1>1, <1>4 DEF Ends, OutcomeSaid
<1>. QED  BY <1>3, <1>5 DEF SaidInv

(* At the end of the pipe all was taken, and it was progress. *)
LEMMA EndOfPipe ==
  ASSUME ReapInv, SaidInv, Hangup
  PROVE  child.at = "dead" /\ \A i \in 1 .. Len(written) : ~Ending(written[i])
<1>1. parent \in Deciding /\ pipe = <<>> /\ child.at \in {"closed", "dead"}
  BY DEF Hangup, Deciding
<1>2. Len(written) = Len(shown) /\ \A i \in 1 .. Len(shown) : ~Ending(written[i])
  BY <1>1, Undecided
<1>3. child.at # "closed"
  <2>. SUFFICES ASSUME child.at = "closed" PROVE FALSE
    OBVIOUS
  <2>1. written \in Seq(Message) /\ written # <<>> /\ Ending(written[Len(written)])
    BY DEF SaidInv, Spoken, ClosedSaid
  <2>2. Len(written) \in 1 .. Len(written)
    BY <2>1
  <2>. QED  BY <1>2, <2>1, <2>2
<1>. QED  BY <1>1, <1>2, <1>3

LEMMA EndsSaid ==
  ASSUME ReapInv, SaidInv, LoopTimeout \/ PollTimeout \/ ReceiveEnd \/ ReceiveTorn
  PROVE  SaidInv'
<1>1. CASE LoopTimeout \/ PollTimeout
  BY <1>1, EndsUnsaid DEF LoopTimeout, PollTimeout, ParentStep, Deciding
<1>2. CASE ReceiveEnd \/ ReceiveTorn
  <2>1. Hangup /\ parent \in Deciding
    BY <1>2 DEF ReceiveEnd, ReceiveTorn, Hangup, Deciding
  <2>2. child.at = "dead" /\ \A i \in 1 .. Len(written) : ~Ending(written[i])
    BY <2>1, EndOfPipe
  <2>3. Ends(Silent) \/ Ends(Broken)
    BY <1>2 DEF ReceiveEnd, ReceiveTorn
  <2>4. Overrun.kind = "timed_out" /\ Silent.kind = "error" /\ Broken.kind = "raised"
    BY DEF Overrun, Silent, Broken
  <2>5. UNCHANGED <<expired, child, shown, written, pipe>>
    BY <1>2 DEF ReceiveEnd, ReceiveTorn, ParentStep
  <2>. QED  BY <2>1, <2>2, <2>3, <2>4, <2>5, EndsUnsaid
<1>. QED  BY <1>1, <1>2

LEMMA ReceiveSaid ==
  ASSUME ReapInv, SaidInv, Receive
  PROVE  SaidInv'
<1>. DEFINE m == Head(pipe)
            n == Len(shown) + 1
<1>0. /\ parent = "recv" /\ pipe # <<>> /\ pipe' = Tail(pipe)
      /\ UNCHANGED <<expired, child, written>>
      /\ pipe \in Seq(Message) /\ written \in Seq(Message)
      /\ shown \in Seq({message.body : message \in Message})
  BY DEF Receive, ParentStep, SaidInv, Spoken
<1>1. /\ outcome = NoOutcome /\ outcome \notin Final /\ Taken = Len(shown)
      /\ Len(shown) \in Nat /\ Len(pipe) \in Nat /\ Len(written) = Len(shown) + Len(pipe)
      /\ \A i \in 1 .. Len(pipe) : pipe[i] = written[Len(shown) + i]
      /\ \A i \in 1 .. Len(shown) : shown[i] = written[i].body /\ ~Ending(written[i])
  BY <1>0, Undecided DEF Deciding
<1>2. /\ m \in Message /\ m = written[n] /\ n \in 1 .. Len(written)
      /\ Tail(pipe) \in Seq(Message) /\ Len(Tail(pipe)) = Len(pipe) - 1
      /\ \A i \in 1 .. Len(Tail(pipe)) : Tail(pipe)[i] = pipe[i + 1]
  BY <1>0, <1>1
<1>3. \A i \in 1 .. Len(pipe') : pipe'[i] = written[n + i]
  BY <1>0, <1>1, <1>2
<1>4. LastIsLast' /\ ClosedSaid'
  BY <1>0 DEF SaidInv, LastIsLast, ClosedSaid
<1>5. CASE m.kind = "progress"
  <2>1. shown' = Append(shown, m.body) /\ parent' = "loop" /\ outcome' = outcome
    BY <1>5 DEF Receive
  <2>2. /\ Len(shown') = n /\ shown'[n] = m.body
        /\ \A i \in 1 .. Len(shown) : shown'[i] = shown[i]
        /\ shown' \in Seq({message.body : message \in Message})
    BY <1>0, <1>2, <2>1
  <2>3. Spoken'
    BY <1>0, <1>2, <2>2 DEF SaidInv, Spoken
  <2>4. InOrder'
    <3>1. Taken' = n
      BY <1>1, <2>1, <2>2 DEF Taken
    <3>2. \A i \in 1 .. n : shown'[i] = written[i].body /\ ~Ending(written[i])
      <4>. TAKE i \in 1 .. n
      <4>1. CASE i = n
        BY <1>2, <1>5, <2>2, <4>1 DEF Ending
      <4>2. CASE i \in 1 .. Len(shown)
        BY <1>1, <2>2, <4>2
      <4>. QED  BY <1>1, <4>1, <4>2
    <3>. QED  BY <1>0, <1>1, <1>2, <1>3, <2>2, <3>1, <3>2 DEF InOrder
  <2>5. OutcomeSaid'
    BY <1>0, <1>1, <2>1 DEF SaidInv, OutcomeSaid
  <2>. QED  BY <1>4, <2>3, <2>4, <2>5 DEF SaidInv
<1>6. CASE m.kind # "progress"
  <2>1. shown' = shown /\ parent' = "reap" /\ outcome' = m
    BY <1>6 DEF Receive, Ends
  <2>2. m \in Final
    BY <1>2, <1>6, Kinds DEF Ending
  <2>3. Taken' = n
    BY <2>1, <2>2 DEF Taken
  <2>4. n = Len(written)
    BY <1>2, <1>6 DEF SaidInv, LastIsLast, Ending
  <2>5. Spoken'
    BY <1>0, <1>2, <2>1 DEF SaidInv, Spoken
  <2>6. InOrder'
    BY <1>0, <1>1, <1>2, <1>3, <2>1, <2>3 DEF InOrder
  <2>7. OutcomeSaid'
    <3>1. m \in Outcomes /\ m \notin {Overrun, Silent, Broken}
      BY <2>2, Kinds DEF Outcomes
    <3>2. written # <<>>
      BY <1>2
    <3>3. written'[Len(written')] = m /\ written' # <<>>
      BY <1>0, <1>2, <2>4, <3>2
    <3>4. Len(written') = Len(shown') + 1
      BY <1>0, <2>1, <2>4
    <3>. QED  BY <2>1, <3>1, <3>3, <3>4 DEF OutcomeSaid, Said
  <2>. QED  BY <1>4, <2>5, <2>6, <2>7 DEF SaidInv
<1>. QED  BY <1>5, <1>6

-----------------------------------------------------------------------------
LEMMA SaidStep ==
  ASSUME ReapInv, SaidInv, [Next]_vars
  PROVE  SaidInv'
<1>1. CASE Engine
  BY <1>1, ChildSaid, QuietParent, EndsSaid, ReceiveSaid DEF Engine, EngineNext, RunEngine
<1>2. CASE UNCHANGED engineVars
  <2>1. /\ child.message \in Message \cup {NoOutcome}
        /\ child.at = "sending" => child.message \in Message
    BY DEF SaidInv, Spoken
  <2>. QED  BY <1>2, <2>1, NothingSaid DEF engineVars
<1>. QED  BY <1>1, <1>2, EngineOrNot

LEMMA SaidEarned == SaidInv => OutcomeEarned
<1>. SUFFICES ASSUME SaidInv PROVE OutcomeEarned
  OBVIOUS
<1>1. ASSUME outcome \in Message
      PROVE  Said(outcome) /\ shown = EarlierLines
  <2>0. Overrun.kind = "timed_out" /\ NoOutcome.kind = "none" /\ Broken.kind = "raised"
        /\ Silent.kind = "error" /\ Silent.body = "exited without a result"
    BY DEF Overrun, NoOutcome, Broken, Silent
  <2>1. \A message \in Message :
          /\ message.kind \in {"result", "error", "progress"}
          /\ message.kind = "error" => message.body \in Errors
    BY DEF Message, Result, Failure, Progress
  <2>2. outcome \in Final
    BY <1>1, <2>0, <2>1, EngineAssumption DEF SaidInv, OutcomeSaid, Outcomes
  <2>3. Said(outcome) /\ Ending(outcome)
    BY <2>2, Kinds DEF SaidInv, OutcomeSaid
  <2>4. /\ Len(written) = Len(shown) + 1 /\ Len(shown) \in Nat
        /\ \A i \in 1 .. Len(shown) : shown[i] = written[i].body
        /\ shown \in Seq({message.body : message \in Message})
    BY <2>2 DEF SaidInv, InOrder, OutcomeSaid, Spoken
  <2>5. shown = [i \in 1 .. Len(shown) |-> shown[i]]
    BY <2>4
  <2>. QED  BY <2>3, <2>4, <2>5 DEF EarlierLines
<1>2. outcome \in {Silent, Broken} => \A message \in Message : Said(message) =>
                                        message.kind = "progress"
  <2>. SUFFICES ASSUME outcome \in {Silent, Broken}, NEW message \in Message, Said(message)
                PROVE  message.kind = "progress"
    OBVIOUS
  <2>1. written \in Seq(Message) /\ \A i \in 1 .. Len(written) : ~Ending(written[i])
    BY DEF SaidInv, OutcomeSaid, Spoken
  <2>2. Len(written) \in 1 .. Len(written)
    BY <2>1 DEF Said
  <2>. QED  BY <2>1, <2>2 DEF Said, Ending
<1>. QED  BY <1>1, <1>2 DEF OutcomeEarned, SaidInv, OutcomeSaid

(***************************************************************************)
(* The outcome of run_engine is what happened in the child: a report or an *)
(* error that was written as a whole, after progress that was all shown; a *)
(* timeout only over budget; a silent end only of a child that said        *)
(* nothing, whenever it died and wherever a message was torn.              *)
(***************************************************************************)
THEOREM OutcomesEarned == Spec => []OutcomeEarned
<1>. DEFINE Inv == ReapInv /\ SaidInv
<1>1. Init => Inv
  BY ReapInit, SaidInit
<1>2. Inv /\ [Next]_vars => Inv'
  BY ReapStepKeeps, SaidStep
<1>3. Inv => OutcomeEarned
  BY SaidEarned
<1>. QED  BY <1>1, <1>2, <1>3, PTL DEF Spec

-----------------------------------------------------------------------------
(***************************************************************************)
(* The verdict.  Until the engine runs there is no outcome; when the run   *)
(* is done the verdict is drawn from the outcome, which stands.            *)
(***************************************************************************)
Fields == {"at", "module", "budget", "port", "verdict", "report", "findings"}

VerdictInv ==
  /\ run = [f \in Fields |-> run[f]]
  /\ run.at \in {"start", "configured", "engine", "done"}
  /\ run.at \in {"start", "configured"} => outcome = NoOutcome
  /\ run.at # "done" => run.verdict = "none"
  /\ run.at = "done" =>
       /\ run.verdict = "completed" => outcome = Result
       /\ run.verdict = "task.timeout" <=> outcome.kind # "raised" /\ SaysOverrun(outcome.body)

LEMMA KindsAndBodies ==
  /\ Result.kind = "result" /\ Result.body = "report"
  /\ NoOutcome.kind = "none" /\ NoOutcome.body = "none"
  /\ Overrun.kind = "timed_out" /\ Overrun.body = "overran its budget"
  /\ Silent.kind = "error" /\ Silent.body = "exited without a result"
  /\ Broken.kind = "raised"
  /\ \A text : Failure(text).kind = "error" /\ Failure(text).body = text
BY DEF Result, NoOutcome, Overrun, Silent, Broken, Failure

LEMMA NotOverrun ==
  ~SaysOverrun(NoOutcome.body) /\ ~SaysOverrun(Result.body)
BY DEF SaysOverrun, NoOutcome, Result

(* The last step of a run. *)
LEMMA VerdictDrawn ==
  ASSUME VerdictInv, OutcomeSaid, UNCHANGED engineVars,
         RefuseTarget \/ RefuseOption \/ Complete \/ RefuseReport \/ Fail
  PROVE  VerdictInv'
<1>0. run = [f \in Fields |-> run[f]] /\ outcome' = outcome /\ outcome \in Outcomes
  BY DEF VerdictInv, engineVars, OutcomeSaid
<1>1. outcome.kind = "result" => outcome = Result
  BY <1>0, KindsAndBodies DEF Outcomes, Final
<1>2. CASE RefuseTarget \/ RefuseOption
  <2>1. outcome = NoOutcome
    BY <1>2 DEF RefuseTarget, RefuseOption, VerdictInv
  <2>2. run'.at = "done" /\ run'.verdict \in {"task.invalid_input", "task.engine_error"}
        /\ run' = [f \in Fields |-> run'[f]]
    BY <1>0, <1>2 DEF RefuseTarget, RefuseOption, End, Fields
  <2>. QED  BY <1>0, <2>1, <2>2, NotOverrun DEF VerdictInv
<1>3. CASE Complete \/ RefuseReport
  <2>1. outcome = Result
    BY <1>1, <1>3 DEF Complete, RefuseReport
  <2>2. run'.at = "done" /\ run'.verdict \in {"task.invalid_input", "completed"}
        /\ run' = [f \in Fields |-> run'[f]]
    BY <1>0, <1>3 DEF Complete, RefuseReport, Fields
  <2>. QED  BY <1>0, <2>1, <2>2, NotOverrun DEF VerdictInv
<1>4. CASE Fail
  <2>1. run'.at = "done" /\ run'.verdict = Classify(outcome)
        /\ run' = [f \in Fields |-> run'[f]]
    BY <1>0, <1>4 DEF Fail, End, Fields
  <2>. QED  BY <1>0, <2>1 DEF VerdictInv, Classify
<1>. QED  BY <1>2, <1>3, <1>4

LEMMA VerdictStep ==
  ASSUME VerdictInv, OutcomeSaid, [Next]_vars
  PROVE  VerdictInv'
<1>1. CASE RefuseTarget \/ RefuseOption \/ Complete \/ RefuseReport \/ Fail
  <2>1. UNCHANGED engineVars
    BY <1>1 DEF RefuseTarget, RefuseOption, Complete, RefuseReport, Fail
  <2>. QED  BY <1>1, <2>1, VerdictDrawn
<1>2. CASE Engine
  BY <1>2 DEF Engine, VerdictInv
<1>3. CASE Configure
  <2>1. /\ run'.at = "configured" /\ run'.verdict = run.verdict
        /\ run' = [f \in Fields |-> run'[f]]
    BY <1>3 DEF Configure, VerdictInv, Fields
  <2>. QED  BY <1>3, <2>1 DEF Configure, engineVars, VerdictInv
<1>4. CASE Spawn
  <2>1. /\ run'.at = "engine" /\ run'.verdict = run.verdict
        /\ run' = [f \in Fields |-> run'[f]]
    BY <1>4 DEF Spawn, VerdictInv, Fields
  <2>. QED  BY <1>4, <2>1 DEF Spawn, VerdictInv
<1>5. CASE UNCHANGED vars
  BY <1>5 DEF vars, engineVars, VerdictInv
<1>. QED  BY <1>1, <1>2, <1>3, <1>4, <1>5 DEF Next, Done

LEMMA VerdictInit == Init => VerdictInv
<1>. SUFFICES ASSUME Init PROVE VerdictInv
  OBVIOUS
<1>1. PICK module \in Modules : run = Started(module)
  BY DEF Init
<1>2. run.at = "start" /\ run.verdict = "none" /\ run = [f \in Fields |-> run[f]]
  BY <1>1 DEF Started, Fields
<1>. QED  BY <1>2 DEF Init, EngineInit, VerdictInv

LEMMA VerdictIsEarned == VerdictInv /\ OutcomeSaid => VerdictEarned
<1>. SUFFICES ASSUME VerdictInv, OutcomeSaid, run.at = "done" PROVE
       /\ Completed => Said(Result)
       /\ outcome = Overrun <=>
            /\ run.verdict = "task.timeout"
            /\ \A text \in Errors : SaysOverrun(text) => outcome # Failure(text)
  BY DEF VerdictEarned
<1>1. Completed => Said(Result)
  BY DEF Completed, VerdictInv, OutcomeSaid, Final
<1>2. run.verdict = "task.timeout" <=> outcome.kind # "raised" /\ SaysOverrun(outcome.body)
  BY DEF VerdictInv
<1>3. CASE outcome \in {Result, NoOutcome, Overrun, Silent, Broken}
  <2>1. outcome = Overrun <=> outcome.kind # "raised" /\ SaysOverrun(outcome.body)
    BY <1>3, KindsAndBodies DEF SaysOverrun
  <2>2. outcome = Overrun => \A text \in Errors : outcome # Failure(text)
    BY KindsAndBodies
  <2>. QED  BY <1>1, <1>2, <2>1, <2>2
<1>4. ASSUME NEW text \in Errors, outcome = Failure(text)
      PROVE  outcome # Overrun /\ (SaysOverrun(outcome.body) <=> SaysOverrun(text))
  BY <1>4, KindsAndBodies
<1>5. outcome \in {Result, NoOutcome, Overrun, Silent, Broken}
      \/ \E text \in Errors : outcome = Failure(text)
  BY DEF OutcomeSaid, Outcomes, Final
<1>. QED  BY <1>1, <1>2, <1>3, <1>4, <1>5

(***************************************************************************)
(* A completed task had a whole report, an overrun budget is called a      *)
(* timeout, and nothing else is but an error that says so itself.          *)
(***************************************************************************)
THEOREM VerdictsEarned == Spec => []VerdictEarned
<1>. DEFINE Inv == ReapInv /\ SaidInv /\ VerdictInv
<1>1. Init => Inv
  BY ReapInit, SaidInit, VerdictInit
<1>2. Inv /\ [Next]_vars => Inv'
  BY ReapStepKeeps, SaidStep, VerdictStep DEF SaidInv
<1>3. Inv => VerdictEarned
  BY VerdictIsEarned DEF SaidInv
<1>. QED  BY <1>1, <1>2, <1>3, PTL DEF Spec

-----------------------------------------------------------------------------
(***************************************************************************)
(* The types.  What is not said above: where the parent and the helper     *)
(* are, and what the clamps make of the options.                           *)
(***************************************************************************)
Places ==
  /\ parent \in {"loop", "poll", "recv", "reap", "grace", "join", "returned"}
  /\ expired \in BOOLEAN /\ torn \in BOOLEAN
  /\ helper \in {"none", "alive", "dead"}

OptionsKept ==
  /\ run.module \in Modules
  /\ run.budget \in 0 .. MaxBudget
  /\ run.at = "configured" => run.budget > 0
  /\ run.port \in 0 .. MaxPort

(* Whatever an option is, what is made of it is within bounds. *)
LEMMA BudgetClamped ==
  ASSUME NEW module, NEW raw \in Options
  PROVE  ClampBudget(module, raw) \in 1 .. MaxBudget
<1>1. raw.value \in Int
  BY RunAssumption
<1>. QED  BY <1>1, RunAssumption DEF ClampBudget

LEMMA PortClamped ==
  ASSUME NEW raw
  PROVE  ClampPort(raw) \in 0 .. MaxPort
BY RunAssumption DEF ClampPort, NoPort

LEMMA PlacesStep ==
  ASSUME Places, [Next]_vars
  PROVE  Places'
<1>1. CASE ChildMain \/ StartHelper \/ HelperExits \/ BudgetEnds
  BY <1>1
  DEF ChildMain, Detach, BeginSend, EndSend, ChildDies, StartHelper, HelperExits, ChildStep,
      BudgetEnds, Places
<1>2. CASE \/ LoopTimeout \/ LoopPoll \/ PollReady \/ PollTimeout \/ Receive \/ ReceiveEnd
           \/ ReceiveTorn
  BY <1>2
  DEF LoopTimeout, LoopPoll, PollReady, PollTimeout, Receive, ReceiveEnd, ReceiveTorn, Ends,
      ParentStep, Places
<1>3. CASE ReapTerminate \/ ReapKill \/ ReapJoin
  <2>1. UNCHANGED <<expired, torn>> /\ parent' \in {"grace", "join", "returned"}
    BY <1>3 DEF ReapTerminate, ReapKill, ReapJoin, ReapStep
  <2>2. helper' \in {"none", "alive", "dead"}
    BY <1>3 DEF ReapTerminate, ReapKill, ReapJoin, SignalHelper, Places
  <2>. QED  BY <2>1, <2>2 DEF Places
<1>4. CASE UNCHANGED engineVars
  BY <1>4 DEF engineVars, Places
<1>. QED  BY <1>1, <1>2, <1>3, <1>4, EngineOrNot DEF Engine, EngineNext, RunEngine

LEMMA OptionsStep ==
  ASSUME VerdictInv, OptionsKept, [Next]_vars
  PROVE  OptionsKept'
<1>0. run = [f \in Fields |-> run[f]] /\ 0 \in 0 .. MaxBudget /\ 0 \in 0 .. MaxPort
  BY RunAssumption DEF VerdictInv
<1>1. CASE Configure
  <2>1. PICK budget, port \in Options :
          run' = [run EXCEPT !.at = "configured",
                             !.budget = ClampBudget(run.module, budget),
                             !.port = IF run.module = "pqc" THEN ClampPort(port) ELSE NoPort]
    BY <1>1 DEF Configure
  <2>2. ClampBudget(run.module, budget) \in 1 .. MaxBudget
    BY BudgetClamped
  <2>3. (IF run.module = "pqc" THEN ClampPort(port) ELSE NoPort) \in 0 .. MaxPort
    BY <1>0, PortClamped DEF NoPort
  <2>4. /\ run'.module = run.module /\ run'.budget = ClampBudget(run.module, budget)
        /\ run'.port = IF run.module = "pqc" THEN ClampPort(port) ELSE NoPort
    BY <1>0, <2>1 DEF Fields
  <2>. QED  BY <2>2, <2>3, <2>4, RunAssumption DEF OptionsKept
<1>2. CASE RefuseTarget \/ RefuseOption \/ Fail
  <2>1. run'.module = run.module /\ run'.budget = 0 /\ run'.port = 0 /\ run'.at = "done"
    BY <1>0, <1>2 DEF RefuseTarget, RefuseOption, Fail, End, Fields
  <2>. QED  BY <1>0, <2>1 DEF OptionsKept
<1>3. CASE Spawn
  <2>1. run'.module = run.module /\ run'.budget = 0 /\ run'.port = 0 /\ run'.at = "engine"
    BY <1>0, <1>3 DEF Spawn, Fields
  <2>. QED  BY <1>0, <2>1 DEF OptionsKept
<1>4. CASE Complete \/ RefuseReport
  <2>1. /\ run'.module = run.module /\ run'.budget = run.budget /\ run'.port = run.port
        /\ run'.at = "done"
    BY <1>0, <1>4 DEF Complete, RefuseReport, Fields
  <2>. QED  BY <2>1 DEF OptionsKept
<1>5. CASE Engine \/ UNCHANGED vars
  BY <1>5 DEF Engine, vars, OptionsKept
<1>. QED  BY <1>1, <1>2, <1>3, <1>4, <1>5 DEF Next, Done

(***************************************************************************)
(* Type correctness: whatever the options say, the engine is given a       *)
(* budget between nothing and the cap of its module, and a port that is    *)
(* one (clamp_budget, clamp_port).                                         *)
(***************************************************************************)
THEOREM TypeCorrect == Spec => []TypeOK
<1>. DEFINE Inv == ReapInv /\ SaidInv /\ VerdictInv /\ Places /\ OptionsKept
<1>1. Init => Inv
  <2>1. Init => Places
    BY DEF Init, EngineInit, Places
  <2>2. Init => OptionsKept
    BY RunAssumption DEF Init, Started, OptionsKept
  <2>. QED  BY <2>1, <2>2, ReapInit, SaidInit, VerdictInit
<1>2. Inv /\ [Next]_vars => Inv'
  BY ReapStepKeeps, SaidStep, VerdictStep, PlacesStep, OptionsStep DEF SaidInv
<1>3. Inv => TypeOK
  <2>. SUFFICES ASSUME Inv PROVE TypeOK
    OBVIOUS
  <2>1. outcome \in Message \cup {NoOutcome, Overrun, Silent, Broken}
    BY Kinds DEF SaidInv, OutcomeSaid, Outcomes
  <2>. QED
    BY <2>1 DEF ReapInv, ChildRow, SaidInv, Spoken, VerdictInv, Places, OptionsKept, TypeOK
<1>. QED  BY <1>1, <1>2, <1>3, PTL DEF Spec

-----------------------------------------------------------------------------
(***************************************************************************)
(* Counting.                                                               *)
(***************************************************************************)
OneToOne(f, S, T) ==
  /\ f \in [S -> T]
  /\ \A a, b \in S : f[a] = f[b] => a = b

Onto(f, S, T) == \A t \in T : \E s \in S : f[s] = t

LEMMA SameCount ==
  ASSUME NEW S, NEW T, NEW f, OneToOne(f, S, T), Onto(f, S, T), IsFiniteSet(S)
  PROVE  IsFiniteSet(T) /\ Cardinality(T) = Cardinality(S)
<1>1. f \in Bijection(S, T)
  BY DEF Bijection, Injection, Surjection, IsInjective, OneToOne, Onto
<1>2. ExistsBijection(S, T)
  BY <1>1 DEF ExistsBijection
<1>. QED  BY <1>2, FS_Bijection

LEMMA NoMore ==
  ASSUME NEW S, NEW T, NEW f, OneToOne(f, S, T), IsFiniteSet(T)
  PROVE  Cardinality(S) <= Cardinality(T) /\ Cardinality(S) \in Nat /\ Cardinality(T) \in Nat
<1>1. f \in Injection(S, T)
  BY DEF Injection, IsInjective, OneToOne
<1>2. IsFiniteSet(S) /\ Cardinality(S) <= Cardinality(T)
  BY <1>1, FS_Injection
<1>. QED  BY <1>2, FS_CardinalityType

LEMMA AllTaken ==
  ASSUME NEW S, NEW T, NEW f, OneToOne(f, S, T), IsFiniteSet(T), Cardinality(S) = Cardinality(T)
  PROVE  Onto(f, S, T)
<1>1. f \in Injection(S, T)
  BY DEF Injection, IsInjective, OneToOne
<1>2. f \in Surjection(S, T)
  BY <1>1, FS_Injection
<1>. QED  BY <1>2 DEF Surjection, Onto

LEMMA Indices ==
  ASSUME NEW n \in Nat
  PROVE  IsFiniteSet(1 .. n) /\ Cardinality(1 .. n) = n
<1>1. IsFiniteSet(1 .. n) /\ Cardinality(1 .. n) = IF 1 > n THEN 0 ELSE n - 1 + 1
  BY FS_Interval
<1>. QED  BY <1>1

(***************************************************************************)
(* The filter.                                                             *)
(***************************************************************************)
Rank(I, i) == Cardinality({j \in I : j <= i})
At(I, n) == CHOOSE i \in I : Rank(I, i) = n

LEMMA RankType ==
  ASSUME NEW I, IsFiniteSet(I), I \subseteq Int, NEW i \in I
  PROVE  Rank(I, i) \in 1 .. Cardinality(I)
<1>. DEFINE J == {j \in I : j <= i}
<1>1. J \in SUBSET I /\ i \in J
  OBVIOUS
<1>2. IsFiniteSet(J) /\ Cardinality(J) <= Cardinality(I)
  BY <1>1, FS_Subset
<1>3. Cardinality(J) \in Nat /\ Cardinality(I) \in Nat /\ Cardinality(J) # 0
  BY <1>1, <1>2, FS_CardinalityType, FS_EmptySet
<1>4. Rank(I, i) = Cardinality(J)
  BY DEF Rank
<1>. HIDE DEF J
<1>. QED  BY <1>2, <1>3, <1>4

LEMMA RankGrows ==
  ASSUME NEW I, IsFiniteSet(I), I \subseteq Int, NEW h \in I, NEW i \in I, h < i
  PROVE  Rank(I, h) # Rank(I, i)
<1>. DEFINE H == {j \in I : j <= h}
            J == {j \in I : j <= i}
<1>0. h \in Int /\ i \in Int /\ \A j \in I : j \in Int /\ (j <= h => j <= i)
  OBVIOUS
<1>1. H \in SUBSET J /\ J \in SUBSET I
  BY <1>0
<1>2. i \in J /\ i \notin H
  BY <1>0
<1>3. IsFiniteSet(J)
  BY <1>1, FS_Subset
<1>4. Cardinality(J) = Cardinality(H) => J = H
  BY <1>1, <1>3, FS_Subset
<1>5. Rank(I, h) = Cardinality(H) /\ Rank(I, i) = Cardinality(J)
  BY DEF Rank
<1>. HIDE DEF H, J
<1>. QED  BY <1>1, <1>2, <1>4, <1>5

LEMMA RankInjective ==
  ASSUME NEW I, IsFiniteSet(I), I \subseteq Int, NEW h \in I, NEW i \in I,
         Rank(I, h) = Rank(I, i)
  PROVE  h = i
<1>1. h < i \/ i < h \/ h = i
  OBVIOUS
<1>. QED  BY <1>1, RankGrows

LEMMA Ranked ==
  ASSUME NEW I, IsFiniteSet(I), I \subseteq Int
  PROVE  /\ Cardinality(I) \in Nat
         /\ \A n \in 1 .. Cardinality(I) : At(I, n) \in I /\ Rank(I, At(I, n)) = n
<1>. DEFINE rank == [i \in I |-> Rank(I, i)]
<1>1. Cardinality(I) \in Nat
  BY FS_CardinalityType
<1>2. OneToOne(rank, I, 1 .. Cardinality(I))
  BY RankType, RankInjective DEF OneToOne
<1>3. Onto(rank, I, 1 .. Cardinality(I))
  <2>. HIDE DEF rank
  <2>. QED  BY <1>1, <1>2, Indices, AllTaken
<1>4. ASSUME NEW n \in 1 .. Cardinality(I)
      PROVE  At(I, n) \in I /\ Rank(I, At(I, n)) = n
  <2>1. \E i \in I : Rank(I, i) = n
    BY <1>3 DEF Onto
  <2>. QED  BY <2>1 DEF At
<1>. QED  BY <1>1, <1>4

(***************************************************************************)
(* The order of the keys.                                                  *)
(***************************************************************************)
Keys == Int \X Int \X Int \X Int \X Int

LEMMA BeforeIs ==
  ASSUME NEW k \in Keys, NEW l \in Keys
  PROVE  Before(k, l) <=>
           \/ k[1] < l[1]
           \/ k[1] = l[1] /\ k[2] < l[2]
           \/ k[1] = l[1] /\ k[2] = l[2] /\ k[3] < l[3]
           \/ k[1] = l[1] /\ k[2] = l[2] /\ k[3] = l[3] /\ k[4] < l[4]
           \/ k[1] = l[1] /\ k[2] = l[2] /\ k[3] = l[3] /\ k[4] = l[4] /\ k[5] < l[5]
<1>1. DOMAIN k = {1, 2, 3, 4, 5}
  BY DEF Keys
<1>2. 1 .. 1 - 1 = {} /\ 1 .. 2 - 1 = {1} /\ 1 .. 3 - 1 = {1, 2} /\ 1 .. 4 - 1 = {1, 2, 3}
      /\ 1 .. 5 - 1 = {1, 2, 3, 4}
  OBVIOUS
<1>. DEFINE Wins(i) == k[i] < l[i] /\ \A h \in 1 .. i - 1 : k[h] = l[h]
<1>3. Before(k, l) <=> Wins(1) \/ Wins(2) \/ Wins(3) \/ Wins(4) \/ Wins(5)
  BY <1>1 DEF Before
<1>4. /\ Wins(1) <=> k[1] < l[1]
      /\ Wins(2) <=> k[1] = l[1] /\ k[2] < l[2]
      /\ Wins(3) <=> k[1] = l[1] /\ k[2] = l[2] /\ k[3] < l[3]
      /\ Wins(4) <=> k[1] = l[1] /\ k[2] = l[2] /\ k[3] = l[3] /\ k[4] < l[4]
      /\ Wins(5) <=> k[1] = l[1] /\ k[2] = l[2] /\ k[3] = l[3] /\ k[4] = l[4] /\ k[5] < l[5]
  BY <1>2
<1>. HIDE DEF Wins
<1>. QED  BY <1>3, <1>4

LEMMA BeforeOrders ==
  ASSUME NEW k \in Keys, NEW l \in Keys, NEW m \in Keys
  PROVE  /\ ~Before(k, k)
         /\ Before(k, l) /\ Before(l, m) => Before(k, m)
         /\ Before(k, l) \/ Before(l, k) \/ k = l
<1>1. /\ \A i \in 1 .. 5 : k[i] \in Int /\ l[i] \in Int /\ m[i] \in Int
      /\ (k[1] = l[1] /\ k[2] = l[2] /\ k[3] = l[3] /\ k[4] = l[4] /\ k[5] = l[5]) => k = l
  BY DEF Keys
<1>2. k[1] \in Int /\ k[2] \in Int /\ k[3] \in Int /\ k[4] \in Int /\ k[5] \in Int
  BY <1>1
<1>3. l[1] \in Int /\ l[2] \in Int /\ l[3] \in Int /\ l[4] \in Int /\ l[5] \in Int
  BY <1>1
<1>4. m[1] \in Int /\ m[2] \in Int /\ m[3] \in Int /\ m[4] \in Int /\ m[5] \in Int
  BY <1>1
<1>5. ~Before(k, k)
  BY <1>2, BeforeIs
<1>6. Before(k, l) /\ Before(l, m) => Before(k, m)
  BY <1>2, <1>3, <1>4, BeforeIs
<1>7. Before(k, l) \/ Before(l, k) \/ k = l
  BY <1>1, <1>2, <1>3, BeforeIs
<1>. QED  BY <1>5, <1>6, <1>7

(***************************************************************************)
(* The rows.                                                               *)
(***************************************************************************)
Segments == {Alphabet[i] : i \in DOMAIN Alphabet}

Rowable == [rule : Segments, detail : Segments, severity : Severity, resource : Int, text : Int]

LEMMA Positions ==
  /\ \A w \in Segments : Position(Alphabet, w) \in Int /\ Alphabet[Position(Alphabet, w)] = w
  /\ \A s \in Severity : Position(Bands, s) \in Int /\ Bands[Position(Bands, s)] = s
<1>1. DOMAIN Alphabet \subseteq Int
  BY AlphabetAssumption
<1>2. DOMAIN Bands = 1 .. 5
  BY DEF Bands
<1>3. \A w \in Segments : Position(Alphabet, w) \in DOMAIN Alphabet /\ Alphabet[Position(Alphabet, w)] = w
  BY DEF Segments, Position
<1>4. \A s \in Severity : Position(Bands, s) \in DOMAIN Bands /\ Bands[Position(Bands, s)] = s
  <2>. TAKE s \in Severity
  <2>1. \E i \in DOMAIN Bands : Bands[i] = s
    BY <1>2 DEF Severity
  <2>. QED  BY <2>1 DEF Position
<1>. QED  BY <1>1, <1>2, <1>3, <1>4

LEMMA KeyType ==
  ASSUME NEW f \in Rowable
  PROVE  OrderKey(f) \in Keys
<1>1. f.severity \in Severity /\ f.rule \in Segments /\ f.detail \in Segments
      /\ f.resource \in Int /\ f.text \in Int
  BY DEF Rowable
<1>. QED  BY <1>1, Positions DEF OrderKey, Keys

LEMMA KeyTells ==
  ASSUME NEW f \in Rowable, NEW g \in Rowable, OrderKey(f) = OrderKey(g)
  PROVE  f = g
<1>1. /\ f.severity \in Severity /\ f.rule \in Segments /\ f.detail \in Segments
      /\ g.severity \in Severity /\ g.rule \in Segments /\ g.detail \in Segments
  BY DEF Rowable
<1>2. /\ Position(Bands, f.severity) = Position(Bands, g.severity)
      /\ Position(Alphabet, f.rule) = Position(Alphabet, g.rule)
      /\ Position(Alphabet, f.detail) = Position(Alphabet, g.detail)
      /\ f.resource = g.resource /\ f.text = g.text
  BY DEF OrderKey
<1>3. f.severity = g.severity /\ f.rule = g.rule /\ f.detail = g.detail
  BY <1>1, <1>2, Positions
<1>. QED  BY <1>2, <1>3 DEF Rowable

Precedes(F, i, j) ==
  \/ Before(OrderKey(F[i]), OrderKey(F[j]))
  \/ OrderKey(F[i]) = OrderKey(F[j]) /\ i < j

Earlier(F, i) == {j \in DOMAIN F : Precedes(F, j, i)}
Place(F, i) == 1 + Cardinality(Earlier(F, i))
Slot(F, n) == CHOOSE i \in DOMAIN F : Place(F, i) = n

LEMMA RowsAre ==
  ASSUME NEW F
  PROVE  OrderFindings(F) = [n \in DOMAIN F |-> F[Slot(F, n)]]
BY DEF OrderFindings, Slot, Place, Earlier, Precedes

LEMMA PrecedesOrders ==
  ASSUME NEW n \in Nat, NEW F \in [1 .. n -> Rowable],
         NEW h \in 1 .. n, NEW i \in 1 .. n, NEW j \in 1 .. n
  PROVE  /\ ~Precedes(F, i, i)
         /\ Precedes(F, h, i) /\ Precedes(F, i, j) => Precedes(F, h, j)
         /\ Precedes(F, i, j) \/ Precedes(F, j, i) \/ i = j
<1>. DEFINE key(x) == OrderKey(F[x])
<1>1. key(h) \in Keys /\ key(i) \in Keys /\ key(j) \in Keys
  BY KeyType
<1>. HIDE DEF key
<1>2. \A x, y \in 1 .. n : Precedes(F, x, y) <=> Before(key(x), key(y)) \/ (key(x) = key(y) /\ x < y)
  BY DEF Precedes, key
<1>3. /\ ~Before(key(i), key(i))
      /\ Before(key(h), key(i)) /\ Before(key(i), key(j)) => Before(key(h), key(j))
      /\ Before(key(i), key(j)) \/ Before(key(j), key(i)) \/ key(i) = key(j)
  BY <1>1, BeforeOrders
<1>4. h \in Int /\ i \in Int /\ j \in Int
  OBVIOUS
<1>5. ~Precedes(F, i, i)
  BY <1>2, <1>3, <1>4
<1>6. Precedes(F, h, i) /\ Precedes(F, i, j) => Precedes(F, h, j)
  BY <1>2, <1>3, <1>4
<1>7. Precedes(F, i, j) \/ Precedes(F, j, i) \/ i = j
  BY <1>2, <1>3, <1>4
<1>. QED  BY <1>5, <1>6, <1>7

LEMMA EarlierFinite ==
  ASSUME NEW n \in Nat, NEW F \in [1 .. n -> Rowable], NEW i \in 1 .. n
  PROVE  /\ IsFiniteSet(Earlier(F, i)) /\ Cardinality(Earlier(F, i)) \in 0 .. n - 1
         /\ i \notin Earlier(F, i) /\ Earlier(F, i) \subseteq 1 .. n
<1>1. i \notin Earlier(F, i)
  BY PrecedesOrders DEF Earlier
<1>2. Earlier(F, i) \in SUBSET ((1 .. n) \ {i}) /\ Earlier(F, i) \subseteq 1 .. n
  BY <1>1 DEF Earlier
<1>3. IsFiniteSet((1 .. n) \ {i}) /\ Cardinality((1 .. n) \ {i}) = n - 1
  BY Indices, FS_RemoveElement
<1>4. IsFiniteSet(Earlier(F, i)) /\ Cardinality(Earlier(F, i)) <= n - 1
  BY <1>2, <1>3, FS_Subset
<1>5. Cardinality(Earlier(F, i)) \in Nat
  BY <1>4, FS_CardinalityType
<1>. QED  BY <1>1, <1>2, <1>4, <1>5

LEMMA PlaceType ==
  ASSUME NEW n \in Nat, NEW F \in [1 .. n -> Rowable], NEW i \in 1 .. n
  PROVE  Place(F, i) \in 1 .. n
<1>1. Cardinality(Earlier(F, i)) \in 0 .. n - 1
  BY EarlierFinite
<1>. QED  BY <1>1 DEF Place

LEMMA PlaceGrows ==
  ASSUME NEW n \in Nat, NEW F \in [1 .. n -> Rowable], NEW i \in 1 .. n, NEW j \in 1 .. n,
         Precedes(F, i, j)
  PROVE  Place(F, i) # Place(F, j)
<1>1. Earlier(F, i) \in SUBSET Earlier(F, j) /\ i \in Earlier(F, j)
  BY PrecedesOrders DEF Earlier
<1>2. i \notin Earlier(F, i)
  BY EarlierFinite
<1>3. IsFiniteSet(Earlier(F, j)) /\ Cardinality(Earlier(F, i)) \in Nat /\ Cardinality(Earlier(F, j)) \in Nat
  BY EarlierFinite
<1>4. Cardinality(Earlier(F, j)) # Cardinality(Earlier(F, i))
  BY <1>1, <1>2, <1>3, FS_Subset
<1>. QED  BY <1>3, <1>4 DEF Place

LEMMA Slots ==
  ASSUME NEW n \in Nat, NEW F \in [1 .. n -> Rowable]
  PROVE  /\ \A i, j \in 1 .. n : Place(F, i) = Place(F, j) => i = j
         /\ \A m \in 1 .. n : Slot(F, m) \in 1 .. n /\ Place(F, Slot(F, m)) = m
         /\ \A i \in 1 .. n : Place(F, i) \in 1 .. n
<1>. DEFINE place == [i \in 1 .. n |-> Place(F, i)]
<1>1. \A i, j \in 1 .. n : Place(F, i) = Place(F, j) => i = j
  BY PlaceGrows, PrecedesOrders
<1>2. OneToOne(place, 1 .. n, 1 .. n)
  BY <1>1, PlaceType DEF OneToOne
<1>3. Onto(place, 1 .. n, 1 .. n)
  <2>. HIDE DEF place
  <2>. QED  BY <1>2, Indices, AllTaken
<1>4. ASSUME NEW m \in 1 .. n
      PROVE  Slot(F, m) \in 1 .. n /\ Place(F, Slot(F, m)) = m
  <2>1. \E i \in 1 .. n : Place(F, i) = m
    BY <1>3 DEF Onto
  <2>. QED  BY <2>1 DEF Slot
<1>. QED  BY <1>1, <1>4, PlaceType

(***************************************************************************)
(* Two lists of findings that hold the same ones give the same rows.       *)
(***************************************************************************)
Shuffles(q, n, F, G) == OneToOne(q, 1 .. n, 1 .. n) /\ \A i \in 1 .. n : F[i] = G[q[i]]

LEMMA NotLater ==
  ASSUME NEW n \in Nat, NEW F \in [1 .. n -> Rowable], NEW G \in [1 .. n -> Rowable],
         NEW q, Shuffles(q, n, F, G), NEW a \in 1 .. n, NEW b \in 1 .. n,
         Place(F, a) = Place(G, b)
  PROVE  ~Before(OrderKey(F[a]), OrderKey(G[b]))
<1>. SUFFICES ASSUME Before(OrderKey(F[a]), OrderKey(G[b]))
              PROVE  FALSE
  OBVIOUS
<1>. DEFINE A == Earlier(F, a) \cup {a}
            B == Earlier(G, b)
            r == [i \in A |-> q[i]]
<1>1. /\ IsFiniteSet(Earlier(F, a)) /\ Cardinality(Earlier(F, a)) \in Nat
      /\ a \notin Earlier(F, a) /\ Earlier(F, a) \subseteq 1 .. n
  BY EarlierFinite
<1>2. IsFiniteSet(B) /\ Cardinality(B) \in Nat
  BY EarlierFinite
<1>3. Cardinality(A) = Place(F, a) /\ Place(G, b) = Cardinality(B) + 1
  <2>1. Cardinality(Earlier(F, a) \cup {a}) = Cardinality(Earlier(F, a)) + 1
    BY <1>1, FS_AddElement
  <2>2. Place(F, a) = 1 + Cardinality(Earlier(F, a)) /\ Place(G, b) = 1 + Cardinality(B)
    BY DEF Place
  <2>3. 1 + Cardinality(Earlier(F, a)) = Cardinality(Earlier(F, a)) + 1
    BY <1>1
  <2>4. 1 + Cardinality(B) = Cardinality(B) + 1
    BY <1>2
  <2>5. Cardinality(A) = Cardinality(Earlier(F, a)) + 1
    BY <2>1
  <2>. HIDE DEF A, B
  <2>. QED  BY <2>2, <2>3, <2>4, <2>5
<1>4. A \subseteq 1 .. n
  BY <1>1
<1>5. ASSUME NEW i \in A
      PROVE  q[i] \in B
  <2>1. i \in 1 .. n /\ q[i] \in 1 .. n /\ F[i] = G[q[i]]
    BY <1>4 DEF Shuffles, OneToOne
  <2>2. OrderKey(F[i]) \in Keys /\ OrderKey(F[a]) \in Keys /\ OrderKey(G[b]) \in Keys
    BY <2>1, KeyType
  <2>3. Before(OrderKey(F[i]), OrderKey(F[a])) \/ OrderKey(F[i]) = OrderKey(F[a])
    BY DEF Earlier, Precedes
  <2>4. Before(OrderKey(F[i]), OrderKey(G[b]))
    BY <2>2, <2>3, BeforeOrders
  <2>. QED  BY <2>1, <2>4 DEF Earlier, Precedes
<1>6. OneToOne(r, A, B)
  BY <1>4, <1>5 DEF OneToOne, Shuffles
<1>. HIDE DEF A, B, r
<1>7. Cardinality(A) <= Cardinality(B)
  BY <1>2, <1>6, NoMore
<1>. QED  BY <1>2, <1>3, <1>7

LEMMA ShuffledBack ==
  ASSUME NEW n \in Nat, NEW F, NEW G, NEW q, Shuffles(q, n, F, G)
  PROVE  \E r : Shuffles(r, n, G, F)
<1>. DEFINE r == [j \in 1 .. n |-> CHOOSE i \in 1 .. n : q[i] = j]
<1>0. OneToOne(q, 1 .. n, 1 .. n) /\ IsFiniteSet(1 .. n)
  BY Indices DEF Shuffles
<1>1. \A j \in 1 .. n : \E i \in 1 .. n : q[i] = j
  <2>1. Onto(q, 1 .. n, 1 .. n)
    BY <1>0, AllTaken
  <2>. QED  BY <2>1 DEF Onto
<1>2. \A j \in 1 .. n : r[j] \in 1 .. n /\ q[r[j]] = j
  BY <1>1
<1>3. r \in [1 .. n -> 1 .. n]
  BY <1>2
<1>. HIDE DEF r
<1>4. OneToOne(r, 1 .. n, 1 .. n)
  BY <1>2, <1>3 DEF OneToOne
<1>5. \A j \in 1 .. n : G[j] = F[r[j]]
  BY <1>2 DEF Shuffles
<1>. QED  BY <1>4, <1>5 DEF Shuffles

LEMMA SameRows ==
  ASSUME NEW n \in Nat, NEW F \in [1 .. n -> Rowable], NEW G \in [1 .. n -> Rowable],
         NEW q, Shuffles(q, n, F, G)
  PROVE  OrderFindings(F) = OrderFindings(G)
<1>1. ASSUME NEW m \in 1 .. n
      PROVE  F[Slot(F, m)] = G[Slot(G, m)]
  <2>. DEFINE a == Slot(F, m)
              b == Slot(G, m)
  <2>1. a \in 1 .. n /\ b \in 1 .. n /\ Place(F, a) = Place(G, b)
    BY Slots
  <2>. HIDE DEF a, b
  <2>2. PICK r : Shuffles(r, n, G, F)
    BY ShuffledBack
  <2>3. ~Before(OrderKey(F[a]), OrderKey(G[b]))
    BY <2>1, NotLater
  <2>4. ~Before(OrderKey(G[b]), OrderKey(F[a]))
    BY <2>1, <2>2, NotLater
  <2>5. F[a] \in Rowable /\ G[b] \in Rowable
    BY <2>1
  <2>6. OrderKey(F[a]) = OrderKey(G[b])
    BY <2>3, <2>4, <2>5, KeyType, BeforeOrders
  <2>7. F[a] = G[b]
    BY <2>5, <2>6, KeyTells
  <2>. QED  BY <2>7 DEF a, b
<1>. QED  BY <1>1, RowsAre

(***************************************************************************)
(* A filtered list, and the same list filtered after it was reordered.     *)
(***************************************************************************)
LEMMA AtRank ==
  ASSUME NEW I, IsFiniteSet(I), I \subseteq Int, NEW i \in I
  PROVE  Rank(I, i) \in 1 .. Cardinality(I) /\ At(I, Rank(I, i)) = i
<1>1. Rank(I, i) \in 1 .. Cardinality(I)
  BY RankType
<1>2. At(I, Rank(I, i)) \in I /\ Rank(I, At(I, Rank(I, i))) = Rank(I, i)
  BY <1>1, Ranked
<1>. QED  BY <1>1, <1>2, RankInjective

LEMMA Chosen ==
  ASSUME NEW n \in Nat, NEW I \in SUBSET (1 .. n)
  PROVE  IsFiniteSet(I) /\ I \subseteq Int /\ Cardinality(I) \in Nat
<1>1. IsFiniteSet(I)
  BY Indices, FS_Subset
<1>. QED  BY <1>1, FS_CardinalityType

Sources(p, n, I) == {i \in 1 .. n : p[i] \in I}

SamePicks(p, I, J) ==
  LET a == Cardinality(I)
  IN  /\ Cardinality(J) = a
      /\ \E q : /\ OneToOne(q, 1 .. a, 1 .. a)
                /\ \A k \in 1 .. a : At(J, k) \in J /\ At(I, q[k]) = p[At(J, k)]

LEMMA KeptShuffles ==
  ASSUME NEW n \in Nat, NEW I, I \in SUBSET (1 .. n), NEW p, OneToOne(p, 1 .. n, 1 .. n)
  PROVE  SamePicks(p, I, Sources(p, n, I))
<1>. DEFINE J == Sources(p, n, I)
            a == Cardinality(I)
            f == [i \in J |-> p[i]]
            q == [k \in 1 .. a |-> Rank(I, p[At(J, k)])]
<1>1. IsFiniteSet(I) /\ I \subseteq Int /\ a \in Nat
  BY Chosen
<1>2. J \in SUBSET (1 .. n) /\ \A i \in J : p[i] \in I
  BY DEF Sources
<1>3. IsFiniteSet(J) /\ J \subseteq Int /\ Cardinality(J) \in Nat
  BY <1>2, Chosen
<1>4. OneToOne(f, J, I)
  BY <1>2 DEF OneToOne
<1>5. Onto(f, J, I)
  <2>1. Onto(p, 1 .. n, 1 .. n)
    BY Indices, AllTaken
  <2>2. ASSUME NEW t \in I
        PROVE  \E s \in J : f[s] = t
    <3>1. PICK s \in 1 .. n : p[s] = t
      BY <2>1 DEF Onto
    <3>. QED  BY <3>1 DEF Sources
  <2>. QED  BY <2>2 DEF Onto
<1>6. Cardinality(J) = a
  <2>. HIDE DEF f
  <2>. QED  BY <1>3, <1>4, <1>5, SameCount
<1>7. \A k \in 1 .. a : At(J, k) \in J /\ Rank(J, At(J, k)) = k
  BY <1>3, <1>6, Ranked
<1>8. \A k \in 1 .. a : p[At(J, k)] \in I
  BY <1>2, <1>7
<1>9. \A k \in 1 .. a : q[k] \in 1 .. a /\ At(I, q[k]) = p[At(J, k)]
  BY <1>1, <1>8, AtRank
<1>10. q \in [1 .. a -> 1 .. a]
  BY <1>9
<1>11. ASSUME NEW k \in 1 .. a, NEW l \in 1 .. a, q[k] = q[l]
       PROVE  k = l
  <2>. HIDE DEF q
  <2>1. p[At(J, k)] = p[At(J, l)] /\ At(J, k) \in 1 .. n /\ At(J, l) \in 1 .. n
    BY <1>2, <1>7, <1>9, <1>11
  <2>2. At(J, k) = At(J, l)
    BY <2>1 DEF OneToOne
  <2>. QED  BY <1>7, <2>2
<1>12. OneToOne(q, 1 .. a, 1 .. a)
  <2>. HIDE DEF q
  <2>. QED  BY <1>10, <1>11 DEF OneToOne
<1>. HIDE DEF q
<1>. QED  BY <1>6, <1>7, <1>9, <1>12 DEF SamePicks

(***************************************************************************)
(* The findings of a report: the overall one, those of the items that are  *)
(* kept, and those of the leaf.                                            *)
(***************************************************************************)
Listing(X, a) == X = [k \in 1 .. a |-> X[k]]

Join(o, X, Y) == <<o>> \o X \o Y

IsJoin(F, o, X, a, Y, b) ==
  /\ Listing(F, 1 + a + b)
  /\ F[1] = o
  /\ \A k \in 1 .. a : F[1 + k] = X[k]
  /\ \A k \in 1 .. b : F[1 + a + k] = Y[k]

LEMMA Joined ==
  ASSUME NEW o, NEW a \in Nat, NEW X, Listing(X, a), NEW b \in Nat, NEW Y, Listing(Y, b)
  PROVE  IsJoin(Join(o, X, Y), o, X, a, Y, b)
<1>. DEFINE S == {X[k] : k \in 1 .. a}
            T == {Y[k] : k \in 1 .. b}
            U == {o} \cup S \cup T
<1>1. X \in [1 .. a -> S] /\ Y \in [1 .. b -> T]
  BY DEF Listing
<1>2. <<o>> \in Seq(U) /\ X \in Seq(U) /\ Y \in Seq(U)
  <2>1. X \in [1 .. a -> U] /\ Y \in [1 .. b -> U] /\ <<o>> \in [1 .. 1 -> U]
    BY <1>1
  <2>. HIDE DEF U
  <2>. QED  BY <2>1
<1>3. Len(<<o>>) = 1 /\ Len(X) = a /\ Len(Y) = b
  BY <1>1
<1>. HIDE DEF S, T, U
<1>. DEFINE H == <<o>> \o X
<1>4. H \in Seq(U) /\ Len(H) = 1 + a /\ H[1] = o /\ \A k \in 1 .. a : H[1 + k] = X[k]
  BY <1>2, <1>3
<1>. HIDE DEF H
<1>5. H \o Y \in Seq(U) /\ Len(H \o Y) = 1 + a + b
  BY <1>2, <1>3, <1>4
<1>6. \A i \in 1 .. 1 + a : (H \o Y)[i] = H[i]
  BY <1>2, <1>3, <1>4
<1>7. \A k \in 1 .. b : (H \o Y)[1 + a + k] = Y[k]
  <2>1. \A k \in 1 .. Len(Y) : (H \o Y)[Len(H) + k] = Y[k]
    BY <1>2, <1>4
  <2>. QED  BY <1>3, <1>4, <2>1
<1>8. (H \o Y) \in [1 .. 1 + a + b -> U]
  <2>. DEFINE F == H \o Y
  <2>1. F \in Seq(U) /\ Len(F) = 1 + a + b
    BY <1>5
  <2>. HIDE DEF F
  <2>2. F \in [1 .. Len(F) -> U]
    BY <2>1
  <2>3. F \in [1 .. 1 + a + b -> U]
    BY <2>1, <2>2
  <2>. QED  BY <2>3 DEF F
<1>9. (H \o Y)[1] = o /\ \A k \in 1 .. a : (H \o Y)[1 + k] = X[k]
  BY <1>4, <1>6
<1>10. Join(o, X, Y) = H \o Y
  BY DEF Join, H
<1>11. Listing(H \o Y, 1 + a + b)
  <2>. DEFINE F == H \o Y
  <2>1. F \in [1 .. 1 + a + b -> U]
    BY <1>8
  <2>. HIDE DEF F
  <2>2. F = [k \in 1 .. 1 + a + b |-> F[k]]
    BY <2>1
  <2>. QED  BY <2>2 DEF Listing, F
<1>. QED  BY <1>7, <1>9, <1>10, <1>11 DEF IsJoin

Overall(module, report) ==
  IF module = "dnssec"
  THEN Finding("chain_of_trust", "",
               MapSeverity(ChainvalidatorStatus, ChainStatus(report, "error")),
               report.domain, report.text)
  ELSE Finding("readiness", "",
               MapSeverity(QuantumvalidatorStatus, ChainStatus(report, "unsafe")),
               report.target, report.text)

Listed(module, report) == IF module = "dnssec" THEN report.chain ELSE report.checks

Picked(module, items) == IF module = "dnssec" THEN NotSecure(items) ELSE Flagged(items)

ItemFinding(module, report, item) ==
  IF module = "dnssec" THEN LinkFinding("delegation", item) ELSE CheckFinding(item, report.target)

ItemFindings(module, report) ==
  LET items == Listed(module, report)
      I == Picked(module, items)
  IN  [k \in 1 .. Cardinality(I) |-> ItemFinding(module, report, items[At(I, k)])]

LeafFindings(module, report) ==
  IF module = "dnssec"
  THEN [k \in 1 .. Cardinality(NotSecure(report.leaf)) |->
          LinkFinding("leaf", report.leaf[At(NotSecure(report.leaf), k)])]
  ELSE <<>>

Shape(module, report) ==
  Join(Overall(module, report), ItemFindings(module, report), LeafFindings(module, report))

LEMMA PickedType ==
  ASSUME NEW S, NEW items \in Seq(S), NEW module
  PROVE  /\ Picked(module, items) \in SUBSET (1 .. Len(items))
         /\ NotSecure(items) \in SUBSET (1 .. Len(items))
         /\ IsFiniteSet(Picked(module, items)) /\ Picked(module, items) \subseteq Int
         /\ Cardinality(Picked(module, items)) \in Nat
         /\ Cardinality(NotSecure(items)) \in Nat
<1>1. DOMAIN items = 1 .. Len(items) /\ Len(items) \in Nat
  OBVIOUS
<1>2. NotSecure(items) \in SUBSET (1 .. Len(items)) /\ Flagged(items) \in SUBSET (1 .. Len(items))
  BY <1>1 DEF NotSecure, Flagged
<1>3. Picked(module, items) \in SUBSET (1 .. Len(items))
  BY <1>2 DEF Picked
<1>. QED  BY <1>1, <1>2, <1>3, Chosen

LEMMA KeptAt ==
  ASSUME NEW items, NEW I
  PROVE  Kept(items, I) = [k \in 1 .. Cardinality(I) |-> items[At(I, k)]]
BY DEF Kept, At, Rank

LEMMA NormalizeShape ==
  ASSUME NEW module, NEW report, NEW S, Listed(module, report) \in Seq(S)
  PROVE  Normalize(module, report) = Shape(module, report)
<1>. DEFINE items == Listed(module, report)
            I == Picked(module, items)
<1>1. Cardinality(I) \in Nat
  BY PickedType
<1>2. CASE module = "dnssec"
  <2>1. /\ Overall(module, report) =
             Finding("chain_of_trust", "",
                     MapSeverity(ChainvalidatorStatus, ChainStatus(report, "error")),
                     report.domain, report.text)
        /\ items = report.chain /\ I = NotSecure(report.chain)
    BY <1>2 DEF Overall, Listed, Picked
  <2>2. LeafFindings(module, report) =
          [k \in 1 .. Cardinality(NotSecure(report.leaf)) |->
             LinkFinding("leaf", report.leaf[At(NotSecure(report.leaf), k)])]
    BY <1>2 DEF LeafFindings
  <2>3. ItemFindings(module, report) =
          [k \in 1 .. Cardinality(NotSecure(report.chain)) |->
             LinkFinding("delegation", report.chain[At(NotSecure(report.chain), k)])]
    BY <1>2, <2>1 DEF ItemFindings, ItemFinding
  <2>4. LET broken == Kept(report.chain, NotSecure(report.chain))
            leaves == Kept(report.leaf, NotSecure(report.leaf))
        IN  /\ [i \in DOMAIN broken |-> LinkFinding("delegation", broken[i])]
                 = ItemFindings(module, report)
            /\ [i \in DOMAIN leaves |-> LinkFinding("leaf", leaves[i])]
                 = LeafFindings(module, report)
    BY <2>2, <2>3, KeptAt
  <2>5. Normalize(module, report) = NormalizeDnssec(report)
    BY <1>2 DEF Normalize
  <2>. QED  BY <2>1, <2>4, <2>5 DEF NormalizeDnssec, Shape, Join
<1>3. CASE module # "dnssec"
  <2>1. /\ Overall(module, report) =
             Finding("readiness", "",
                     MapSeverity(QuantumvalidatorStatus, ChainStatus(report, "unsafe")),
                     report.target, report.text)
        /\ items = report.checks /\ I = Flagged(report.checks)
        /\ LeafFindings(module, report) = <<>>
    BY <1>3 DEF Overall, Listed, Picked, LeafFindings
  <2>2. ItemFindings(module, report) =
          [k \in 1 .. Cardinality(Flagged(report.checks)) |->
             CheckFinding(report.checks[At(Flagged(report.checks), k)], report.target)]
    BY <1>3, <2>1 DEF ItemFindings, ItemFinding
  <2>3. LET flagged == Kept(report.checks, Flagged(report.checks))
        IN  [i \in DOMAIN flagged |-> CheckFinding(flagged[i], report.target)]
              = ItemFindings(module, report)
    BY <2>2, KeptAt
  <2>4. Normalize(module, report) = NormalizePqc(report)
    BY <1>3 DEF Normalize
  <2>5. Normalize(module, report) = <<Overall(module, report)>> \o ItemFindings(module, report)
    BY <2>1, <2>3, <2>4 DEF NormalizePqc
  <2>6. ItemFindings(module, report) \in
          [1 .. Cardinality(I) -> {ItemFindings(module, report)[k] : k \in 1 .. Cardinality(I)}]
    BY DEF ItemFindings
  <2>7. <<Overall(module, report)>> \o ItemFindings(module, report) \o <<>>
          = <<Overall(module, report)>> \o ItemFindings(module, report)
    <3>. DEFINE o == Overall(module, report)
                X == ItemFindings(module, report)
                U == {o} \cup {X[k] : k \in 1 .. Cardinality(I)}
    <3>1. X \in [1 .. Cardinality(I) -> U] /\ o \in U
      BY <2>6
    <3>. HIDE DEF o, X, U, I
    <3>2. X \in Seq(U) /\ <<o>> \in Seq(U)
      BY <1>1, <3>1
    <3>3. <<o>> \o X \in Seq(U)
      BY <3>2
    <3>4. (<<o>> \o X) \o <<>> = <<o>> \o X
      BY <3>3
    <3>. QED  BY <3>4 DEF o, X
  <2>. QED  BY <2>1, <2>5, <2>7 DEF Shape, Join
<1>. QED  BY <1>2, <1>3

(***************************************************************************)
(* The same report, its items in another order.                            *)
(***************************************************************************)
Scanning == {"dnssec", "pqc"}
ItemRow(module) == IF module = "dnssec" THEN Links ELSE Checks

LEMMA ReportParts ==
  ASSUME NEW module \in Scanning, NEW report \in ReportsOf(module)
  PROVE  /\ Listed(module, report) \in Seq(ItemRow(module))
         /\ module = "dnssec" => report.leaf \in Seq(Links)
         /\ report.text \in Int
         /\ IF module = "dnssec" THEN report.domain \in Int ELSE report.target \in Int
BY ReportAssumption DEF Scanning, ReportsOf, Listed, ItemRow

Moved(items, p) == [i \in DOMAIN items |-> items[p[i]]]

LEMMA ReorderedParts ==
  ASSUME run.module \in Scanning, NEW report \in ReportsOf(run.module), NEW p
  PROVE  LET other == Reordered(report, p)
             items == Listed(run.module, report)
         IN  /\ Overall(run.module, other) = Overall(run.module, report)
             /\ LeafFindings(run.module, other) = LeafFindings(run.module, report)
             /\ Listed(run.module, other) = Moved(items, p)
             /\ \A x : ItemFinding(run.module, other, x) = ItemFinding(run.module, report, x)
<1>1. CASE run.module = "dnssec"
  <2>. DEFINE other == [report EXCEPT !.chain = [i \in DOMAIN report.chain |-> report.chain[p[i]]]]
  <2>1. Reordered(report, p) = other
    BY <1>1 DEF Reordered, Items
  <2>2. report \in [status : STRING, domain : Int, text : Int, chain : Seq(Links), leaf : Seq(Links)]
    BY <1>1, ReportAssumption DEF ReportsOf
  <2>3. /\ other.status = report.status /\ other.domain = report.domain
        /\ other.text = report.text /\ other.leaf = report.leaf
        /\ other.chain = [i \in DOMAIN report.chain |-> report.chain[p[i]]]
    BY <2>2
  <2>. HIDE DEF other
  <2>4. Overall(run.module, other) = Overall(run.module, report)
    BY <1>1, <2>3 DEF Overall, ChainStatus
  <2>5. LeafFindings(run.module, other) = LeafFindings(run.module, report)
    BY <1>1, <2>3 DEF LeafFindings
  <2>6. /\ Listed(run.module, other) = other.chain /\ Listed(run.module, report) = report.chain
        /\ \A x : ItemFinding(run.module, other, x) = ItemFinding(run.module, report, x)
    BY <1>1 DEF Listed, ItemFinding
  <2>. QED  BY <2>1, <2>3, <2>4, <2>5, <2>6 DEF Moved
<1>2. CASE run.module = "pqc"
  <2>. DEFINE other == [report EXCEPT !.checks = [i \in DOMAIN report.checks |-> report.checks[p[i]]]]
  <2>1. Reordered(report, p) = other
    BY <1>2 DEF Reordered, Items
  <2>2. report \in [status : STRING, target : Int, text : Int, checks : Seq(Checks)]
    BY <1>2, ReportAssumption DEF ReportsOf
  <2>3. /\ other.status = report.status /\ other.target = report.target /\ other.text = report.text
        /\ other.checks = [i \in DOMAIN report.checks |-> report.checks[p[i]]]
    BY <2>2
  <2>. HIDE DEF other
  <2>4. Overall(run.module, other) = Overall(run.module, report)
    BY <1>2, <2>3 DEF Overall, ChainStatus
  <2>5. LeafFindings(run.module, other) = LeafFindings(run.module, report)
    BY <1>2 DEF LeafFindings
  <2>6. /\ Listed(run.module, other) = other.checks /\ Listed(run.module, report) = report.checks
        /\ \A x : ItemFinding(run.module, other, x) = ItemFinding(run.module, report, x)
    BY <1>2, <2>3 DEF Listed, ItemFinding
  <2>. QED  BY <2>1, <2>3, <2>4, <2>5, <2>6 DEF Moved
<1>. QED  BY <1>1, <1>2 DEF Scanning

LEMMA ReorderedPicked ==
  ASSUME NEW module, NEW S, NEW items \in Seq(S), NEW n, n = Len(items),
         NEW p, OneToOne(p, 1 .. n, 1 .. n)
  PROVE  /\ Picked(module, Moved(items, p)) = Sources(p, n, Picked(module, items))
         /\ Moved(items, p) \in Seq(S)
<1>. DEFINE other == Moved(items, p)
<1>1. DOMAIN items = 1 .. n /\ n \in Nat /\ DOMAIN other = 1 .. n
      /\ \A i \in 1 .. n : other[i] = items[p[i]] /\ p[i] \in 1 .. n
  BY DEF Moved, OneToOne
<1>2. other \in [1 .. n -> S]
  <2>1. \A i \in 1 .. n : items[p[i]] \in S
    BY <1>1
  <2>. QED  BY <1>1, <2>1 DEF Moved
<1>. HIDE DEF other
<1>3. NotSecure(other) = Sources(p, n, NotSecure(items))
  BY <1>1 DEF NotSecure, Sources
<1>4. Flagged(other) = Sources(p, n, Flagged(items))
  BY <1>1 DEF Flagged, Sources
<1>5. Picked(module, other) = Sources(p, n, Picked(module, items))
  BY <1>3, <1>4 DEF Picked
<1>6. other \in Seq(S)
  BY <1>1, <1>2
<1>. QED  BY <1>5, <1>6 DEF other

LEMMA LeavesAre ==
  ASSUME NEW module \in Scanning, NEW report \in ReportsOf(module)
  PROVE  \E b \in Nat :
           /\ Listing(LeafFindings(module, report), b)
           /\ \A k \in 1 .. b : \E link \in Links :
                /\ LeafFindings(module, report)[k] = LinkFinding("leaf", link)
                /\ ChainStatus(link, "secure") # "secure"
<1>1. CASE module = "dnssec"
  <2>. DEFINE K == NotSecure(report.leaf)
              b == Cardinality(K)
  <2>1. report.leaf \in Seq(Links)
    BY <1>1, ReportParts
  <2>2. K \in SUBSET (1 .. Len(report.leaf)) /\ Len(report.leaf) \in Nat
    BY <2>1 DEF NotSecure
  <2>3. b \in Nat /\ IsFiniteSet(K) /\ K \subseteq Int
    <3>. HIDE DEF K
    <3>. QED  BY <2>2, Chosen
  <2>4. LeafFindings(module, report) = [k \in 1 .. b |-> LinkFinding("leaf", report.leaf[At(K, k)])]
    BY <1>1 DEF LeafFindings
  <2>5. ASSUME NEW k \in 1 .. b
        PROVE  \E link \in Links : /\ LeafFindings(module, report)[k] = LinkFinding("leaf", link)
                                   /\ ChainStatus(link, "secure") # "secure"
    <3>1. At(K, k) \in K
      <4>. HIDE DEF K
      <4>. QED  BY <2>3, Ranked
    <3>2. report.leaf[At(K, k)] \in Links
      <4>1. At(K, k) \in 1 .. Len(report.leaf)
        BY <2>2, <3>1
      <4>2. \A i \in 1 .. Len(report.leaf) : report.leaf[i] \in Links
        BY <2>1
      <4>. QED  BY <4>1, <4>2
    <3>3. ChainStatus(report.leaf[At(K, k)], "secure") # "secure"
      BY <3>1 DEF NotSecure
    <3>. QED  BY <2>4, <3>2, <3>3
  <2>6. Listing(LeafFindings(module, report), b)
    BY <2>4 DEF Listing
  <2>. QED  BY <2>3, <2>5, <2>6
<1>2. CASE module # "dnssec"
  <2>1. LeafFindings(module, report) = <<>>
    BY <1>2 DEF LeafFindings
  <2>2. Listing(<<>>, 0) /\ 1 .. 0 = {}
    BY DEF Listing
  <2>. QED  BY <2>1, <2>2
<1>. QED  BY <1>1, <1>2

LEMMA JoinedShuffles ==
  ASSUME NEW o, NEW a \in Nat, NEW X, Listing(X, a), NEW Z, Listing(Z, a),
         NEW b \in Nat, NEW Y, Listing(Y, b),
         NEW q, OneToOne(q, 1 .. a, 1 .. a), \A k \in 1 .. a : Z[k] = X[q[k]]
  PROVE  \E r : Shuffles(r, 1 + a + b, Join(o, Z, Y), Join(o, X, Y))
<1>. DEFINE F == Join(o, X, Y)
            G == Join(o, Z, Y)
            n == 1 + a + b
            r == [i \in 1 .. n |-> IF i \in 2 .. 1 + a THEN 1 + q[i - 1] ELSE i]
<1>1. IsJoin(F, o, X, a, Y, b) /\ IsJoin(G, o, Z, a, Y, b)
  BY Joined
<1>. HIDE DEF F, G
<1>2. F[1] = o /\ (\A k \in 1 .. a : F[1 + k] = X[k]) /\ (\A k \in 1 .. b : F[1 + a + k] = Y[k])
  BY <1>1 DEF IsJoin
<1>3. G[1] = o /\ (\A k \in 1 .. a : G[1 + k] = Z[k]) /\ (\A k \in 1 .. b : G[1 + a + k] = Y[k])
  BY <1>1 DEF IsJoin
<1>4. \A k \in 1 .. a : q[k] \in 1 .. a
  BY DEF OneToOne
<1>5. \A i \in 2 .. 1 + a : i - 1 \in 1 .. a /\ q[i - 1] \in 1 .. a /\ r[i] = 1 + q[i - 1]
                            /\ r[i] \in 2 .. 1 + a
  <2>. TAKE i \in 2 .. 1 + a
  <2>1. i - 1 \in 1 .. a /\ i \in 1 .. n
    OBVIOUS
  <2>2. q[i - 1] \in 1 .. a
    BY <1>4, <2>1
  <2>3. r[i] = 1 + q[i - 1]
    BY <2>1
  <2>. QED  BY <2>1, <2>2, <2>3
<1>6. \A i \in 1 .. n : i \notin 2 .. 1 + a => r[i] = i
  OBVIOUS
<1>7. r \in [1 .. n -> 1 .. n]
  <2>1. ASSUME NEW i \in 1 .. n
        PROVE  r[i] \in 1 .. n
    <3>. HIDE DEF r
    <3>1. CASE i \in 2 .. 1 + a
      BY <1>5, <3>1
    <3>2. CASE i \notin 2 .. 1 + a
      BY <1>6, <3>2
    <3>. QED  BY <3>1, <3>2
  <2>. QED  BY <2>1
<1>. HIDE DEF r
<1>8. ASSUME NEW i \in 1 .. n, NEW j \in 1 .. n, r[i] = r[j]
      PROVE  i = j
  <2>1. CASE i \in 2 .. 1 + a /\ j \in 2 .. 1 + a
    <3>1. /\ i - 1 \in 1 .. a /\ q[i - 1] \in 1 .. a /\ r[i] = 1 + q[i - 1]
          /\ j - 1 \in 1 .. a /\ q[j - 1] \in 1 .. a /\ r[j] = 1 + q[j - 1]
      BY <1>5, <2>1
    <3>2. q[i - 1] = q[j - 1] /\ i - 1 \in 1 .. a /\ j - 1 \in 1 .. a
      <4>. DEFINE x == q[i - 1]
                  y == q[j - 1]
      <4>1. x \in 1 .. a /\ y \in 1 .. a /\ r[i] = 1 + x /\ r[j] = 1 + y /\ r[i] = r[j]
        BY <1>8, <3>1
      <4>. HIDE DEF x, y
      <4>2. x = y
        BY <4>1
      <4>. QED  BY <3>1, <4>2 DEF x, y
    <3>3. i - 1 = j - 1
      BY <3>2 DEF OneToOne
    <3>. QED  BY <3>3
  <2>2. CASE i \notin 2 .. 1 + a \/ j \notin 2 .. 1 + a
    BY <1>5, <1>6, <1>8, <2>2
  <2>. QED  BY <2>1, <2>2
<1>9. ASSUME NEW i \in 1 .. n
      PROVE  G[i] = F[r[i]]
  <2>1. CASE i = 1
    BY <1>2, <1>3, <1>6, <2>1
  <2>2. CASE i \in 2 .. 1 + a
    <3>1. i - 1 \in 1 .. a /\ q[i - 1] \in 1 .. a /\ i = 1 + (i - 1) /\ r[i] = 1 + q[i - 1]
      BY <1>5, <2>2
    <3>2. G[i] = Z[i - 1] /\ F[r[i]] = X[q[i - 1]]
      BY <1>2, <1>3, <3>1
    <3>. QED  BY <3>1, <3>2
  <2>3. CASE i \in 2 + a .. n
    <3>1. r[i] = i /\ i - (1 + a) \in 1 .. b /\ i = 1 + a + (i - (1 + a))
      BY <1>6, <2>3
    <3>. QED  BY <1>2, <1>3, <3>1
  <2>. QED  BY <2>1, <2>2, <2>3
<1>10. Shuffles(r, n, G, F)
  BY <1>7, <1>8, <1>9 DEF Shuffles, OneToOne
<1>. QED  BY <1>10 DEF F, G

LEMMA OtherOrder ==
  ASSUME run.module \in Scanning, NEW report \in ReportsOf(run.module),
         NEW p \in Orders(Len(Items(report)))
  PROVE  LET F == Normalize(run.module, report)
             G == Normalize(run.module, Reordered(report, p))
         IN  \E n \in Nat : Listing(F, n) /\ Listing(G, n) /\ \E r : Shuffles(r, n, G, F)
<1>. DEFINE module == run.module
            items == Listed(module, report)
            n == Len(items)
            I == Picked(module, items)
            J == Sources(p, n, I)
            a == Cardinality(I)
            other == Reordered(report, p)
            moved == Moved(items, p)
            X == ItemFindings(module, report)
            Z == ItemFindings(module, other)
            Y == LeafFindings(module, report)
            o == Overall(module, report)
<1>1. items \in Seq(ItemRow(module)) /\ n \in Nat /\ DOMAIN items = 1 .. n
  BY ReportParts
<1>2. Items(report) = items
  BY DEF Items, Listed
<1>3. OneToOne(p, 1 .. n, 1 .. n)
  BY <1>2 DEF Orders, OneToOne
<1>4. I \in SUBSET (1 .. n) /\ a \in Nat
  BY <1>1, PickedType
<1>5. /\ Overall(module, other) = o /\ LeafFindings(module, other) = Y
      /\ Listed(module, other) = moved
      /\ \A x : ItemFinding(module, other, x) = ItemFinding(module, report, x)
  BY ReorderedParts
<1>6. Picked(module, moved) = J /\ moved \in Seq(ItemRow(module))
  <2>1. n = Len(items)
    OBVIOUS
  <2>. HIDE DEF items, module, n
  <2>. QED  BY <1>1, <1>3, <2>1, ReorderedPicked
<1>8. /\ Cardinality(J) = a
      /\ \E q : /\ OneToOne(q, 1 .. a, 1 .. a)
                /\ \A k \in 1 .. a : At(J, k) \in J /\ At(I, q[k]) = p[At(J, k)]
  <2>1. SamePicks(p, I, J)
    <3>. HIDE DEF n, I
    <3>. QED  BY <1>1, <1>3, <1>4, KeptShuffles
  <2>. QED  BY <2>1 DEF SamePicks
<1>9. PICK q : /\ OneToOne(q, 1 .. a, 1 .. a)
               /\ \A k \in 1 .. a : At(J, k) \in J /\ At(I, q[k]) = p[At(J, k)]
  BY <1>8
<1>10. X = [k \in 1 .. a |-> ItemFinding(module, report, items[At(I, k)])]
  BY DEF ItemFindings
<1>11. Z = [k \in 1 .. a |-> ItemFinding(module, report, moved[At(J, k)])]
  BY <1>5, <1>6, <1>8 DEF ItemFindings
<1>12. \A k \in 1 .. a : Z[k] = X[q[k]]
  <2>. TAKE k \in 1 .. a
  <2>1. q[k] \in 1 .. a
    BY <1>9 DEF OneToOne
  <2>2. At(J, k) \in 1 .. n /\ At(I, q[k]) = p[At(J, k)]
    BY <1>9 DEF Sources
  <2>3. moved[At(J, k)] = items[At(I, q[k])]
    BY <1>1, <2>2 DEF Moved
  <2>. QED  BY <1>10, <1>11, <2>1, <2>3
<1>13. PICK b \in Nat : Listing(Y, b)
  BY LeavesAre
<1>14. Normalize(module, report) = Join(o, X, Y) /\ Normalize(module, other) = Join(o, Z, Y)
  BY <1>1, <1>5, <1>6, NormalizeShape DEF Shape
<1>15. Listing(X, a) /\ Listing(Z, a)
  BY <1>10, <1>11 DEF Listing
<1>. HIDE DEF X, Y, Z, o, a, I, J, items, other, moved, n, module
<1>16. \E r : Shuffles(r, 1 + a + b, Join(o, Z, Y), Join(o, X, Y))
  BY <1>4, <1>9, <1>12, <1>13, <1>15, JoinedShuffles
<1>17. Listing(Join(o, X, Y), 1 + a + b) /\ Listing(Join(o, Z, Y), 1 + a + b)
  <2>1. IsJoin(Join(o, X, Y), o, X, a, Y, b) /\ IsJoin(Join(o, Z, Y), o, Z, a, Y, b)
    BY <1>4, <1>13, <1>15, Joined
  <2>. QED  BY <2>1 DEF IsJoin
<1>18. 1 + a + b \in Nat
  BY <1>4, <1>13
<1>. QED  BY <1>14, <1>16, <1>17, <1>18 DEF other, module

(***************************************************************************)
(* The severity of a status, and what a finding that has one is made of.   *)
(***************************************************************************)
LEMMA CanonicalTwice ==
  ASSUME NEW v
  PROVE  Canonical(Canonical(v)) = Canonical(v)
<1>1. /\ DOMAIN Spelled = {"Bogus", "INSECURE", "FAIL", "Safe"}
      /\ Spelled["Bogus"] = "bogus" /\ Spelled["INSECURE"] = "insecure"
      /\ Spelled["FAIL"] = "fail" /\ Spelled["Safe"] = "safe"
  BY DEF Spelled
<1>2. Canonical(v) \notin DOMAIN Spelled
  BY <1>1 DEF Canonical
<1>. QED  BY <1>2 DEF Canonical

ChainSeverity(c) ==
  IF c = "secure" THEN "info" ELSE IF c = "insecure" THEN "medium"
  ELSE IF c = "bogus" THEN "high" ELSE IF c = "error" THEN "low" ELSE Unmapped

QuantumSeverity(c) ==
  IF c \in {"pass", "info", "safe"} THEN "info" ELSE IF c \in {"fail", "unsafe"} THEN "medium"
  ELSE IF c = "error" THEN "low" ELSE Unmapped

LEMMA Severities ==
  ASSUME NEW v, NEW c, c = Canonical(v)
  PROVE  /\ MapSeverity(ChainvalidatorStatus, c) = ChainSeverity(c)
         /\ MapSeverity(QuantumvalidatorStatus, c) = QuantumSeverity(c)
<1>1. Canonical(c) = c
  BY CanonicalTwice
<1>2. MapSeverity(ChainvalidatorStatus, c) = ChainSeverity(c)
  BY <1>1 DEF MapSeverity, ChainvalidatorStatus, ChainSeverity
<1>3. MapSeverity(QuantumvalidatorStatus, c) = QuantumSeverity(c)
  BY <1>1 DEF MapSeverity, QuantumvalidatorStatus, QuantumSeverity
<1>. QED  BY <1>2, <1>3

LEMMA SeverityNames ==
  /\ Severity = {"critical", "high", "medium", "low", "info"}
  /\ \A c : ChainSeverity(c) # Unmapped => ChainSeverity(c) \in Severity
  /\ \A c : QuantumSeverity(c) # Unmapped => QuantumSeverity(c) \in Severity
<1>1. Severity = {"critical", "high", "medium", "low", "info"}
  <2>1. 1 .. 5 = {1, 2, 3, 4, 5}
    OBVIOUS
  <2>2. Severity = {Bands[1], Bands[2], Bands[3], Bands[4], Bands[5]}
    BY <2>1 DEF Severity
  <2>. QED  BY <2>2 DEF Bands
<1>. QED  BY <1>1 DEF ChainSeverity, QuantumSeverity, Unmapped

LEMMA MintedSegments == Minted \subseteq Segments
BY AlphabetAssumption DEF Segments

LEMMA StatusOf ==
  ASSUME NEW item, NEW default
  PROVE  \E v : ChainStatus(item, default) = Canonical(v)
BY DEF ChainStatus

LEMMA LinkParts ==
  ASSUME NEW rule, NEW link
  PROVE  LET f == LinkFinding(rule, link)
             c == ChainStatus(link, "secure")
         IN  /\ f = [rule |-> rule, detail |-> c, severity |-> ChainSeverity(c),
                     resource |-> link.zone, text |-> link.text]
             /\ f.rule = rule /\ f.severity = ChainSeverity(c)
<1>1. MapSeverity(ChainvalidatorStatus, ChainStatus(link, "secure"))
        = ChainSeverity(ChainStatus(link, "secure"))
  BY StatusOf, Severities
<1>. QED  BY <1>1 DEF LinkFinding, Finding

LEMMA CheckParts ==
  ASSUME NEW target, NEW check
  PROVE  LET f == CheckFinding(check, target)
             c == ChainStatus(check, "pass")
         IN  /\ f = [rule |-> "check", detail |-> check.name, severity |-> QuantumSeverity(c),
                     resource |-> target, text |-> check.text]
             /\ f.rule = "check" /\ f.severity = QuantumSeverity(c)
<1>1. MapSeverity(QuantumvalidatorStatus, ChainStatus(check, "pass"))
        = QuantumSeverity(ChainStatus(check, "pass"))
  BY StatusOf, Severities
<1>. QED  BY <1>1 DEF CheckFinding, Finding

LEMMA LinkRowable ==
  ASSUME NEW rule \in Minted, NEW link \in Links, ChainStatus(link, "secure") # "secure",
         LinkFinding(rule, link).severity # Unmapped
  PROVE  LinkFinding(rule, link) \in Rowable
<1>. DEFINE c == ChainStatus(link, "secure")
<1>1. ChainSeverity(c) # Unmapped
  BY LinkParts
<1>2. c \in {"insecure", "bogus", "error"}
  BY <1>1 DEF ChainSeverity
<1>3. rule \in Segments /\ c \in Segments /\ ChainSeverity(c) \in Severity
  BY <1>1, <1>2, MintedSegments, SeverityNames DEF Minted
<1>4. link.zone \in Int /\ link.text \in Int
  BY DEF Links
<1>. HIDE DEF c
<1>5. [rule |-> rule, detail |-> c, severity |-> ChainSeverity(c),
       resource |-> link.zone, text |-> link.text] \in Rowable
  BY <1>3, <1>4 DEF Rowable
<1>. QED  BY <1>5, LinkParts DEF c

LEMMA CheckRowable ==
  ASSUME NEW target \in Int, NEW check \in Checks, CheckFinding(check, target).severity # Unmapped
  PROVE  CheckFinding(check, target) \in Rowable
<1>. DEFINE c == ChainStatus(check, "pass")
<1>1. QuantumSeverity(c) # Unmapped
  BY CheckParts
<1>2. "check" \in Segments /\ QuantumSeverity(c) \in Severity
  BY <1>1, MintedSegments, SeverityNames DEF Minted
<1>3. check.name \in Segments /\ check.text \in Int
  BY DEF Checks, Segments
<1>. HIDE DEF c
<1>4. [rule |-> "check", detail |-> check.name, severity |-> QuantumSeverity(c),
       resource |-> target, text |-> check.text] \in Rowable
  BY <1>2, <1>3 DEF Rowable
<1>. QED  BY <1>4, CheckParts DEF c

LEMMA OverallParts ==
  ASSUME NEW module \in Scanning, NEW report \in ReportsOf(module)
  PROVE  LET o == Overall(module, report) IN
         /\ o.rule \in {"chain_of_trust", "readiness"}
         /\ o.severity = IF module = "dnssec" THEN ChainSeverity(ChainStatus(report, "error"))
                                             ELSE QuantumSeverity(ChainStatus(report, "unsafe"))
         /\ o.severity # Unmapped => o \in Rowable
<1>1. MapSeverity(ChainvalidatorStatus, ChainStatus(report, "error"))
        = ChainSeverity(ChainStatus(report, "error"))
  BY StatusOf, Severities
<1>2. MapSeverity(QuantumvalidatorStatus, ChainStatus(report, "unsafe"))
        = QuantumSeverity(ChainStatus(report, "unsafe"))
  BY StatusOf, Severities
<1>3. "" \in Segments /\ "chain_of_trust" \in Segments /\ "readiness" \in Segments
  BY MintedSegments DEF Minted
<1>4. CASE module = "dnssec"
  <2>. DEFINE s == ChainSeverity(ChainStatus(report, "error"))
  <2>1. Overall(module, report) = [rule |-> "chain_of_trust", detail |-> "", severity |-> s,
                                   resource |-> report.domain, text |-> report.text]
    BY <1>1, <1>4 DEF Overall, Finding
  <2>2. s # Unmapped => s \in Severity
    BY SeverityNames
  <2>3. report.domain \in Int /\ report.text \in Int
    BY <1>4, ReportParts
  <2>4. Overall(module, report).rule = "chain_of_trust" /\ Overall(module, report).severity = s
    BY <1>1, <1>4 DEF Overall, Finding
  <2>. HIDE DEF s
  <2>5. s \in Severity =>
          [rule |-> "chain_of_trust", detail |-> "", severity |-> s,
           resource |-> report.domain, text |-> report.text] \in Rowable
    BY <1>3, <2>3 DEF Rowable
  <2>6. s # Unmapped => Overall(module, report) \in Rowable
    BY <2>1, <2>2, <2>5
  <2>. QED  BY <1>4, <2>4, <2>6 DEF s
<1>5. CASE module = "pqc"
  <2>. DEFINE s == QuantumSeverity(ChainStatus(report, "unsafe"))
  <2>1. Overall(module, report) = [rule |-> "readiness", detail |-> "", severity |-> s,
                                   resource |-> report.target, text |-> report.text]
    BY <1>2, <1>5 DEF Overall, Finding
  <2>2. s # Unmapped => s \in Severity
    BY SeverityNames
  <2>3. report.target \in Int /\ report.text \in Int
    BY <1>5, ReportParts
  <2>4. Overall(module, report).rule = "readiness" /\ Overall(module, report).severity = s
    BY <1>2, <1>5 DEF Overall, Finding
  <2>. HIDE DEF s
  <2>5. s \in Severity =>
          [rule |-> "readiness", detail |-> "", severity |-> s,
           resource |-> report.target, text |-> report.text] \in Rowable
    BY <1>3, <2>3 DEF Rowable
  <2>6. s # Unmapped => Overall(module, report) \in Rowable
    BY <2>1, <2>2, <2>5
  <2>. QED  BY <1>5, <2>4, <2>6 DEF s
<1>. QED  BY <1>4, <1>5 DEF Scanning

Picks(module, report) == Picked(module, Listed(module, report))

ItemAt(module, report, i) == ItemFinding(module, report, Listed(module, report)[i])

Laid(F, module, report, a, b) ==
  /\ Listing(F, 1 + a + b)
  /\ F[1] = Overall(module, report)
  /\ \A k \in 1 .. a : F[1 + k] = ItemAt(module, report, At(Picks(module, report), k))
  /\ \A k \in 1 .. b : \E link \in Links :
       F[1 + a + k] = LinkFinding("leaf", link) /\ ChainStatus(link, "secure") # "secure"

LEMMA PicksType ==
  ASSUME NEW module \in Scanning, NEW report \in ReportsOf(module)
  PROVE  LET I == Picks(module, report) IN
         /\ IsFiniteSet(I) /\ I \subseteq Int /\ Cardinality(I) \in Nat
         /\ \A i \in I : Listed(module, report)[i] \in ItemRow(module)
         /\ \A k \in 1 .. Cardinality(I) : At(I, k) \in I /\ Rank(I, At(I, k)) = k
         /\ \A i \in I : Rank(I, i) \in 1 .. Cardinality(I) /\ At(I, Rank(I, i)) = i
<1>. DEFINE I == Picks(module, report)
            items == Listed(module, report)
<1>1. items \in Seq(ItemRow(module))
  BY ReportParts
<1>2. /\ I \in SUBSET (1 .. Len(items)) /\ IsFiniteSet(I) /\ I \subseteq Int
      /\ Cardinality(I) \in Nat
  BY <1>1, PickedType DEF Picks
<1>3. \A i \in I : items[i] \in ItemRow(module)
  <2>. HIDE DEF I, items
  <2>. QED  BY <1>1, <1>2
<1>. HIDE DEF I, items
<1>4. \A k \in 1 .. Cardinality(I) : At(I, k) \in I /\ Rank(I, At(I, k)) = k
  BY <1>2, Ranked
<1>5. \A i \in I : Rank(I, i) \in 1 .. Cardinality(I) /\ At(I, Rank(I, i)) = i
  BY <1>2, AtRank
<1>. QED  BY <1>2, <1>3, <1>4, <1>5 DEF I, items

LEMMA FindingsLaid ==
  ASSUME NEW module \in Scanning, NEW report \in ReportsOf(module)
  PROVE  /\ Cardinality(Picks(module, report)) \in Nat
         /\ \E b \in Nat : Laid(Normalize(module, report), module, report,
                                Cardinality(Picks(module, report)), b)
<1>. DEFINE I == Picks(module, report)
            a == Cardinality(I)
            o == Overall(module, report)
            X == ItemFindings(module, report)
            Y == LeafFindings(module, report)
            F == Join(o, X, Y)
<1>1. a \in Nat
  BY PicksType
<1>2. PICK b \in Nat :
        /\ Listing(Y, b)
        /\ \A k \in 1 .. b : \E link \in Links :
             Y[k] = LinkFinding("leaf", link) /\ ChainStatus(link, "secure") # "secure"
  BY LeavesAre
<1>3. X = [k \in 1 .. a |-> ItemAt(module, report, At(I, k))]
  BY DEF ItemFindings, ItemAt, Picks
<1>4. Listing(X, a)
  BY <1>3 DEF Listing
<1>5. Normalize(module, report) = F
  BY ReportParts, NormalizeShape DEF Shape
<1>. HIDE DEF X, Y, o, I, a
<1>6. IsJoin(F, o, X, a, Y, b)
  BY <1>1, <1>2, <1>4, Joined
<1>. HIDE DEF F
<1>7. /\ Listing(F, 1 + a + b) /\ F[1] = o
      /\ \A k \in 1 .. a : F[1 + k] = ItemAt(module, report, At(I, k))
      /\ \A k \in 1 .. b : F[1 + a + k] = Y[k]
  BY <1>3, <1>6 DEF IsJoin
<1>8. \A k \in 1 .. b : \E link \in Links :
        F[1 + a + k] = LinkFinding("leaf", link) /\ ChainStatus(link, "secure") # "secure"
  BY <1>2, <1>7
<1>9. Laid(F, module, report, a, b)
  BY <1>7, <1>8 DEF Laid, o, I
<1>. QED  BY <1>1, <1>2, <1>5, <1>9 DEF a, I

LEMMA ItemRowable ==
  ASSUME NEW module \in Scanning, NEW report \in ReportsOf(module),
         NEW i \in Picks(module, report), ItemAt(module, report, i).severity # Unmapped
  PROVE  ItemAt(module, report, i) \in Rowable
<1>. DEFINE item == Listed(module, report)[i]
<1>1. item \in ItemRow(module)
  BY PicksType
<1>2. CASE module = "dnssec"
  <2>1. item \in Links /\ ChainStatus(item, "secure") # "secure"
    BY <1>1, <1>2 DEF ItemRow, Picks, Picked, NotSecure
  <2>2. ItemAt(module, report, i) = LinkFinding("delegation", item)
    BY <1>2 DEF ItemAt, ItemFinding
  <2>3. "delegation" \in Minted
    BY DEF Minted
  <2>. QED  BY <2>1, <2>2, <2>3, LinkRowable
<1>3. CASE module = "pqc"
  <2>1. item \in Checks /\ report.target \in Int
    BY <1>1, <1>3, ReportParts DEF ItemRow
  <2>2. ItemAt(module, report, i) = CheckFinding(item, report.target)
    BY <1>3 DEF ItemAt, ItemFinding
  <2>. QED  BY <2>1, <2>2, CheckRowable
<1>. QED  BY <1>2, <1>3 DEF Scanning

LEMMA FindingsRowable ==
  ASSUME NEW module \in Scanning, NEW report \in ReportsOf(module), NEW F,
         NEW a, a = Cardinality(Picks(module, report)), NEW b \in Nat,
         Laid(F, module, report, a, b), Mapped(F)
  PROVE  F \in [1 .. 1 + a + b -> Rowable]
<1>. DEFINE n == 1 + a + b
<1>1. a \in Nat
  BY PicksType
<1>2. F = [i \in 1 .. n |-> F[i]] /\ DOMAIN F = 1 .. n
  BY DEF Laid, Listing
<1>3. \A i \in 1 .. n : F[i].severity # Unmapped
  BY <1>2 DEF Mapped
<1>4. ASSUME NEW i \in 1 .. n
      PROVE  F[i] \in Rowable
  <2>1. CASE i = 1
    BY <1>3, <2>1, OverallParts DEF Laid
  <2>2. CASE i \in 2 .. 1 + a
    <3>. DEFINE k == i - 1
                j == At(Picks(module, report), k)
    <3>1. k \in 1 .. a /\ i = 1 + k
      BY <1>1, <2>2
    <3>. HIDE DEF k
    <3>2. F[i] = ItemAt(module, report, j)
      BY <3>1 DEF Laid
    <3>3. j \in Picks(module, report)
      BY <3>1, PicksType
    <3>. HIDE DEF j
    <3>. QED  BY <1>3, <3>2, <3>3, ItemRowable
  <2>3. CASE i \in 2 + a .. n
    <3>. DEFINE k == i - (1 + a)
    <3>1. k \in 1 .. b /\ i = 1 + a + k
      BY <1>1, <2>3
    <3>. HIDE DEF k
    <3>2. PICK link \in Links :
            F[i] = LinkFinding("leaf", link) /\ ChainStatus(link, "secure") # "secure"
      BY <3>1 DEF Laid
    <3>3. "leaf" \in Minted
      BY DEF Minted
    <3>. QED  BY <1>3, <3>2, <3>3, LinkRowable
  <2>. QED  BY <1>1, <2>1, <2>2, <2>3
<1>. QED  BY <1>2, <1>4

(***************************************************************************)
(* What a completed run holds: the report it read, and the findings the    *)
(* mapping of its module made of it, none of which raised.                 *)
(***************************************************************************)
ResultInv ==
  /\ run = [f \in Fields |-> run[f]]
  /\ run.module \in Scanning
  /\ Completed =>
       /\ run.report \in ReportsOf(run.module)
       /\ run.findings = Normalize(run.module, run.report)
       /\ Mapped(run.findings)

LEMMA ResultInit == Init => ResultInv
<1>. SUFFICES ASSUME Init PROVE ResultInv
  OBVIOUS
<1>1. PICK module \in Modules : run = Started(module)
  BY DEF Init
<1>2. run.module = module /\ run.verdict = "none" /\ run = [f \in Fields |-> run[f]]
  BY <1>1 DEF Started, Fields
<1>. QED  BY <1>2, RunAssumption DEF ResultInv, Completed, Scanning

LEMMA ResultStep ==
  ASSUME ResultInv, [Next]_vars
  PROVE  ResultInv'
<1>1. CASE Complete
  <2>1. PICK report \in ReportsOf(run.module) :
          /\ Mapped(Normalize(run.module, report))
          /\ run' = [run EXCEPT !.at = "done", !.verdict = "completed", !.report = report,
                                !.findings = Normalize(run.module, report)]
    BY <1>1 DEF Complete
  <2>2. /\ run'.module = run.module /\ run'.report = report
        /\ run'.findings = Normalize(run.module, report)
        /\ run' = [f \in Fields |-> run'[f]]
    BY <2>1 DEF ResultInv, Fields
  <2>. QED  BY <2>1, <2>2 DEF ResultInv
<1>2. CASE RefuseTarget \/ RefuseOption \/ Fail
  <2>1. PICK verdict : End(verdict) /\ verdict # "completed"
    BY <1>2 DEF RefuseTarget, RefuseOption, Fail, Classify
  <2>2. run'.module = run.module /\ run'.verdict = verdict /\ run' = [f \in Fields |-> run'[f]]
    BY <2>1 DEF End, ResultInv, Fields
  <2>. QED  BY <2>1, <2>2 DEF ResultInv, Completed
<1>3. CASE RefuseReport
  <2>1. PICK report :
          run' = [run EXCEPT !.at = "done", !.verdict = "task.invalid_input", !.report = report]
    BY <1>3 DEF RefuseReport
  <2>2. run'.module = run.module /\ run'.verdict = "task.invalid_input"
        /\ run' = [f \in Fields |-> run'[f]]
    BY <2>1 DEF ResultInv, Fields
  <2>. QED  BY <2>2 DEF ResultInv, Completed
<1>4. CASE Configure \/ Spawn
  <2>1. PICK at, budget, port :
          run' = [run EXCEPT !.at = at, !.budget = budget, !.port = port]
    <3>1. CASE Configure
      <4>1. PICK budget, port \in {raw \in Options : ~Unclampable(raw)} :
              run' = [run EXCEPT !.at = "configured",
                                 !.budget = ClampBudget(run.module, budget),
                                 !.port = IF run.module = "pqc" THEN ClampPort(port) ELSE NoPort]
        BY <3>1 DEF Configure
      <4>. QED  BY <4>1
    <3>2. CASE Spawn
      BY <3>2 DEF Spawn
    <3>. QED  BY <1>4, <3>1, <3>2
  <2>2. /\ run'.module = run.module /\ run'.verdict = run.verdict
        /\ run'.report = run.report /\ run'.findings = run.findings
        /\ run' = [f \in Fields |-> run'[f]]
    BY <2>1 DEF ResultInv, Fields
  <2>. QED  BY <2>2 DEF ResultInv, Completed
<1>5. CASE UNCHANGED run
  BY <1>5 DEF ResultInv, Completed
<1>. QED  BY <1>1, <1>2, <1>3, <1>4, <1>5 DEF Next, Engine, Done, vars

LEMMA OrderFree == ResultInv => RowsOrderFree
<1>. SUFFICES ASSUME ResultInv, Completed, NEW p \in Orders(Len(Items(run.report)))
              PROVE  OrderFindings(Normalize(run.module, Reordered(run.report, p)))
                       = OrderFindings(run.findings)
  BY DEF RowsOrderFree
<1>. DEFINE module == run.module
            report == run.report
            a == Cardinality(Picks(module, report))
            F == Normalize(module, report)
            G == Normalize(module, Reordered(report, p))
<1>1. /\ module \in Scanning /\ report \in ReportsOf(module)
      /\ run.findings = F /\ Mapped(F)
  BY DEF ResultInv
<1>2. PICK n \in Nat : Listing(F, n) /\ Listing(G, n) /\ \E r : Shuffles(r, n, G, F)
  BY <1>1, OtherOrder
<1>3. PICK r : Shuffles(r, n, G, F)
  BY <1>2
<1>4. PICK b \in Nat : Laid(F, module, report, a, b)
  BY <1>1, FindingsLaid
<1>5. F \in [1 .. 1 + a + b -> Rowable]
  BY <1>1, <1>4, FindingsRowable
<1>. HIDE DEF F, G
<1>6. \A i \in 1 .. n : F[i] \in Rowable
  <2>1. DOMAIN F = 1 .. n
    BY <1>2 DEF Listing
  <2>. QED  BY <1>5, <2>1
<1>7. F \in [1 .. n -> Rowable]
  BY <1>2, <1>6 DEF Listing
<1>8. G \in [1 .. n -> Rowable]
  <2>1. \A i \in 1 .. n : G[i] \in Rowable
    BY <1>3, <1>6 DEF Shuffles, OneToOne
  <2>. QED  BY <1>2, <2>1 DEF Listing
<1>9. OrderFindings(G) = OrderFindings(F)
  BY <1>3, <1>7, <1>8, SameRows
<1>. QED  BY <1>1, <1>9 DEF F, G

(***************************************************************************)
(* The rows of a completed run do not depend on the order its engine       *)
(* listed the items in, for any reports.                                   *)
(***************************************************************************)
THEOREM RowsReproducible == Spec => []RowsOrderFree
BY ResultInit, ResultStep, OrderFree, PTL DEF Spec

(***************************************************************************)
(* Counting rows.  A row is a finding in its place, so the rows of the     *)
(* items are as many as the items they were made of.                       *)
(***************************************************************************)
OfItems == {"delegation", "check"}
OfReport == {"chain_of_trust", "readiness"}

RowsWith(rows, rules, W) ==
  {m \in DOMAIN rows : rows[m].rule \in rules /\ rows[m].severity \in W}

Ruled(F, a, b) ==
  \A i \in 1 .. 1 + a + b : /\ F[i].rule \in OfItems <=> i \in 2 .. 1 + a
                            /\ F[i].rule \in OfReport <=> i = 1

LEMMA RuleOf ==
  ASSUME NEW module \in Scanning, NEW report \in ReportsOf(module), NEW F,
         NEW a, a = Cardinality(Picks(module, report)), NEW b \in Nat,
         Laid(F, module, report, a, b)
  PROVE  Ruled(F, a, b)
<1>1. a \in Nat
  BY PicksType
<1>. SUFFICES ASSUME NEW i \in 1 .. 1 + a + b
              PROVE  /\ F[i].rule \in OfItems <=> i \in 2 .. 1 + a
                     /\ F[i].rule \in OfReport <=> i = 1
  BY DEF Ruled
<1>2. CASE i = 1
  <2>1. F[i].rule \in OfReport
    BY <1>2, OverallParts DEF Laid, OfReport
  <2>. QED  BY <1>1, <1>2, <2>1 DEF OfReport, OfItems
<1>3. CASE i \in 2 .. 1 + a
  <2>. DEFINE k == i - 1
              item == Listed(module, report)[At(Picks(module, report), k)]
  <2>1. k \in 1 .. a /\ i = 1 + k
    BY <1>1, <1>3
  <2>2. F[i] = ItemFinding(module, report, item)
    <3>. HIDE DEF k
    <3>. QED  BY <2>1 DEF Laid, ItemAt
  <2>3. F[i].rule \in OfItems
    <3>. HIDE DEF item
    <3>. QED  BY <2>2, LinkParts, CheckParts DEF ItemFinding, OfItems
  <2>. QED  BY <1>1, <1>3, <2>3 DEF OfReport, OfItems
<1>4. CASE i \in 2 + a .. 1 + a + b
  <2>. DEFINE k == i - (1 + a)
  <2>1. k \in 1 .. b /\ i = 1 + a + k
    BY <1>1, <1>4
  <2>. HIDE DEF k
  <2>2. PICK link \in Links : F[i] = LinkFinding("leaf", link)
    BY <2>1 DEF Laid
  <2>3. F[i].rule = "leaf"
    BY <2>2, LinkParts
  <2>. QED  BY <1>1, <1>4, <2>3 DEF OfReport, OfItems
<1>. QED  BY <1>1, <1>2, <1>3, <1>4

LEMMA SlotPlace ==
  ASSUME NEW n \in Nat, NEW F \in [1 .. n -> Rowable], NEW i \in 1 .. n
  PROVE  Place(F, i) \in 1 .. n /\ Slot(F, Place(F, i)) = i
<1>1. Place(F, i) \in 1 .. n
  BY PlaceType
<1>2. Slot(F, Place(F, i)) \in 1 .. n /\ Place(F, Slot(F, Place(F, i))) = Place(F, i)
  BY <1>1, Slots
<1>. QED  BY <1>1, <1>2, Slots

LEMMA ItemRows ==
  ASSUME NEW module \in Scanning, NEW report \in ReportsOf(module),
         NEW a, a = Cardinality(Picks(module, report)), NEW b \in Nat,
         NEW F \in [1 .. 1 + a + b -> Rowable], Laid(F, module, report, a, b), NEW W
  PROVE  Cardinality(RowsWith(OrderFindings(F), OfItems, W))
           = Cardinality({i \in Picks(module, report) : ItemAt(module, report, i).severity \in W})
<1>. DEFINE I == Picks(module, report)
            n == 1 + a + b
            M == RowsWith(OrderFindings(F), OfItems, W)
            K == {i \in I : ItemAt(module, report, i).severity \in W}
            f == [m \in M |-> At(I, Slot(F, m) - 1)]
<1>1. a \in Nat /\ n \in Nat
  BY PicksType
<1>2. F \in [1 .. n -> Rowable]
  OBVIOUS
<1>3. \A m \in 1 .. n : Slot(F, m) \in 1 .. n /\ Place(F, Slot(F, m)) = m
  <2>. HIDE DEF n
  <2>. QED  BY <1>2, <1>1, Slots
<1>4. M = {m \in 1 .. n : Slot(F, m) \in 2 .. 1 + a /\ F[Slot(F, m)].severity \in W}
  <2>1. M = {m \in 1 .. n : F[Slot(F, m)].rule \in OfItems /\ F[Slot(F, m)].severity \in W}
    BY RowsAre DEF RowsWith
  <2>2. Ruled(F, a, b)
    BY RuleOf
  <2>3. \A i \in 1 .. n : F[i].rule \in OfItems <=> i \in 2 .. 1 + a
    BY <2>2 DEF Ruled
  <2>4. \A m \in 1 .. n : F[Slot(F, m)].rule \in OfItems <=> Slot(F, m) \in 2 .. 1 + a
    <3>. HIDE DEF n
    <3>. QED  BY <1>3, <2>3
  <2>. QED  BY <2>1, <2>4
<1>5. \A k \in 1 .. a : At(I, k) \in I /\ Rank(I, At(I, k)) = k /\ F[1 + k] = ItemAt(module, report, At(I, k))
  BY PicksType DEF Laid
<1>6. \A i \in I : Rank(I, i) \in 1 .. a /\ At(I, Rank(I, i)) = i
  BY PicksType
<1>. HIDE DEF I
<1>7. \A m \in M : /\ Slot(F, m) - 1 \in 1 .. a /\ Slot(F, m) = 1 + (Slot(F, m) - 1)
                   /\ m \in 1 .. n
  BY <1>1, <1>4
<1>8. \A m \in M : At(I, Slot(F, m) - 1) \in K
  <2>. TAKE m \in M
  <2>. DEFINE k == Slot(F, m) - 1
  <2>1. k \in 1 .. a /\ Slot(F, m) = 1 + k /\ F[Slot(F, m)].severity \in W
    BY <1>4, <1>7
  <2>. HIDE DEF k, M
  <2>2. At(I, k) \in I /\ F[Slot(F, m)] = ItemAt(module, report, At(I, k))
    BY <1>5, <2>1
  <2>3. At(I, k) \in K
    BY <2>1, <2>2
  <2>. QED  BY <2>3 DEF k
<1>. HIDE DEF M
<1>9. ASSUME NEW l \in M, NEW m \in M, f[l] = f[m]
      PROVE  l = m
  <2>1. Slot(F, l) - 1 = Slot(F, m) - 1
    BY <1>5, <1>7, <1>9
  <2>2. Slot(F, l) = Slot(F, m)
    BY <1>7, <2>1
  <2>. QED  BY <1>3, <1>7, <2>2
<1>10. OneToOne(f, M, K)
  <2>. HIDE DEF K
  <2>. QED  BY <1>8, <1>9 DEF OneToOne
<1>11. Onto(f, M, K)
  <2>1. ASSUME NEW i \in K
        PROVE  \E m \in M : f[m] = i
    <3>. DEFINE k == Rank(I, i)
                m == Place(F, 1 + k)
    <3>1. i \in I /\ k \in 1 .. a /\ At(I, k) = i
      BY <1>6
    <3>. HIDE DEF k
    <3>2. 1 + k \in 2 .. 1 + a /\ 1 + k \in 1 .. n /\ (1 + k) - 1 = k
      BY <1>1, <3>1
    <3>3. m \in 1 .. n /\ Slot(F, m) = 1 + k
      BY <1>1, <3>2, SlotPlace
    <3>. HIDE DEF m
    <3>4. F[1 + k].severity \in W
      BY <1>5, <3>1
    <3>5. m \in M
      BY <1>4, <3>2, <3>3, <3>4
    <3>6. f[m] = i
      BY <3>1, <3>2, <3>3, <3>5
    <3>. QED  BY <3>5, <3>6
  <2>. QED  BY <2>1 DEF Onto
<1>12. IsFiniteSet(M)
  <2>1. M \in SUBSET (1 .. n)
    BY <1>7
  <2>. QED  BY <1>1, <2>1, Chosen
<1>13. Cardinality(K) = Cardinality(M)
  <2>. HIDE DEF f, K
  <2>. QED  BY <1>10, <1>11, <1>12, SameCount
<1>. QED  BY <1>13 DEF M, I

LEMMA ReportRow ==
  ASSUME NEW module \in Scanning, NEW report \in ReportsOf(module),
         NEW a, a = Cardinality(Picks(module, report)), NEW b \in Nat,
         NEW F \in [1 .. 1 + a + b -> Rowable], Laid(F, module, report, a, b), NEW W
  PROVE  Cardinality(RowsWith(OrderFindings(F), OfReport, W)) = 1
           <=> Overall(module, report).severity \in W
<1>. DEFINE n == 1 + a + b
            M == RowsWith(OrderFindings(F), OfReport, W)
<1>1. a \in Nat /\ n \in Nat /\ 1 \in 1 .. n
  BY PicksType
<1>2. F \in [1 .. n -> Rowable]
  OBVIOUS
<1>3. \A m \in 1 .. n : Slot(F, m) \in 1 .. n /\ Place(F, Slot(F, m)) = m
  <2>. HIDE DEF n
  <2>. QED  BY <1>2, <1>1, Slots
<1>4. Place(F, 1) \in 1 .. n /\ Slot(F, Place(F, 1)) = 1
  BY <1>1, SlotPlace
<1>5. M = {m \in 1 .. n : F[Slot(F, m)].rule \in OfReport /\ F[Slot(F, m)].severity \in W}
  BY RowsAre DEF RowsWith
<1>6. \A m \in 1 .. n : F[Slot(F, m)].rule \in OfReport <=> m = Place(F, 1)
  <2>1. Ruled(F, a, b)
    BY RuleOf
  <2>2. \A i \in 1 .. n : F[i].rule \in OfReport <=> i = 1
    BY <2>1 DEF Ruled
  <2>. HIDE DEF n
  <2>3. \A m \in 1 .. n : F[Slot(F, m)].rule \in OfReport <=> Slot(F, m) = 1
    BY <1>3, <2>2
  <2>4. ASSUME NEW m \in 1 .. n
        PROVE  Slot(F, m) = 1 <=> m = Place(F, 1)
    <3>1. Place(F, Slot(F, m)) = m
      BY <1>3
    <3>. QED  BY <1>4, <3>1
  <2>. QED  BY <2>3, <2>4
<1>7. F[1] = Overall(module, report)
  BY DEF Laid
<1>. HIDE DEF M, n
<1>8. CASE Overall(module, report).severity \in W
  <2>1. M = {Place(F, 1)}
    BY <1>4, <1>5, <1>6, <1>7, <1>8
  <2>. QED  BY <1>8, <2>1, FS_Singleton DEF M
<1>9. CASE Overall(module, report).severity \notin W
  <2>1. M = {}
    BY <1>4, <1>5, <1>6, <1>7, <1>9
  <2>. QED  BY <1>9, <2>1, FS_EmptySet DEF M
<1>. QED  BY <1>8, <1>9

(***************************************************************************)
(* What the summary reads is what the rows were made from, whatever the    *)
(* spelling and whatever the default of the reader.                        *)
(***************************************************************************)
Spellings(status) ==
  CASE status = "insecure" -> {"insecure", "INSECURE"}
    [] status = "bogus"    -> {"bogus", "Bogus"}
    [] status = "fail"     -> {"fail", "FAIL"}
    [] status = "error"    -> {"error"}

LEMMA CanonicalIs ==
  ASSUME NEW v, NEW s \in {"insecure", "bogus", "fail", "error"}
  PROVE  Canonical(v) = s <=> v \in Spellings(s)
<1>1. /\ DOMAIN Spelled = {"Bogus", "INSECURE", "FAIL", "Safe"}
      /\ Spelled["Bogus"] = "bogus" /\ Spelled["INSECURE"] = "insecure"
      /\ Spelled["FAIL"] = "fail" /\ Spelled["Safe"] = "safe"
  BY DEF Spelled
<1>2. /\ Spellings("insecure") = {"insecure", "INSECURE"} /\ Spellings("bogus") = {"bogus", "Bogus"}
      /\ Spellings("fail") = {"fail", "FAIL"} /\ Spellings("error") = {"error"}
  BY DEF Spellings
<1>. QED  BY <1>1, <1>2 DEF Canonical

LEMMA StatusIs ==
  ASSUME NEW item, NEW default \in {"", "secure", "pass"},
         NEW s \in {"insecure", "bogus", "fail", "error"}
  PROVE  ChainStatus(item, default) = s <=> item.status \in Spellings(s)
<1>1. CASE item.status = Missing
  <2>1. ChainStatus(item, default) = Canonical(default)
    BY <1>1 DEF ChainStatus, Field
  <2>2. default \notin Spellings(s) /\ Missing \notin Spellings(s)
    BY DEF Spellings, Missing
  <2>. QED  BY <1>1, <2>1, <2>2, CanonicalIs
<1>2. CASE item.status # Missing
  BY <1>2, CanonicalIs DEF ChainStatus, Field
<1>. QED  BY <1>1, <1>2

LEMMA PicksMapped ==
  ASSUME NEW module \in Scanning, NEW report \in ReportsOf(module), NEW F,
         NEW a, a = Cardinality(Picks(module, report)), NEW b \in Nat,
         Laid(F, module, report, a, b), Mapped(F), NEW i \in Picks(module, report)
  PROVE  ItemAt(module, report, i).severity # Unmapped
<1>. DEFINE k == Rank(Picks(module, report), i)
<1>1. a \in Nat /\ k \in 1 .. a /\ At(Picks(module, report), k) = i
  BY PicksType
<1>. HIDE DEF k
<1>2. F[1 + k] = ItemAt(module, report, i) /\ DOMAIN F = 1 .. 1 + a + b
  BY <1>1 DEF Laid, Listing
<1>3. 1 + k \in DOMAIN F
  BY <1>1, <1>2
<1>. QED  BY <1>2, <1>3 DEF Mapped

LEMMA LinkSeverities ==
  ASSUME NEW report, NEW i, ItemAt("dnssec", report, i).severity # Unmapped,
         i \in Picks("dnssec", report)
  PROVE  LET status == report.chain[i].status
             severity == ItemAt("dnssec", report, i).severity
         IN  /\ severity \in Severity /\ i \in DOMAIN report.chain
             /\ status \in Spellings("insecure") \cup Spellings("bogus") \cup Spellings("error")
             /\ severity = "medium" <=> status \in Spellings("insecure")
             /\ severity = "high" <=> status \in Spellings("bogus")
<1>. DEFINE link == report.chain[i]
            c == ChainStatus(link, "secure")
<1>1. i \in DOMAIN report.chain /\ c # "secure"
  BY DEF Picks, Picked, Listed, NotSecure
<1>2. ItemAt("dnssec", report, i).severity = ChainSeverity(c)
  BY LinkParts DEF ItemAt, ItemFinding, Listed
<1>3. c \in {"insecure", "bogus", "error"}
  BY <1>1, <1>2 DEF ChainSeverity
<1>4. /\ c = "insecure" <=> link.status \in Spellings("insecure")
      /\ c = "bogus" <=> link.status \in Spellings("bogus")
      /\ c = "error" <=> link.status \in Spellings("error")
  BY StatusIs
<1>. HIDE DEF c
<1>5. /\ ChainSeverity(c) \in Severity
      /\ ChainSeverity(c) = "medium" <=> c = "insecure"
      /\ ChainSeverity(c) = "high" <=> c = "bogus"
  BY <1>3, SeverityNames DEF ChainSeverity
<1>. QED  BY <1>1, <1>2, <1>3, <1>4, <1>5

LEMMA CheckSeverities ==
  ASSUME NEW report, NEW i, i \in Picks("pqc", report)
  PROVE  LET status == report.checks[i].status
             severity == ItemAt("pqc", report, i).severity
         IN  /\ severity \in Severity /\ i \in DOMAIN report.checks
             /\ status \in Spellings("fail") \cup Spellings("error")
             /\ severity = "medium" <=> status \in Spellings("fail")
             /\ severity = "low" <=> status \in Spellings("error")
<1>. DEFINE check == report.checks[i]
            c == ChainStatus(check, "pass")
<1>1. i \in DOMAIN report.checks /\ c \in {"fail", "error"}
  BY DEF Picks, Picked, Listed, Flagged
<1>2. ItemAt("pqc", report, i).severity = QuantumSeverity(c)
  BY CheckParts DEF ItemAt, ItemFinding, Listed
<1>4. /\ c = "fail" <=> check.status \in Spellings("fail")
      /\ c = "error" <=> check.status \in Spellings("error")
  BY StatusIs
<1>. HIDE DEF c
<1>5. /\ QuantumSeverity(c) \in Severity
      /\ QuantumSeverity(c) = "medium" <=> c = "fail"
      /\ QuantumSeverity(c) = "low" <=> c = "error"
  BY <1>1, SeverityNames DEF QuantumSeverity
<1>. QED  BY <1>1, <1>2, <1>4, <1>5

SecondBand(module) == IF module = "dnssec" THEN "high" ELSE "low"

OfSeverity(module, report, W) ==
  {i \in Picks(module, report) : ItemAt(module, report, i).severity \in W}

LEMMA LinkGaps ==
  ASSUME NEW report,
         \A i \in Picks("dnssec", report) : ItemAt("dnssec", report, i).severity # Unmapped
  PROVE  LET chain == report.chain
             Spelt(words) == {i \in DOMAIN chain : chain[i].status \in words}
         IN  /\ OfSeverity("dnssec", report, Severity)
                  = Spelt({"insecure", "INSECURE", "bogus", "Bogus", "error"})
             /\ OfSeverity("dnssec", report, {"medium"}) = Spelt(Spellings("insecure"))
             /\ OfSeverity("dnssec", report, {"high"}) = Spelt(Spellings("bogus"))
             /\ OfSeverity("dnssec", report, Severity \ {"medium", "high"}) = Spelt({"error"})
<1>. DEFINE chain == report.chain
            I == Picks("dnssec", report)
            sev(i) == ItemAt("dnssec", report, i).severity
<1>1. \A i \in I :
        /\ sev(i) \in Severity /\ i \in DOMAIN chain
        /\ chain[i].status \in Spellings("insecure") \cup Spellings("bogus") \cup Spellings("error")
        /\ sev(i) = "medium" <=> chain[i].status \in Spellings("insecure")
        /\ sev(i) = "high" <=> chain[i].status \in Spellings("bogus")
  BY LinkSeverities
<1>2. ASSUME NEW i \in DOMAIN chain,
             chain[i].status \in Spellings("insecure") \cup Spellings("bogus") \cup Spellings("error")
      PROVE  i \in I
  <2>1. ChainStatus(chain[i], "secure") \in {"insecure", "bogus", "error"}
    BY <1>2, StatusIs
  <2>. QED  BY <2>1 DEF Picks, Picked, Listed, NotSecure
<1>3. Spellings("insecure") \cup Spellings("bogus") \cup Spellings("error")
        = {"insecure", "INSECURE", "bogus", "Bogus", "error"}
  BY DEF Spellings
<1>. HIDE DEF chain, I, sev
<1>4. {i \in I : sev(i) \in Severity}
        = {i \in DOMAIN chain : chain[i].status \in {"insecure", "INSECURE", "bogus", "Bogus", "error"}}
  BY <1>1, <1>2, <1>3
<1>5. {i \in I : sev(i) \in {"medium"}} = {i \in DOMAIN chain : chain[i].status \in Spellings("insecure")}
  BY <1>1, <1>2
<1>6. {i \in I : sev(i) \in {"high"}} = {i \in DOMAIN chain : chain[i].status \in Spellings("bogus")}
  BY <1>1, <1>2
<1>7. {i \in I : sev(i) \in Severity \ {"medium", "high"}} = {i \in DOMAIN chain : chain[i].status \in {"error"}}
  <2>1. /\ Spellings("error") = {"error"} /\ "error" \notin Spellings("insecure")
        /\ "error" \notin Spellings("bogus")
    BY DEF Spellings
  <2>. QED  BY <1>1, <1>2, <2>1
<1>. QED  BY <1>4, <1>5, <1>6, <1>7 DEF OfSeverity, chain, I, sev

LEMMA CheckGaps ==
  ASSUME NEW report
  PROVE  LET checks == report.checks
             Spelt(words) == {i \in DOMAIN checks : checks[i].status \in words}
         IN  /\ OfSeverity("pqc", report, Severity) = Spelt({"fail", "FAIL", "error"})
             /\ OfSeverity("pqc", report, {"medium"}) = Spelt(Spellings("fail"))
             /\ OfSeverity("pqc", report, {"low"}) = Spelt(Spellings("error"))
             /\ OfSeverity("pqc", report, Severity \ {"medium", "low"}) = {}
<1>. DEFINE checks == report.checks
            I == Picks("pqc", report)
            sev(i) == ItemAt("pqc", report, i).severity
<1>1. \A i \in I :
        /\ sev(i) \in Severity /\ i \in DOMAIN checks
        /\ checks[i].status \in Spellings("fail") \cup Spellings("error")
        /\ sev(i) = "medium" <=> checks[i].status \in Spellings("fail")
        /\ sev(i) = "low" <=> checks[i].status \in Spellings("error")
  BY CheckSeverities
<1>2. ASSUME NEW i \in DOMAIN checks, checks[i].status \in Spellings("fail") \cup Spellings("error")
      PROVE  i \in I
  <2>1. ChainStatus(checks[i], "pass") \in {"fail", "error"}
    BY <1>2, StatusIs
  <2>. QED  BY <2>1 DEF Picks, Picked, Listed, Flagged
<1>3. Spellings("fail") \cup Spellings("error") = {"fail", "FAIL", "error"}
  BY DEF Spellings
<1>. HIDE DEF checks, I, sev
<1>4. {i \in I : sev(i) \in Severity}
        = {i \in DOMAIN checks : checks[i].status \in {"fail", "FAIL", "error"}}
  BY <1>1, <1>2, <1>3
<1>5. {i \in I : sev(i) \in {"medium"}} = {i \in DOMAIN checks : checks[i].status \in Spellings("fail")}
  BY <1>1, <1>2
<1>6. {i \in I : sev(i) \in {"low"}} = {i \in DOMAIN checks : checks[i].status \in Spellings("error")}
  BY <1>1, <1>2
<1>7. {i \in I : sev(i) \in Severity \ {"medium", "low"}} = {}
  BY <1>1
<1>. QED  BY <1>4, <1>5, <1>6, <1>7 DEF OfSeverity, checks, I, sev

LEMMA GapsOfReport ==
  ASSUME run.module \in Scanning, NEW report \in ReportsOf(run.module),
         \A i \in Picks(run.module, report) : ItemAt(run.module, report, i).severity # Unmapped
  PROVE  LET module == run.module
             items == Items(report)
             summary == Summarize(module, report)
         IN  /\ OfSeverity(module, report, Severity) = {i \in DOMAIN items : items[i].status \in Gap}
             /\ Cardinality(OfSeverity(module, report, {"medium"})) = summary.medium
             /\ Cardinality(OfSeverity(module, report, {SecondBand(module)})) = summary.other
             /\ OfSeverity(module, report, Severity \ {"medium", SecondBand(module)})
                  = {i \in DOMAIN items : items[i].status \in Uncounted}
<1>1. CASE run.module = "dnssec"
  <2>1. /\ Gap = {"insecure", "INSECURE", "bogus", "Bogus", "error"}
        /\ Items(report) = report.chain /\ SecondBand(run.module) = "high"
        /\ Summarize(run.module, report).medium = Having(report.chain, "", "insecure")
        /\ Summarize(run.module, report).other = Having(report.chain, "", "bogus")
    BY <1>1 DEF Gap, Items, SecondBand, Summarize, SummarizeDnssec
  <2>2. /\ Having(report.chain, "", "insecure") =
             Cardinality({i \in DOMAIN report.chain : report.chain[i].status \in Spellings("insecure")})
        /\ Having(report.chain, "", "bogus") =
             Cardinality({i \in DOMAIN report.chain : report.chain[i].status \in Spellings("bogus")})
    BY StatusIs DEF Having
  <2>3. Uncounted = {"error"}
    BY <1>1 DEF Uncounted
  <2>4. /\ OfSeverity("dnssec", report, Severity) =
             {i \in DOMAIN report.chain : report.chain[i].status \in Gap}
        /\ OfSeverity("dnssec", report, Severity \ {"medium", "high"})
             = {i \in DOMAIN report.chain : report.chain[i].status \in Uncounted}
    BY <1>1, <2>1, <2>3, LinkGaps
  <2>5. /\ OfSeverity("dnssec", report, {"medium"}) =
             {i \in DOMAIN report.chain : report.chain[i].status \in Spellings("insecure")}
        /\ OfSeverity("dnssec", report, {"high"}) =
             {i \in DOMAIN report.chain : report.chain[i].status \in Spellings("bogus")}
    BY <1>1, LinkGaps
  <2>. QED  BY <1>1, <2>1, <2>2, <2>4, <2>5
<1>2. CASE run.module = "pqc"
  <2>1. /\ Gap = {"fail", "FAIL", "error"}
        /\ Items(report) = report.checks /\ SecondBand(run.module) = "low"
        /\ Summarize(run.module, report).medium = Having(report.checks, "", "fail")
        /\ Summarize(run.module, report).other = Having(report.checks, "", "error")
    BY <1>2 DEF Gap, Items, SecondBand, Summarize, SummarizePqc
  <2>2. /\ Having(report.checks, "", "fail") =
             Cardinality({i \in DOMAIN report.checks : report.checks[i].status \in Spellings("fail")})
        /\ Having(report.checks, "", "error") =
             Cardinality({i \in DOMAIN report.checks : report.checks[i].status \in Spellings("error")})
    BY StatusIs DEF Having
  <2>3. {i \in DOMAIN report.checks : report.checks[i].status \in Uncounted} = {}
    BY <1>2 DEF Uncounted
  <2>. QED  BY <1>2, <2>1, <2>2, <2>3, CheckGaps
<1>. QED  BY <1>1, <1>2 DEF Scanning

LEMMA PassedIs ==
  ASSUME NEW module \in Scanning, NEW report \in ReportsOf(module)
  PROVE  Summarize(module, report).passed <=> Overall(module, report).severity = "info"
<1>1. CASE module = "dnssec"
  <2>1. Summarize(module, report).passed <=> ChainStatus(report, "") = "secure"
    BY <1>1 DEF Summarize, SummarizeDnssec
  <2>2. Overall(module, report).severity = ChainSeverity(ChainStatus(report, "error"))
    BY <1>1, OverallParts
  <2>3. ChainSeverity(ChainStatus(report, "error")) = "info" <=> ChainStatus(report, "error") = "secure"
    BY DEF ChainSeverity, Unmapped
  <2>4. ChainStatus(report, "error") = "secure" <=> ChainStatus(report, "") = "secure"
    <3>1. Canonical("error") # "secure" /\ Canonical("") # "secure"
      BY DEF Canonical, Spelled
    <3>. QED  BY <3>1 DEF ChainStatus, Field
  <2>. QED  BY <2>1, <2>2, <2>3, <2>4
<1>2. CASE module = "pqc"
  <2>1. Summarize(module, report).passed <=> ChainStatus(report, "") = "safe"
    BY <1>2 DEF Summarize, SummarizePqc
  <2>2. Overall(module, report).severity = QuantumSeverity(ChainStatus(report, "unsafe"))
    BY <1>2, OverallParts
  <2>3. ChainStatus(report, "unsafe") \notin {"pass", "info"}
    <3>1. Canonical(report.status) \notin {"pass", "info"}
      BY <1>2, ReportAssumption DEF ReportsOf
    <3>2. Canonical("unsafe") \notin {"pass", "info"}
      BY DEF Canonical, Spelled
    <3>. QED  BY <3>1, <3>2 DEF ChainStatus, Field
  <2>4. QuantumSeverity(ChainStatus(report, "unsafe")) = "info" <=> ChainStatus(report, "unsafe") = "safe"
    BY <2>3 DEF QuantumSeverity, Unmapped
  <2>5. ChainStatus(report, "unsafe") = "safe" <=> ChainStatus(report, "") = "safe"
    <3>1. Canonical("unsafe") # "safe" /\ Canonical("") # "safe"
      BY DEF Canonical, Spelled
    <3>. QED  BY <3>1 DEF ChainStatus, Field
  <2>. QED  BY <2>1, <2>2, <2>4, <2>5
<1>. QED  BY <1>1, <1>2 DEF Scanning

Banded(F, W) == {i \in DOMAIN F : F[i].severity \in W}

LEMMA BandsAdd ==
  ASSUME NEW n \in Nat, NEW F \in [1 .. n -> Rowable], NEW W, NEW band \in Severity, band \notin W
  PROVE  /\ Cardinality(Banded(F, W \cup {band})) =
              Cardinality(Banded(F, W)) + SeverityCounts(F)[band]
         /\ Cardinality(Banded(F, W)) \in Nat /\ SeverityCounts(F)[band] \in Nat
<1>. DEFINE A == Banded(F, W)
            B == Banded(F, {band})
<1>1. A \in SUBSET (1 .. n) /\ B \in SUBSET (1 .. n)
  BY DEF Banded
<1>2. IsFiniteSet(A) /\ IsFiniteSet(B) /\ Cardinality(A) \in Nat /\ Cardinality(B) \in Nat
  BY <1>1, Chosen
<1>3. A \cap B = {} /\ A \cup B = Banded(F, W \cup {band})
  BY DEF Banded
<1>4. SeverityCounts(F)[band] = Cardinality(B)
  <2>1. {i \in DOMAIN F : F[i].severity = band} = B
    BY DEF Banded
  <2>. QED  BY <2>1 DEF SeverityCounts
<1>. HIDE DEF A, B
<1>5. Cardinality(A \cup B) = Cardinality(A) + Cardinality(B)
  <2>1. Cardinality(A \cup B) = Cardinality(A) + Cardinality(B) - Cardinality(A \cap B)
    BY <1>2, FS_Union
  <2>2. Cardinality(A \cap B) = 0
    BY <1>3, FS_EmptySet
  <2>. QED  BY <1>2, <2>1, <2>2
<1>. QED  BY <1>2, <1>3, <1>4, <1>5 DEF A

LEMMA FiveBands ==
  ASSUME NEW n \in Nat, NEW F \in [1 .. n -> Rowable]
  PROVE  LET counts == SeverityCounts(F)
         IN  counts["critical"] + counts["high"] + counts["medium"] + counts["low"]
               + counts["info"] = n
<1>. DEFINE counts == SeverityCounts(F)
            size(W) == Cardinality(Banded(F, W))
<1>1. Severity = {"critical", "high", "medium", "low", "info"}
  BY SeverityNames
<1>2. size({}) = 0
  BY FS_EmptySet DEF Banded
<1>3. ASSUME NEW W, NEW band \in Severity, band \notin W
      PROVE  size(W \cup {band}) = size(W) + counts[band] /\ counts[band] \in Nat
  BY <1>3, BandsAdd
<1>4. \A W : \A band \in Severity \ W :
        size(W \cup {band}) = size(W) + counts[band] /\ counts[band] \in Nat
  BY <1>3
<1>5. /\ {} \cup {"critical"} = {"critical"}
      /\ {"critical"} \cup {"high"} = {"critical", "high"}
      /\ {"critical", "high"} \cup {"medium"} = {"critical", "high", "medium"}
      /\ {"critical", "high", "medium"} \cup {"low"} = {"critical", "high", "medium", "low"}
      /\ {"critical", "high", "medium", "low"} \cup {"info"} = Severity
  BY <1>1
<1>6. size(Severity) = n
  <2>1. Banded(F, Severity) = 1 .. n
    BY DEF Banded, Rowable
  <2>. QED  BY <2>1, Indices
<1>. HIDE DEF counts, size
<1>7. counts["critical"] + counts["high"] + counts["medium"] + counts["low"] + counts["info"] = n
  <2>1. size({"critical"}) = counts["critical"] /\ counts["critical"] \in Nat
    <3>1. "critical" \in Severity \ {}
      BY <1>1
    <3>2. /\ size({} \cup {"critical"}) = size({}) + counts["critical"]
          /\ counts["critical"] \in Nat
      BY <1>4, <3>1
    <3>3. size({"critical"}) = 0 + counts["critical"]
      BY <1>2, <1>5, <3>2
    <3>. QED  BY <3>2, <3>3
  <2>2. /\ size({"critical", "high"}) = size({"critical"}) + counts["high"]
        /\ counts["high"] \in Nat
    BY <1>1, <1>4, <1>5
  <2>3. /\ size({"critical", "high", "medium"}) = size({"critical", "high"}) + counts["medium"]
        /\ counts["medium"] \in Nat
    BY <1>1, <1>4, <1>5
  <2>4. /\ size({"critical", "high", "medium", "low"})
             = size({"critical", "high", "medium"}) + counts["low"]
        /\ counts["low"] \in Nat
    BY <1>1, <1>4, <1>5
  <2>5. /\ size(Severity) = size({"critical", "high", "medium", "low"}) + counts["info"]
        /\ counts["info"] \in Nat
    BY <1>1, <1>4, <1>5
  <2>. QED  BY <1>6, <2>1, <2>2, <2>3, <2>4, <2>5
<1>. QED  BY <1>7 DEF counts

LEMMA RowsType ==
  ASSUME NEW n \in Nat, NEW F \in [1 .. n -> Rowable]
  PROVE  /\ OrderFindings(F) \in [1 .. n -> Rowable]
         /\ Len(OrderFindings(F)) = n
<1>1. \A m \in 1 .. n : Slot(F, m) \in 1 .. n
  BY Slots
<1>2. OrderFindings(F) \in [1 .. n -> Rowable]
  BY <1>1, RowsAre
<1>. QED  BY <1>2

LEMMA GapsAdd == ResultInv => GapsReported
<1>. SUFFICES ASSUME ResultInv, Completed PROVE GapsReported
  BY DEF GapsReported
<1>. DEFINE module == run.module
            report == run.report
            a == Cardinality(Picks(module, report))
            F == Normalize(module, report)
            rows == OrderFindings(F)
            counts == SeverityCounts(F)
            summary == Summarize(module, report)
            items == Items(report)
<1>1. /\ module \in Scanning /\ report \in ReportsOf(module)
      /\ run.findings = F /\ Mapped(F)
  BY DEF ResultInv
<1>2. a \in Nat
  BY <1>1, FindingsLaid
<1>3. PICK b \in Nat : Laid(F, module, report, a, b)
  BY <1>1, FindingsLaid
<1>4. 1 + a + b \in Nat /\ F \in [1 .. 1 + a + b -> Rowable]
  BY <1>1, <1>2, <1>3, FindingsRowable
<1>5. \A i \in Picks(module, report) : ItemAt(module, report, i).severity # Unmapped
  BY <1>1, <1>3, PicksMapped
<1>6. /\ OfSeverity(module, report, Severity) = {i \in DOMAIN items : items[i].status \in Gap}
      /\ Cardinality(OfSeverity(module, report, {"medium"})) = summary.medium
      /\ Cardinality(OfSeverity(module, report, {SecondBand(module)})) = summary.other
      /\ OfSeverity(module, report, Severity \ {"medium", SecondBand(module)})
           = {i \in DOMAIN items : items[i].status \in Uncounted}
  BY <1>1, <1>5, GapsOfReport
<1>7. \A W : Cardinality(RowsWith(rows, OfItems, W)) = Cardinality(OfSeverity(module, report, W))
  <2>. HIDE DEF F
  <2>. QED  BY <1>1, <1>3, <1>4, ItemRows DEF OfSeverity
<1>8. Cardinality(RowsWith(rows, OfReport, {"info"})) = 1 <=> summary.passed
  <2>1. Cardinality(RowsWith(rows, OfReport, {"info"})) = 1
          <=> Overall(module, report).severity \in {"info"}
    <3>. HIDE DEF F
    <3>. QED  BY <1>1, <1>3, <1>4, ReportRow
  <2>. QED  BY <1>1, <2>1, PassedIs
<1>. HIDE DEF F
<1>9. /\ counts["critical"] + counts["high"] + counts["medium"] + counts["low"]
           + counts["info"] = 1 + a + b
      /\ Len(rows) = 1 + a + b /\ rows \in [1 .. 1 + a + b -> Rowable]
  BY <1>4, FiveBands, RowsType
<1>. HIDE DEF rows, counts, summary, items, module, report
<1>10. \A rules, W : RowsWith(rows, rules, W) =
          {m \in DOMAIN rows : rows[m].rule \in rules /\ rows[m].severity \in W}
  BY DEF RowsWith
<1>11. Cardinality({m \in DOMAIN rows : rows[m].rule \in {"delegation", "check"}})
         = Cardinality({i \in DOMAIN items : items[i].status \in Gap})
  <2>1. {m \in DOMAIN rows : rows[m].rule \in {"delegation", "check"}}
          = RowsWith(rows, OfItems, Severity)
    BY <1>9, <1>10 DEF OfItems, Rowable
  <2>. QED  BY <1>6, <1>7, <2>1
<1>12. \A band : {m \in DOMAIN rows : rows[m].rule \in {"delegation", "check"}
                                      /\ rows[m].severity = band}
                   = RowsWith(rows, OfItems, {band})
  BY <1>10 DEF OfItems
<1>13. summary.medium = Cardinality({m \in DOMAIN rows :
         rows[m].rule \in {"delegation", "check"} /\ rows[m].severity = "medium"})
  BY <1>6, <1>7, <1>12
<1>14. summary.other = Cardinality({m \in DOMAIN rows :
         rows[m].rule \in {"delegation", "check"} /\ rows[m].severity = SecondBand(module)})
  BY <1>6, <1>7, <1>12
<1>15. Cardinality({m \in DOMAIN rows :
         rows[m].rule \in {"delegation", "check"}
         /\ rows[m].severity \notin {"medium", SecondBand(module)}})
         = Cardinality({i \in DOMAIN items : items[i].status \in Uncounted})
  <2>1. {m \in DOMAIN rows : rows[m].rule \in {"delegation", "check"}
                              /\ rows[m].severity \notin {"medium", SecondBand(module)}}
          = RowsWith(rows, OfItems, Severity \ {"medium", SecondBand(module)})
    BY <1>9, <1>10 DEF OfItems, Rowable
  <2>. QED  BY <1>6, <1>7, <2>1
<1>16. summary.passed <=> Cardinality({m \in DOMAIN rows :
         rows[m].rule \in {"chain_of_trust", "readiness"} /\ rows[m].severity = "info"}) = 1
  <2>1. {m \in DOMAIN rows : rows[m].rule \in {"chain_of_trust", "readiness"}
                             /\ rows[m].severity = "info"}
          = RowsWith(rows, OfReport, {"info"})
    BY <1>10 DEF OfReport
  <2>. QED  BY <1>8, <2>1
<1>. QED  BY <1>1, <1>9, <1>11, <1>13, <1>14, <1>15, <1>16
          DEF GapsReported, SecondBand, rows, counts, summary, items, module, report

(***************************************************************************)
(* The rows and the counts of a completed run tell of the gaps of the      *)
(* report, and its summary of all but the delegations in error, for any    *)
(* reports.                                                                *)
(***************************************************************************)
THEOREM GapsCounted == Spec => []GapsReported
BY ResultInit, ResultStep, GapsAdd, PTL DEF Spec
=============================================================================
