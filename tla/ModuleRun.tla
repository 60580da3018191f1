------------------------------- MODULE ModuleRun -------------------------------
(***************************************************************************)
(* One run of a scan module: dnssec/runner.py or pqc/runner.py over the    *)
(* shared engine runner, the normalization of the report it returns, and   *)
(* the verdict the worker draws from a run that raised (classify_failure). *)
(*                                                                         *)
(* What a report says is chosen when it is read: nothing before depends on *)
(* it.  The option "budget" is a number, a boolean, an integer too wide    *)
(* for a float, or something else; the port of the pqc module likewise.    *)
(***************************************************************************)
EXTENDS EngineRun, Normalization

CONSTANTS
  Modules,         \* "dnssec", "pqc"
  DnssecReports,   \* what chainvalidator may report
  PqcReports,      \* what quantumvalidator may report
  Options,         \* the values an option may have
  DefaultBudget,   \* DEFAULT_BUDGET of the module
  MaxBudget,       \* MAX_BUDGET
  MaxPort          \* 65535

ASSUME RunAssumption ==
  /\ Modules \subseteq {"dnssec", "pqc"}
  /\ Options \subseteq [kind : {"number", "flag", "fraction", "wide", "other"}, value : Int]
  /\ MaxBudget \in Nat /\ DefaultBudget \in 1 .. MaxBudget
  /\ MaxPort \in Nat \ {0}

(***************************************************************************)
(* quantumvalidator "reports a per-check Status (pass/fail/info/error) and *)
(* an overall Verdict (safe/unsafe)": the words of a check that passed are *)
(* no verdict.  Of the other statuses nothing is assumed.                  *)
(***************************************************************************)
Links  == [status : STRING, zone : Int, text : Int]
Checks == [status : STRING, name : {Alphabet[i] : i \in DOMAIN Alphabet}, text : Int]

ASSUME ReportAssumption ==
  /\ DnssecReports \subseteq [status : STRING, domain : Int, text : Int,
                               chain : Seq(Links), leaf : Seq(Links)]
  /\ PqcReports \subseteq [status : STRING, target : Int, text : Int, checks : Seq(Checks)]
  /\ \A report \in PqcReports : Canonical(report.status) \notin {"pass", "info"}

VARIABLE run

vars == <<run, engineVars>>

NoReport == [status |-> Missing]
Started(module) ==
  [at |-> "start", module |-> module, budget |-> 0, port |-> 0,
   verdict |-> "none", report |-> NoReport, findings |-> <<>>]

Init == EngineInit /\ \E module \in Modules : run = Started(module)

-----------------------------------------------------------------------------
(* Before the engine *)

ClampBudget_Uncapped(module, raw) ==
  LET whole == raw.kind \in {"number", "fraction"} \/ (raw.kind = "flag" /\ module = "dnssec")
  IN  IF whole /\ raw.value > 0 THEN raw.value ELSE DefaultBudget

(***************************************************************************)
(* float() of a boolean is 0.0 or 1.0; only the pqc module thinks of it.   *)
(***************************************************************************)
ClampBudget(module, raw) ==
  LET number == raw.kind \in {"number", "fraction"} \/ (raw.kind = "flag" /\ module = "dnssec")
  IN  IF ~number \/ raw.value <= 0 THEN DefaultBudget
      ELSE IF raw.value > MaxBudget THEN MaxBudget ELSE raw.value

NoPort == 0
ClampPort(raw) ==
  IF raw.kind = "number" /\ raw.value \in 1 .. MaxPort THEN raw.value ELSE NoPort

(***************************************************************************)
(* float() of an integer wider than a float raises an OverflowError, which *)
(* neither clamp expects.                                                  *)
(***************************************************************************)
Unclampable(raw) == raw.kind = "wide"

End(verdict) == run' = [run EXCEPT !.at = "done", !.budget = 0, !.port = 0, !.verdict = verdict]

RefuseTarget == run.at = "start" /\ End("task.invalid_input") /\ UNCHANGED engineVars

RefuseOption ==
  /\ run.at = "start"
  /\ \E raw \in Options : Unclampable(raw)
  /\ End("task.engine_error")
  /\ UNCHANGED engineVars

Configure ==
  /\ run.at = "start"
  /\ \E budget, port \in {raw \in Options : ~Unclampable(raw)} :
       run' = [run EXCEPT !.at = "configured",
                          !.budget = ClampBudget(run.module, budget),
                          !.port = IF run.module = "pqc" THEN ClampPort(port) ELSE NoPort]
  /\ UNCHANGED engineVars

(***************************************************************************)
(* The child is spawned with the options; the model follows it without.    *)
(***************************************************************************)
Spawn ==
  /\ run.at = "configured"
  /\ run' = [run EXCEPT !.at = "engine", !.budget = 0, !.port = 0]
  /\ UNCHANGED engineVars

Engine == run.at = "engine" /\ EngineNext /\ UNCHANGED run

-----------------------------------------------------------------------------
(* After the engine *)

Returned == run.at = "engine" /\ parent = "returned"

Normalize(module, report) ==
  IF module = "dnssec" THEN NormalizeDnssec(report) ELSE NormalizePqc(report)

Summarize(module, report) ==
  IF module = "dnssec" THEN SummarizeDnssec(report) ELSE SummarizePqc(report)

ReportsOf(module) == IF module = "dnssec" THEN DnssecReports ELSE PqcReports

Mapped(findings) == \A i \in DOMAIN findings : findings[i].severity # Unmapped

Complete ==
  /\ Returned /\ outcome.kind = "result"
  /\ \E report \in ReportsOf(run.module) :
       LET findings == Normalize(run.module, report) IN
       /\ Mapped(findings)
       /\ run' = [run EXCEPT !.at = "done", !.verdict = "completed",
                             !.report = report, !.findings = findings]
  /\ UNCHANGED engineVars

(***************************************************************************)
(* A value without a mapping raises a ValueError, which the worker takes   *)
(* for an input the module does not accept.                                *)
(***************************************************************************)
RefuseReport ==
  /\ Returned /\ outcome.kind = "result"
  /\ \E report \in ReportsOf(run.module) :
       /\ ~Mapped(Normalize(run.module, report))
       /\ run' = [run EXCEPT !.at = "done", !.verdict = "task.invalid_input",
                             !.report = report]
  /\ UNCHANGED engineVars

(***************************************************************************)
(* The message of a failed run tells the timeout from the rest.            *)
(***************************************************************************)
SaysOverrun(body) == body \in {"overran its budget", "overran its lease"}

Classify_Never(how) == "task.engine_error"
Classify(how) ==
  IF how.kind # "raised" /\ SaysOverrun(how.body) THEN "task.timeout" ELSE "task.engine_error"

Fail ==
  /\ Returned /\ outcome.kind # "result"
  /\ End(Classify(outcome))
  /\ UNCHANGED engineVars

Done == run.at = "done" /\ UNCHANGED vars

-----------------------------------------------------------------------------
Next ==
  \/ RefuseTarget \/ RefuseOption \/ Configure \/ Spawn
  \/ Engine
  \/ Complete \/ RefuseReport \/ Fail
  \/ Done

Spec == Init /\ [][Next]_vars

(***************************************************************************)
(* The clock runs, the worker is scheduled, a write that began ends (the   *)
(* parent empties the pipe) or its writer dies, and SIGKILL kills.  The    *)
(* engine owes nothing: it may never report, write nor exit.               *)
(***************************************************************************)
FairSpec ==
  /\ Spec
  /\ WF_vars(RefuseTarget \/ RefuseOption \/ Configure \/ Spawn)
  /\ WF_vars(Complete \/ RefuseReport \/ Fail)
  /\ WF_vars(run.at = "engine" /\ RunEngine /\ UNCHANGED run)
  /\ WF_vars(run.at = "engine" /\ BudgetEnds /\ UNCHANGED run)
  /\ WF_vars(run.at = "engine" /\ EndSend /\ UNCHANGED run)
  /\ WF_vars(run.at = "engine" /\ child.signal = "kill" /\ ChildDies /\ UNCHANGED run)
=============================================================================
