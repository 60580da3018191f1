--------------------------- MODULE ModuleProperties ---------------------------
(***************************************************************************)
(* What a run of a module earns, leaves behind and writes.                 *)
(***************************************************************************)
EXTENDS ModuleRun

Message == {Result} \cup {Failure(text) : text \in Errors}
           \cup {Progress(Lines[i]) : i \in DOMAIN Lines}

(***************************************************************************)
(* A run is where the code can be; whatever the options say, its budget is *)
(* between nothing and the cap of the module, and its port is a port.      *)
(***************************************************************************)
TypeOK ==
  /\ parent \in {"loop", "poll", "recv", "reap", "grace", "join", "returned"}
  /\ child \in [at : {"spawned", "engine", "sending", "closed", "dead"},
                detached : BOOLEAN, message : Message \cup {NoOutcome},
                signal : {"none", "term", "kill"}]
  /\ written \in Seq(Message) /\ pipe \in Seq(Message)
  /\ outcome \in Message \cup {NoOutcome, Overrun, Silent, Broken}
  /\ expired \in BOOLEAN /\ torn \in BOOLEAN
  /\ helper \in {"none", "alive", "dead"}
  /\ run.module \in Modules
  /\ run.at \in {"start", "configured", "engine", "done"}
  /\ run.budget \in 0 .. MaxBudget
  /\ run.at = "configured" => run.budget > 0
  /\ run.port \in 0 .. MaxPort

-----------------------------------------------------------------------------
(* The engine *)

Said(message) == written # <<>> /\ written[Len(written)] = message

(* What was written before the message that ended the run. *)
EarlierLines == [i \in 1 .. Len(written) - 1 |-> written[i].body]

(***************************************************************************)
(* The outcome is what happened: a report or an error was written as a     *)
(* whole by the child, after all of its progress was re-emitted in order;  *)
(* a timeout is an overrun budget; "exited without a result" is a child    *)
(* that ended and had written neither (run_engine).                        *)
(***************************************************************************)
OutcomeEarned ==
  /\ outcome \in Message => Said(outcome) /\ shown = EarlierLines
  /\ outcome = Overrun => expired
  /\ outcome \in {Silent, Broken} =>
       /\ child.at = "dead"
       /\ \A message \in Message : Said(message) => message.kind = "progress"

(***************************************************************************)
(* run_engine returns when its child is gone, and nothing is left of a     *)
(* group that had to be killed (_reap).                                    *)
(***************************************************************************)
ChildGone ==
  parent = "returned" =>
    /\ child.at = "dead"
    /\ child.signal = "kill" /\ child.detached => helper # "alive"

(***************************************************************************)
(* execution.py, _reap: "nothing outlives".                                *)
(***************************************************************************)
NothingOutlives == parent = "returned" => helper # "alive"

(***************************************************************************)
(* Every run comes to a verdict, though its engine may hang, die half-way  *)
(* through a message, ignore SIGTERM or write more than the pipe holds.    *)
(***************************************************************************)
RunEnds == <>(run.at = "done")

-----------------------------------------------------------------------------
(* The rows *)

Completed == run.verdict = "completed"
Items(report) == IF run.module = "dnssec" THEN report.chain ELSE report.checks

Orders(n) == {p \in [1 .. n -> 1 .. n] : \A i, j \in 1 .. n : p[i] = p[j] => i = j}

Reordered(report, p) ==
  LET items == Items(report)
      other == [i \in DOMAIN items |-> items[p[i]]]
  IN  IF run.module = "dnssec" THEN [report EXCEPT !.chain = other]
                               ELSE [report EXCEPT !.checks = other]

(***************************************************************************)
(* Of "re-running an unchanged scan produces byte-identical rows", what    *)
(* order_findings is there for: which rows are stored, and in which order, *)
(* does not depend on the order the engine listed its links or checks in,  *)
(* whatever the findings have in common.  What one finding says is taken   *)
(* as it is, the lists of its evidence in the order the engine gave them.  *)
(***************************************************************************)
RowsOrderFree ==
  Completed =>
    \A other \in {Normalize(run.module, Reordered(run.report, p)) :
                     p \in Orders(Len(Items(run.report)))} :
      OrderFindings(other) = OrderFindings(run.findings)

(***************************************************************************)
(* The result adds up: a row for every gap the engine found, in whatever   *)
(* spelling; a summary that, though it reads the report by itself, counts  *)
(* as many as there are rows of that kind, and leaves out of its counts    *)
(* exactly the delegations of dnssec that could not be evaluated, which    *)
(* have rows; and counts over all five bands that sum to the rows          *)
(* (normalize, summarize, severity_counts).                                *)
(***************************************************************************)
Gap == IF run.module = "dnssec" THEN {"insecure", "INSECURE", "bogus", "Bogus", "error"}
                                ELSE {"fail", "FAIL", "error"}

(* The gaps that summarize has no count for. *)
Uncounted == IF run.module = "dnssec" THEN {"error"} ELSE {}

GapsReported ==
  Completed =>
    LET rows == OrderFindings(run.findings)
        counts == SeverityCounts(run.findings)
        summary == Summarize(run.module, run.report)
        items == Items(run.report)
        Rows(Select(_)) == Cardinality({i \in DOMAIN rows : Select(rows[i])})
        OfItem(row) == row.rule \in {"delegation", "check"}
        second == IF run.module = "dnssec" THEN "high" ELSE "low"
    IN
    /\ Rows(OfItem) = Cardinality({i \in DOMAIN items : items[i].status \in Gap})
    /\ summary.medium = Rows(LAMBDA row : OfItem(row) /\ row.severity = "medium")
    /\ summary.other = Rows(LAMBDA row : OfItem(row) /\ row.severity = second)
    /\ Rows(LAMBDA row : OfItem(row) /\ row.severity \notin {"medium", second})
         = Cardinality({i \in DOMAIN items : items[i].status \in Uncounted})
    /\ summary.passed <=> Rows(LAMBDA row : row.rule \in {"chain_of_trust", "readiness"}
                                            /\ row.severity = "info") = 1
    /\ counts["critical"] + counts["high"] + counts["medium"] + counts["low"]
         + counts["info"] = Len(rows)

(***************************************************************************)
(* The verdict tells what happened to the engine: a completed task had a   *)
(* whole report, a timed-out one overran its budget unless its engine says *)
(* so in its own words, and an overrun budget is never called anything     *)
(* else (EngineOutcome.unwrap, classify_failure).                          *)
(***************************************************************************)
VerdictEarned ==
  run.at = "done" =>
    /\ Completed => Said(Result)
    /\ outcome = Overrun <=>
         /\ run.verdict = "task.timeout"
         /\ \A text \in Errors : SaysOverrun(text) => outcome # Failure(text)
=============================================================================
