----------------------------- MODULE Normalization -----------------------------
(***************************************************************************)
(* From an engine's report to the rows of a result: the mappings of the    *)
(* dnssec and pqc modules and modules/normalization.  Everything here is a *)
(* constant operator.                                                      *)
(*                                                                         *)
(* A report is a record; a field an engine left out is Missing, and each   *)
(* reader has its own default for it.  A check_id is the pair of its rule  *)
(* and what follows the rule.  Zones, hosts and the texts of a finding     *)
(* (title, description, remediation, evidence, references) are numbers,    *)
(* in the order of the strings they stand for; 0 is the empty string.      *)
(***************************************************************************)
EXTENDS Integers, Sequences, FiniteSets

CONSTANT Alphabet   \* the segments of a check_id, in the order of strings

(***************************************************************************)
(* The segments the two mappings mint themselves; the names of the checks  *)
(* are the engine's.                                                       *)
(***************************************************************************)
Minted == {"", "chain_of_trust", "delegation", "leaf", "readiness", "check",
           "insecure", "bogus", "error"}

ASSUME AlphabetAssumption ==
  Alphabet \in Seq(STRING) /\ \A word \in Minted : \E i \in DOMAIN Alphabet : Alphabet[i] = word

Missing == "missing"

Field(value, default) == IF value = Missing THEN default ELSE value

(***************************************************************************)
(* Engine values are matched stripped and lowercased.                      *)
(***************************************************************************)
Spelled == [Bogus |-> "bogus", INSECURE |-> "insecure", FAIL |-> "fail", Safe |-> "safe"]

Canonical_Strict(value) == value
Canonical(value) == IF value \in DOMAIN Spelled THEN Spelled[value] ELSE value

-----------------------------------------------------------------------------
(* Severities *)

Bands == <<"critical", "high", "medium", "low", "info">>
Severity == {Bands[i] : i \in 1 .. 5}

ChainvalidatorStatus ==
  [secure |-> "info", insecure |-> "medium", bogus |-> "high", error |-> "low"]

QuantumvalidatorStatus ==
  [pass |-> "info", info |-> "info", safe |-> "info",
   fail |-> "medium", unsafe |-> "medium", error |-> "low"]

(***************************************************************************)
(* A value outside the table has no severity: the mapping raises, and the  *)
(* run has no result.  Unmapped marks the finding that raised.             *)
(***************************************************************************)
Unmapped == "unmapped"

MapSeverity(table, value) ==
  IF Canonical(value) \in DOMAIN table THEN table[Canonical(value)] ELSE Unmapped

-----------------------------------------------------------------------------
(* Findings *)

Finding(rule, detail, severity, resource, text) ==
  [rule |-> rule, detail |-> detail, severity |-> severity,
   resource |-> resource, text |-> text]

(***************************************************************************)
(* The items at the indices I, in their order: what a loop that skips the  *)
(* others has appended.                                                    *)
(***************************************************************************)
Kept(items, I) ==
  [n \in 1 .. Cardinality(I) |->
     items[CHOOSE i \in I : Cardinality({j \in I : j <= i}) = n]]

(***************************************************************************)
(* dnssec/mapping.py: the overall finding, one per delegation that is not  *)
(* secure, and one for a leaf that is not.                                 *)
(***************************************************************************)
ChainStatus(item, default) == Canonical(Field(item.status, default))

LinkFinding(rule, link) ==
  LET status == ChainStatus(link, "secure") IN
  Finding(rule, status, MapSeverity(ChainvalidatorStatus, status),
          link.zone, link.text)

NotSecure(links) == {i \in DOMAIN links : ChainStatus(links[i], "secure") # "secure"}

NormalizeDnssec(report) ==
  LET status  == ChainStatus(report, "error")
      overall == Finding("chain_of_trust", "", MapSeverity(ChainvalidatorStatus, status),
                         report.domain, report.text)
      broken  == Kept(report.chain, NotSecure(report.chain))
      leaves  == Kept(report.leaf, NotSecure(report.leaf))
  IN  <<overall>> \o [i \in DOMAIN broken |-> LinkFinding("delegation", broken[i])]
                  \o [i \in DOMAIN leaves |-> LinkFinding("leaf", leaves[i])]

Having(items, default, status) ==
  Cardinality({i \in DOMAIN items : ChainStatus(items[i], default) = status})

SummarizeDnssec(report) ==
  [passed |-> ChainStatus(report, "") = "secure",
   medium |-> Having(report.chain, "", "insecure"),
   other  |-> Having(report.chain, "", "bogus")]

(***************************************************************************)
(* pqc/mapping.py: the overall finding and one per check that failed or    *)
(* could not run.                                                          *)
(***************************************************************************)
CheckFinding(check, target) ==
  LET status == ChainStatus(check, "pass") IN
  Finding("check", check.name, MapSeverity(QuantumvalidatorStatus, status),
          target, check.text)

Flagged(checks) == {i \in DOMAIN checks : ChainStatus(checks[i], "pass") \in {"fail", "error"}}

NormalizePqc(report) ==
  LET verdict == ChainStatus(report, "unsafe")
      overall == Finding("readiness", "", MapSeverity(QuantumvalidatorStatus, verdict),
                         report.target, report.text)
      flagged == Kept(report.checks, Flagged(report.checks))
  IN  <<overall>> \o [i \in DOMAIN flagged |-> CheckFinding(flagged[i], report.target)]

SummarizePqc(report) ==
  [passed |-> ChainStatus(report, "") = "safe",
   medium |-> Having(report.checks, "", "fail"),
   other  |-> Having(report.checks, "", "error")]

-----------------------------------------------------------------------------
(* Rows *)

Position(sequence, element) == CHOOSE i \in DOMAIN sequence : sequence[i] = element

OrderKey_Identity(f) ==
  <<Position(Bands, f.severity), Position(Alphabet, f.rule),
    Position(Alphabet, f.detail), f.resource>>

OrderKey(f) ==
  <<Position(Bands, f.severity), Position(Alphabet, f.rule),
    Position(Alphabet, f.detail), f.resource, f.text>>

Before(k, l) ==
  \E i \in DOMAIN k : k[i] < l[i] /\ \A h \in 1 .. i - 1 : k[h] = l[h]

(***************************************************************************)
(* sorted is stable: of two findings with one key the earlier stays first. *)
(***************************************************************************)
OrderFindings(findings) ==
  LET Precedes(i, j) ==
        LET k == OrderKey(findings[i])  l == OrderKey(findings[j])
        IN  Before(k, l) \/ (k = l /\ i < j)
      place(i) == 1 + Cardinality({j \in DOMAIN findings : Precedes(j, i)})
  IN  [n \in DOMAIN findings |->
         findings[CHOOSE i \in DOMAIN findings : place(i) = n]]

SeverityCounts(findings) ==
  [band \in Severity |->
     Cardinality({i \in DOMAIN findings : findings[i].severity = band})]
=============================================================================
