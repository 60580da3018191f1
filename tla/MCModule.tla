------------------------------- MODULE MCModule -------------------------------
(***************************************************************************)
(* An instance of ModuleRun for TLC: few lines, and reports that have      *)
(* every status, spelling and default, ties in the order, and a value no   *)
(* table has.                                                              *)
(***************************************************************************)
EXTENDS ModuleProperties

TwoLines == <<"l1", "l2">>

Words == <<"", "bogus", "chain_of_trust", "check", "delegation", "error", "group",
           "insecure", "leaf", "readiness", "version">>

Link(status, zone, text) == [status |-> status, zone |-> zone, text |-> text]
SomeLinks == {Link("secure", 1, 0), Link("INSECURE", 2, 1), Link("insecure", 2, 2),
              Link("bogus", 1, 0), Link("error", 2, 1), Link(Missing, 1, 1)}
UpTo(n, S) == UNION {[1 .. k -> S] : k \in 0 .. n}

(* Kept is the filter of the standard modules. *)
ASSUME KeptFilters ==
  \A items \in UpTo(4, 0 .. 2) :
    Kept(items, {i \in DOMAIN items : items[i] # 0}) = SelectSeq(items, LAMBDA item : item # 0)

Chained(chains, leaves) ==
  [status : {"secure", "bogus", "odd", Missing}, domain : {1}, text : {0},
   chain : chains, leaf : leaves]

(* A leaf that adds no row, or none of the rows, is seen with short chains. *)
ChainReports ==
  Chained(UpTo(2, SomeLinks)
            \cup {<<Link("insecure", 2, 2), Link("bogus", 1, 0), Link("insecure", 2, 1)>>},
          {<<>>, <<Link("Bogus", 1, 0)>>})
  \cup Chained(UpTo(1, SomeLinks), {<<Link("secure", 1, 0)>>, <<Link("odd", 1, 0)>>})

Probe(name, status, text) == [name |-> name, status |-> status, text |-> text]
Probes == {Probe("group", "FAIL", 1), Probe("group", "fail", 2), Probe("version", "error", 1),
           Probe("version", "pass", 0), Probe("group", "info", 0)}

ProbeReports ==
  [status : {"Safe", "unsafe", "odd", Missing}, target : {1}, text : {0},
   checks : UpTo(2, Probes)]

AnyOption ==
  {[kind |-> "number", value |-> v] : v \in {-1, 0, 2, 9}}
  \cup {[kind |-> "flag", value |-> v] : v \in {0, 1}}
  \cup {[kind |-> "fraction", value |-> 2], [kind |-> "wide", value |-> 9],
        [kind |-> "other", value |-> 0]}
=============================================================================
