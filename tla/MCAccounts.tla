------------------------------ MODULE MCAccounts ------------------------------
(***************************************************************************)
(* Instances of Accounts for TLC.                                          *)
(***************************************************************************)
EXTENDS AccountProperties, TLC

CONSTANTS s1, s2, s3, s4

(***************************************************************************)
(* Sessions are alike, so of all the names a new one could take only the   *)
(* first that is free is followed: the same reduction as a symmetry set of *)
(* the sessions, and a cheaper one.                                        *)
(***************************************************************************)
Before(s) == CASE s = s1 -> {}
               [] s = s2 -> {s1}
               [] s = s3 -> {s1, s2}
               [] s = s4 -> {s1, s2, s3}

InOrder ==
  \A s \in Session : session[s] # Absent => \A t \in Before(s) : session[t] # Absent

(***************************************************************************)
(* Bounds of accounts.cfg: four sessions in all, two of them live at a     *)
(* time, and no failed login before.  accounts_ends.cfg follows those.     *)
(***************************************************************************)
Bounded ==
  /\ InOrder
  /\ Cardinality(Live) <= 2
  /\ credential.lockedUntil = NoTime /\ ~credential.stale

Alike == Permutations(Request) \cup Permutations(CodeSet)

(* accounts_ends.cfg starts with one or two live sessions and room for one. *)
EndsInit ==
  /\ Init
  /\ session[s1] # Absent /\ session[s3] = Absent
  /\ ~credential.stale

EndsSpec == EndsInit /\ [][Next]_vars /\ Fairness
=============================================================================
