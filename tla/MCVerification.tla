--------------------------- MODULE MCVerification ---------------------------
(***************************************************************************)
(* Instances of DomainVerification for TLC: two organizations, the first   *)
(* with two assets, one of which the second has as well.                   *)
(***************************************************************************)
EXTENDS DomainProperties, TLC

CONSTANTS a1, a2, b1, o1, o2, v1, v2

Owners == [a \in {a1, a2, b1} |-> IF a = b1 THEN o2 ELSE o1]
Values == [a \in {a1, a2, b1} |-> IF a = a2 THEN v2 ELSE v1]

Alike == Permutations(Call) \cup Permutations(Secret) \cup Permutations(Resolver)
=============================================================================
