----------------------------- MODULE DomainClaims -----------------------------
(***************************************************************************)
(* What domain verification promises, with no calls and no transactions: a *)
(* domain names at most one organization, for good; an asset keeps the     *)
(* coverage it has until it proves another; and an organization is named   *)
(* once, by the first domain that it proves.                               *)
(***************************************************************************)
CONSTANTS Asset, Organization, Value, Owner, ValueOf, None

Coverage == {"exact", "zone"}

VARIABLES
  coverage,  \* of an asset: the scope of its proof, or "none"
  name       \* of an organization: its domain, or None

Init ==
  /\ coverage = [a \in Asset |-> "none"]
  /\ name = [o \in Organization |-> None]

(* The claim on the domain and the name of the organization, in one. *)
Prove(a, scope) ==
  /\ \A b \in Asset \ {a} : ValueOf[b] = ValueOf[a] => coverage[b] = "none"
  /\ coverage' = [coverage EXCEPT ![a] = scope]
  /\ name' = IF name[Owner[a]] = None THEN [name EXCEPT ![Owner[a]] = ValueOf[a]]
                                      ELSE name

Next == \E a \in Asset, scope \in Coverage : Prove(a, scope)

Spec == Init /\ [][Next]_<<coverage, name>>
=============================================================================
