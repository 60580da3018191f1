--------------------------- MODULE DomainProperties ---------------------------
(***************************************************************************)
(* What domain verification promises, and what it does not.                *)
(***************************************************************************)
EXTENDS DomainVerification

Code == {"none", "dns", "policy", "challenge", "claim"}

Challenge == [token : Secret, scope : Scope, expires : Nat, failure : Code]

Proof == [scope : Scope, token : Secret, validated : BOOLEAN, answers : Nat, at : Nat]

Grant == [asset : Asset, scope : Scope, at : Nat]

Place == {"token", "regenerate", "lookup", "reread", "stamp", "claim", "name", "commit"}

Local == [at : Place, asset : Asset, token : Secret \cup {None},
          scope : Scope \cup {"none"}, began : Nat, found : BOOLEAN, code : Code,
          validated : BOOLEAN, answers : Nat, names : BOOLEAN]

(* Rows and calls have the fields, and the values, that the code gives them. *)
TypeOK ==
  /\ now \in 0 .. MaxNow
  /\ challenge \in [Asset -> Challenge \cup {NoChallenge}]
  /\ proof \in [Asset -> Proof \cup {NoProof}]
  /\ name \in [Organization -> Value \cup {None}]
  /\ zone \in [Value -> SUBSET Secret]
  /\ issued \in [Secret -> Grant \cup {Unissued}]
  /\ call \in [Call -> Local \cup {Idle}]

(***************************************************************************)
(* A proof is earned, whatever replaced its challenge meanwhile: its token *)
(* was issued to this asset for this coverage, was published under its     *)
(* domain, and had not expired when the proof was dated; and the answers   *)
(* were validated, as a zone demands, or corroborated (run_check).         *)
(***************************************************************************)
ProofEarned ==
  \A a \in {b \in Asset : Proven(b)} :
    LET p == proof[a] IN
    /\ issued[p.token].asset = a /\ issued[p.token].scope = p.scope
    /\ p.token \in zone[ValueOf[a]]
    /\ p.at < issued[p.token].at + TTL
    /\ p.validated \/ (p.scope = "exact" /\ p.answers >= Quorum)

(***************************************************************************)
(* A challenge that says the claim was lost says the truth: another        *)
(* organization has the proof of that domain.  The operator's release of a *)
(* claim (docs/verification-claim-release.md) is left out: it would take   *)
(* the proof and leave the losers' failures.                               *)
(***************************************************************************)
LossExplained ==
  \A a \in Asset : challenge[a].failure = "claim" =>
    ~Proven(a) /\ \E b \in Asset : /\ ValueOf[b] = ValueOf[a] /\ Owner[b] # Owner[a]
                                   /\ Proven(b)

(***************************************************************************)
(* Verification implements the claims it promises: committed proofs and    *)
(* names change only as DomainClaims lets them, as long as no operator     *)
(* releases a claim.                                                       *)
(***************************************************************************)
Claims == INSTANCE DomainClaims
            WITH coverage <- [a \in Asset |-> proof[a].scope], name <- name
ImplementsClaims == Claims!Spec
=============================================================================
