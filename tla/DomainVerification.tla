-------------------------- MODULE DomainVerification --------------------------
(***************************************************************************)
(* Proving that an organization controls a domain: challenges, checks and  *)
(* proofs of domains/assets/ and the naming of an organization, over       *)
(* PostgreSQL at READ COMMITTED.                                           *)
(*                                                                         *)
(* A call is a request in progress.  The variables are what is committed;  *)
(* what a transaction has written is in the call until it commits, and     *)
(* holds the rows it wrote.  A check is two transactions with the lookup   *)
(* between them.  Row security confines a call to its own organization;    *)
(* the index on domain_verification.value alone is platform-wide.          *)
(***************************************************************************)
EXTENDS DomainVerdict

CONSTANTS
  Asset, Organization, Value,  \* domain assets, their owners and domains
  Owner, ValueOf,              \* organization_id and value of an asset
  Call,                        \* calls that may be in progress together
  Secret,                      \* tokens that generate_token may return
  None,
  TTL,                         \* VERIFICATION_TOKEN_TTL
  MaxNow                       \* bound on the clock

ASSUME VerificationAssumption ==
  /\ Owner \in [Asset -> Organization]
  /\ ValueOf \in [Asset -> Value]
  /\ None \notin Value \cup Secret \cup Asset
  /\ TTL \in Nat \ {0} /\ MaxNow \in Nat

(* uq_asset_organization_id_asset_type_value *)
ASSUME AssetKey ==
  \A a, b \in Asset : Owner[a] = Owner[b] /\ ValueOf[a] = ValueOf[b] => a = b

VARIABLES
  now,        \* the database clock
  challenge,  \* the domain_verification_challenge row of an asset
  proof,      \* the domain_verification row of an asset
  name,       \* the name of an organization, once it has named_at
  zone,       \* the tokens that have been published under a domain
  issued,     \* of a token: the asset, scope and time it was issued for
  call        \* where each call is, with its local variables

rows == <<challenge, proof, name>>
vars == <<now, challenge, proof, name, zone, issued, call>>

NoChallenge == [token |-> None, scope |-> "none", expires |-> 0,
                failure |-> "none"]
NoProof == [scope |-> "none", token |-> None, validated |-> FALSE,
            answers |-> 0, at |-> 0]
Unissued == [asset |-> None, scope |-> "none", at |-> 0]

(***************************************************************************)
(* The local variables of a call; found: whether the token was published   *)
(* at the time of the lookup, code: what the check is going to stamp.  Of  *)
(* a failure code the rows keep the namespace.                             *)
(***************************************************************************)
Idle == [at |-> "idle", asset |-> None, token |-> None, scope |-> "none",
         began |-> 0, found |-> FALSE, code |-> "none", validated |-> FALSE,
         answers |-> 0, names |-> FALSE]

Pending(a) == challenge[a].token # None
Proven(a) == proof[a].scope # "none"

-----------------------------------------------------------------------------
(* Steps of the handlers *)

End(c) == call' = [call EXCEPT ![c] = Idle]
Goto_Fresh(c, place) == call' = [call EXCEPT ![c] = [Idle EXCEPT !.at = place]]
Goto(c, place) == call' = [call EXCEPT ![c].at = place]

(* A fresh challenge in place of the one in progress, never checked so far. *)
Upsert(a, scope, began) ==
  \E t \in Secret :
    /\ issued[t] = Unissued
    /\ issued' = [issued EXCEPT ![t] = [asset |-> a, scope |-> scope, at |-> began]]
    /\ challenge' = [challenge EXCEPT ![a] =
                       [token |-> t, scope |-> scope, expires |-> began + TTL,
                        failure |-> "none"]]

Stamped(a, code) == [challenge EXCEPT ![a].failure = code]

StartChallenge(c, a, scope) ==
  /\ call[c].at = "idle"
  /\ Upsert(a, scope, now)
  /\ UNCHANGED <<now, proof, name, zone, call>>

(* No proof stands; the challenge is read by the next statement. *)
ReadForToken(c, a) ==
  /\ call[c].at = "idle" /\ ~Proven(a)
  /\ call' = [call EXCEPT ![c] = [Idle EXCEPT !.at = "token", !.asset = a, !.began = now]]
  /\ UNCHANGED <<now, rows, zone, issued>>

(* The token of a challenge is replaced at the scope that it is read with. *)
ReadScope(c) ==
  LET a == call[c].asset IN
  /\ call[c].at = "token" /\ Pending(a)
  /\ call' = [call EXCEPT ![c].at = "regenerate", ![c].scope = challenge[a].scope]
  /\ UNCHANGED <<now, rows, zone, issued>>

NotStarted(c) ==
  /\ call[c].at = "token" /\ ~Pending(call[c].asset)
  /\ End(c)
  /\ UNCHANGED <<now, rows, zone, issued>>

RegenerateToken(c) ==
  /\ call[c].at = "regenerate"
  /\ Upsert(call[c].asset, call[c].scope, call[c].began)
  /\ End(c)
  /\ UNCHANGED <<now, proof, name, zone>>

(* The first transaction of a check ends before the lookup. *)
ReadForCheck(c, a) ==
  /\ call[c].at = "idle"
  /\ Pending(a) /\ challenge[a].expires > now
  /\ call' = [call EXCEPT ![c] = [Idle EXCEPT !.at = "lookup", !.asset = a,
                                              !.token = challenge[a].token,
                                              !.scope = challenge[a].scope]]
  /\ UNCHANGED <<now, rows, zone, issued>>

Resolve(c) ==
  LET q == call[c] IN
  /\ q.at = "lookup"
  /\ call' = [call EXCEPT ![c].at = "reread", ![c].found = q.token \in zone[ValueOf[q.asset]]]
  /\ UNCHANGED <<now, rows, zone, issued>>

(* No resolver is configured, or the process has no capacity left. *)
NoResolver(c) == call[c].at = "lookup" /\ End(c) /\ UNCHANGED <<now, rows, zone, issued>>

-----------------------------------------------------------------------------
(* The second transaction of a check *)

Lapsed(q) == challenge[q.asset].expires <= now
Superseded_Unchecked(q) == FALSE
Superseded(q) == ~Lapsed(q) /\ challenge[q.asset].token # q.token

(* What the check found goes on the challenge that stands by the next step. *)
ToStamp(c, code) ==
  call' = [call EXCEPT ![c] = [Idle EXCEPT !.at = "stamp", !.asset = call[c].asset,
                                              !.code = code]]

(* The challenge stands, as it was read: the answers are evaluated. *)
Decide(c) ==
  LET q == call[c] IN
  /\ q.at = "reread" /\ ~Lapsed(q) /\ ~Superseded(q)
  /\ \E verdict \in Verdicts[q.found][q.scope] :
       IF verdict.verified
         THEN call' = [call EXCEPT ![c].at = "claim", ![c].began = now, ![c].found = FALSE,
                                   ![c].validated = verdict.validated,
                                   ![c].answers = verdict.answers]
         ELSE /\ verdict.code # Unavailable
              /\ ToStamp(c, verdict.code[1])
  /\ UNCHANGED <<now, rows, zone, issued>>

(* The token was replaced during the lookup, which says nothing of the new one. *)
Supersede(c) ==
  /\ call[c].at = "reread" /\ Superseded(call[c])
  /\ ToStamp(c, "challenge")
  /\ UNCHANGED <<now, rows, zone, issued>>

(* The challenge expired, or no resolver said a thing: nothing is recorded. *)
RefuseCheck(c) ==
  LET q == call[c] IN
  /\ q.at = "reread"
  /\ \/ Lapsed(q)
     \/ /\ ~Superseded(q)
        /\ \E verdict \in Verdicts[q.found][q.scope] :
             verdict.code = Unavailable
  /\ End(c)
  /\ UNCHANGED <<now, rows, zone, issued>>

Stamp(c) ==
  /\ call[c].at = "stamp"
  /\ challenge' = Stamped(call[c].asset, call[c].code)
  /\ End(c)
  /\ UNCHANGED <<now, proof, name, zone, issued>>

(* The key of a domain's proof is held from its insert to the commit. *)
Holds(c) == call[c].at \in {"name", "commit"}
KeyFree(c) == \A d \in Call \ {c} :
                Holds(d) => ValueOf[call[d].asset] # ValueOf[call[c].asset]

(* Whether another asset, hence another organization, has the proof. *)
Claimed_ByItself(a) == \E b \in Asset : ValueOf[b] = ValueOf[a] /\ Proven(b)
Claimed(a) == \E b \in Asset \ {a} : ValueOf[b] = ValueOf[a] /\ Proven(b)

Claim(c) ==
  /\ call[c].at = "claim" /\ KeyFree(c)
  /\ ~Claimed(call[c].asset)
  /\ Goto(c, "name")
  /\ UNCHANGED <<now, rows, zone, issued>>

(* The savepoint is rolled back, and the refusal stamped in the transaction. *)
LoseClaim(c) ==
  /\ call[c].at = "claim" /\ KeyFree(c)
  /\ Claimed(call[c].asset)
  /\ ToStamp(c, "claim")
  /\ UNCHANGED <<now, rows, zone, issued>>

(* The update of the organization waits for another that has it. *)
NameOrganization_Unlocked(c) ==
  /\ call[c].at = "name"
  /\ call' = [call EXCEPT ![c].at = "commit",
                          ![c].names = name[Owner[call[c].asset]] = None]
  /\ UNCHANGED <<now, rows, zone, issued>>
NameOrganization(c) ==
  LET o == Owner[call[c].asset] IN
  /\ call[c].at = "name"
  /\ \A d \in Call \ {c} : call[d].at = "commit" /\ call[d].names
                             => Owner[call[d].asset] # o
  /\ call' = [call EXCEPT ![c].at = "commit", ![c].names = name[o] = None]
  /\ UNCHANGED <<now, rows, zone, issued>>

Commit(c) ==
  LET q == call[c]
      a == q.asset
  IN  /\ q.at = "commit"
      /\ proof' = [proof EXCEPT ![a] =
                     [scope |-> q.scope, token |-> q.token, at |-> q.began,
                      validated |-> q.validated, answers |-> q.answers]]
      /\ name' = IF q.names THEN [name EXCEPT ![Owner[a]] = ValueOf[a]] ELSE name
      /\ challenge' = Stamped(a, "none")
      /\ End(c)
      /\ UNCHANGED <<now, zone, issued>>

(* The process or its connection dies; an open transaction is rolled back. *)
Crash(c) == call[c].at # "idle" /\ End(c) /\ UNCHANGED <<now, rows, zone, issued>>

-----------------------------------------------------------------------------
(* The environment *)

Tick == now < MaxNow /\ now' = now + 1 /\ UNCHANGED <<rows, zone, issued, call>>

(* Who runs the zone publishes a token that was shown for it. *)
Publish(t) ==
  /\ issued[t] # Unissued
  /\ LET v == ValueOf[issued[t].asset]
     IN  t \notin zone[v] /\ zone' = [zone EXCEPT ![v] = @ \cup {t}]
  /\ UNCHANGED <<now, rows, issued, call>>

Init ==
  /\ now = 0
  /\ challenge = [a \in Asset |-> NoChallenge]
  /\ proof = [a \in Asset |-> NoProof]
  /\ name = [o \in Organization |-> None]
  /\ zone = [v \in Value |-> {}]
  /\ issued = [t \in Secret |-> Unissued]
  /\ call = [c \in Call |-> Idle]

(* A step of a call in progress. *)
Proceed(c) ==
  \/ ReadScope(c) \/ NotStarted(c) \/ RegenerateToken(c) \/ Resolve(c) \/ NoResolver(c) \/ Decide(c) \/ Supersede(c)
  \/ RefuseCheck(c) \/ Stamp(c) \/ Claim(c) \/ LoseClaim(c) \/ NameOrganization(c) \/ Commit(c)

Quiet == (\A c \in Call : call[c].at = "idle") /\ UNCHANGED vars

Next ==
  \/ Tick \/ Quiet
  \/ \E t \in Secret : Publish(t)
  \/ \E c \in Call :
       \/ \E a \in Asset : \/ \E scope \in Scope : StartChallenge(c, a, scope)
                           \/ ReadForToken(c, a)
                           \/ ReadForCheck(c, a)
       \/ Proceed(c) \/ Crash(c)

Spec == Init /\ [][Next]_vars
=============================================================================
