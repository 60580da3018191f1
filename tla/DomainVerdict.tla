---------------------------- MODULE DomainVerdict ----------------------------
(***************************************************************************)
(* What the answers of the configured resolvers prove about a domain: the  *)
(* pure half of domains/assets/verification.py.  A TXT record is a         *)
(* sequence of character-strings, a string a sequence of letters.          *)
(***************************************************************************)
EXTENDS Integers, FiniteSets, Sequences, SequencesExt

CONSTANTS
  Resolver,  \* settings.verification_resolvers
  Quorum     \* settings.verification_resolver_quorum

Scope == {"exact", "zone"}

DnsOutcome == {"answered", "no_record", "name_not_found", "timeout",
               "server_failure", "transport_failure", "not_attempted"}

ASSUME VerdictAssumption == IsFiniteSet(Resolver) /\ Quorum \in Nat

PlatformOutcomes == {"timeout", "transport_failure", "not_attempted"}

(***************************************************************************)
(* The token and what else may be published at its name: the token split   *)
(* in two strings, each half alone, and the token inside a longer record.  *)
(***************************************************************************)
Token == <<"a", "b">>
Carrier == {<<<<"a", "b">>>>, <<<<"a">>, <<"b">>>>}
Foreign == {<<<<"a">>>>, <<<<"b">>>>, <<<<"a", "b">>, <<"c">>>>}

TokenMatches(records) == \E rr \in records : FlattenSeq(rr) = Token

(* AD is reported with an answer only. *)
Answers(published) ==
  [outcome : DnsOutcome \ {"answered"}, authenticated : {FALSE}, records : {{}}]
    \cup [outcome : {"answered"}, authenticated : BOOLEAN,
          records : SUBSET (Foreign \cup (IF published THEN Carrier ELSE {}))]

-----------------------------------------------------------------------------
(***************************************************************************)
(* A failure code is a namespace and a name; the namespace says what the   *)
(* client can do about it.                                                 *)
(***************************************************************************)
Unavailable == <<"platform", "resolver-unavailable">>
Success == <<"none", "none">>

Failed(code) == [verified |-> FALSE, code |-> code, validated |-> FALSE, answers |-> 0]

(* A definite answer about the name before a fault of the transport. *)
NoAnswerCode(seen) ==
  CASE "no_record" \in seen -> <<"dns", "record-not-found">>
    [] "no_record" \notin seen /\ "name_not_found" \in seen -> <<"dns", "name-not-found">>
    [] OTHER -> <<"dns", "resolver-failure">>

WithoutAnswer(seen) ==
  Failed(IF seen # {} /\ seen \subseteq PlatformOutcomes
           THEN Unavailable ELSE NoAnswerCode(seen))

WithoutToken(answers, answered) ==
  Failed(IF \A r \in answered : answers[r].records = {}
           THEN <<"dns", "record-not-found">> ELSE <<"dns", "token-mismatch">>)

WithToken(answers, carrying, scope) ==
  LET validated == \A r \in carrying : answers[r].authenticated
      reached   == Cardinality(carrying) >= Quorum
  IN  CASE scope = "zone" /\ ~validated -> Failed(<<"policy", "zone-requires-dnssec">>)
        [] scope = "exact" /\ ~validated /\ ~reached ->
             Failed(<<"dns", "corroboration-not-reached">>)
        [] OTHER -> [verified |-> TRUE, code |-> Success, validated |-> validated,
                     answers |-> Cardinality(carrying)]

Evaluate(answers, scope) ==
  LET answered == {r \in Resolver : answers[r].outcome = "answered"}
      carrying == {r \in answered : TokenMatches(answers[r].records)}
  IN  CASE answered = {} -> WithoutAnswer({answers[r].outcome : r \in Resolver})
        [] answered # {} /\ carrying = {} -> WithoutToken(answers, answered)
        [] OTHER -> WithToken(answers, carrying, scope)

(* What a check may find, by whether the token was published and the scope. *)
Verdicts ==
  [published \in BOOLEAN |-> [scope \in Scope |->
     {Evaluate(answers, scope) : answers \in [Resolver -> Answers(published)]}]]

FailureCode ==
  {<<"dns", "record-not-found">>, <<"dns", "name-not-found">>, <<"dns", "token-mismatch">>,
   <<"dns", "resolver-failure">>, <<"dns", "corroboration-not-reached">>,
   <<"policy", "zone-requires-dnssec">>, Unavailable}

Verdict == [verified : BOOLEAN, code : FailureCode \cup {Success},
            validated : BOOLEAN, answers : Nat]
=============================================================================
