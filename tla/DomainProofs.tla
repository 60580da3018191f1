----------------------------- MODULE DomainProofs -----------------------------
(***************************************************************************)
(* Type correctness of DomainVerification, what its verdicts are worth,    *)
(* the safety of its proofs and the claims it implements, for every set of *)
(* assets, organizations, calls, tokens and resolvers, and any quorum.     *)
(***************************************************************************)
EXTENDS DomainProperties, FiniteSetTheorems, TLAPS

(* The strings of one record joined, for the records that TXT answers carry. *)
LEMMA JoinOne ==
  ASSUME NEW x
  PROVE  FlattenSeq(<<x>>) = x
<1>. DEFINE F(g) == [i \in 1 .. Len(<<x>>) |-> IF i = 1 THEN <<x>>[i] ELSE g[i-1] \o <<x>>[i]]
            w == [i \in 1 .. 1 |-> x]
<1>1. Len(<<x>>) = 1 /\ <<x>>[1] = x
  OBVIOUS
<1>2. w = F(w)
  BY <1>1
<1>3. \A g : g = F(g) => g[1] = x
  BY <1>1
<1>4. FlattenSeq(<<x>>) = (CHOOSE g : g = F(g))[1]
  BY <1>1 DEF FlattenSeq
<1>. QED  BY <1>2, <1>3, <1>4

LEMMA JoinTwo ==
  ASSUME NEW x, NEW y
  PROVE  FlattenSeq(<<x, y>>) = x \o y
<1>. DEFINE F(g) == [i \in 1 .. Len(<<x, y>>) |->
                       IF i = 1 THEN <<x, y>>[i] ELSE g[i-1] \o <<x, y>>[i]]
            w == [i \in 1 .. 2 |-> IF i = 1 THEN x ELSE x \o y]
<1>1. Len(<<x, y>>) = 2 /\ <<x, y>>[1] = x /\ <<x, y>>[2] = y
  OBVIOUS
<1>2. w = F(w)
  BY <1>1
<1>3. \A g : g = F(g) => g[2] = x \o y
  <2>. SUFFICES ASSUME NEW g, g = F(g) PROVE g[2] = x \o y
    OBVIOUS
  <2>1. F(g)[1] = x /\ F(g)[2] = g[1] \o y
    BY <1>1
  <2>. HIDE DEF F
  <2>. QED  BY <2>1
<1>4. FlattenSeq(<<x, y>>) = (CHOOSE g : g = F(g))[2]
  BY <1>1 DEF FlattenSeq
<1>. QED  BY <1>2, <1>3, <1>4

(* Records that do not carry the token do not match it. *)
LEMMA ForeignNoMatch ==
  ASSUME NEW records \in SUBSET Foreign
  PROVE  ~TokenMatches(records)
<1>1. FlattenSeq(<<<<"a">>>>) # Token
  BY JoinOne DEF Token
<1>2. FlattenSeq(<<<<"b">>>>) # Token
  BY JoinOne DEF Token
<1>3. FlattenSeq(<<<<"a", "b">>, <<"c">>>>) # Token
  <2>1. FlattenSeq(<<<<"a", "b">>, <<"c">>>>) = <<"a", "b">> \o <<"c">>
    BY JoinTwo
  <2>2. Len(<<"a", "b">> \o <<"c">>) = 3 /\ Len(Token) = 2
    BY DEF Token
  <2>. QED  BY <2>1, <2>2
<1>. QED  BY <1>1, <1>2, <1>3 DEF Foreign, TokenMatches

(* A failure is a failure, with a code of its own. *)
LEMMA FailedIsVerdict ==
  ASSUME NEW code \in FailureCode
  PROVE  Failed(code) \in Verdict /\ ~Failed(code).verified /\ Failed(code).code = code
BY DEF Failed, Verdict

LEMMA NoAnswerFails ==
  ASSUME NEW seen
  PROVE  \E code \in FailureCode : WithoutAnswer(seen) = Failed(code)
<1>1. NoAnswerCode(seen) \in FailureCode
  BY DEF NoAnswerCode, FailureCode
<1>2. Unavailable \in FailureCode
  BY DEF FailureCode
<1>. QED  BY <1>1, <1>2 DEF WithoutAnswer

LEMMA NoTokenFails ==
  ASSUME NEW answers, NEW answered
  PROVE  \E code \in FailureCode : WithoutToken(answers, answered) = Failed(code)
BY DEF WithoutToken, FailureCode

LEMMA TokenVerdict ==
  ASSUME NEW answers, NEW carrying \in SUBSET Resolver, NEW scope \in Scope
  PROVE  LET v == WithToken(answers, carrying, scope)
         IN  \/ \E code \in FailureCode : v = Failed(code)
             \/ /\ v \in Verdict /\ v.verified
                /\ v.validated \/ (scope = "exact" /\ v.answers >= Quorum)
<1>. DEFINE validated == \A r \in carrying : answers[r].authenticated
            reached   == Cardinality(carrying) >= Quorum
            v == WithToken(answers, carrying, scope)
<1>0. Cardinality(carrying) \in Nat
  BY VerdictAssumption, FS_Subset, FS_CardinalityType
<1>1. CASE scope = "zone" /\ ~validated
  BY <1>1 DEF WithToken, FailureCode
<1>2. CASE scope = "exact" /\ ~validated /\ ~reached
  <2>1. v = Failed(<<"dns", "corroboration-not-reached">>)
    BY <1>2 DEF WithToken
  <2>. QED  BY <2>1 DEF FailureCode
<1>3. CASE validated \/ (scope = "exact" /\ reached)
  <2>1. v = [verified |-> TRUE, code |-> Success, validated |-> validated,
             answers |-> Cardinality(carrying)]
    BY <1>3 DEF WithToken
  <2>2. validated \in BOOLEAN
    OBVIOUS
  <2>. HIDE DEF validated
  <2>3. v \in Verdict
    BY <1>0, <2>1, <2>2 DEF Verdict
  <2>. QED  BY <1>3, <2>1, <2>3
<1>. QED  BY <1>1, <1>2, <1>3 DEF Scope

(***************************************************************************)
(* A check is verified only when the token was published, and was          *)
(* validated, or corroborated where that will do.                          *)
(***************************************************************************)
Sound(v, found, scope) ==
  /\ v \in Verdict
  /\ v.verified => found /\ (v.validated \/ (scope = "exact" /\ v.answers >= Quorum))
  /\ ~v.verified => v.code \in FailureCode

LEMMA VerdictsSound ==
  ASSUME NEW found \in BOOLEAN, NEW scope \in Scope, NEW v \in Verdicts[found][scope]
  PROVE  Sound(v, found, scope)
<1>1. PICK answers \in [Resolver -> Answers(found)] : v = Evaluate(answers, scope)
  BY DEF Verdicts
<1>. DEFINE answered == {r \in Resolver : answers[r].outcome = "answered"}
            carrying == {r \in answered : TokenMatches(answers[r].records)}
<1>2. ASSUME NEW code \in FailureCode, v = Failed(code)
      PROVE  Sound(v, found, scope)
  BY <1>2, FailedIsVerdict DEF Sound
<1>3. CASE answered = {}
  <2>1. v = WithoutAnswer({answers[r].outcome : r \in Resolver})
    BY <1>1, <1>3 DEF Evaluate
  <2>. QED  BY <1>2, <2>1, NoAnswerFails
<1>4. CASE answered # {} /\ carrying = {}
  <2>1. v = WithoutToken(answers, answered)
    BY <1>1, <1>4 DEF Evaluate
  <2>. QED  BY <1>2, <2>1, NoTokenFails
<1>5. CASE answered # {} /\ carrying # {}
  <2>1. v = WithToken(answers, carrying, scope)
    BY <1>1, <1>5 DEF Evaluate
  <2>2. found
    <3>. SUFFICES ASSUME ~found PROVE FALSE
      OBVIOUS
    <3>1. PICK r \in Resolver : r \in answered /\ TokenMatches(answers[r].records)
      BY <1>5
    <3>2. answers[r].outcome = "answered" /\ answers[r] \in Answers(FALSE)
      BY <3>1
    <3>3. answers[r].records \in SUBSET Foreign
      BY <3>2 DEF Answers
    <3>. QED  BY <3>1, <3>3, ForeignNoMatch
  <2>. HIDE DEF carrying
  <2>3. carrying \in SUBSET Resolver
    BY DEF carrying
  <2>4. \/ \E code \in FailureCode : v = Failed(code)
        \/ /\ v \in Verdict /\ v.verified
           /\ v.validated \/ (scope = "exact" /\ v.answers >= Quorum)
    BY <2>1, <2>3, TokenVerdict
  <2>. QED  BY <1>2, <2>2, <2>4 DEF Sound
<1>. QED  BY <1>3, <1>4, <1>5

-----------------------------------------------------------------------------
(***************************************************************************)
(* The types are inductive together with what a call knows: it has a       *)
(* challenge, which is replaced but never goes away, and until it ends     *)
(* the scope and the token that it read.                                   *)
(***************************************************************************)
Known(q) ==
  /\ q.at \notin {"idle", "token"} => Pending(q.asset)
  /\ q.at \notin {"idle", "token", "stamp"} => q.scope \in Scope
  /\ q.at \in {"lookup", "reread", "claim", "name", "commit"} => q.token \in Secret

TypeInv == TypeOK /\ \A c \in Call : Known(call[c])

LEMMA IdleKnown == Known(Idle)
BY DEF Known, Idle

LEMMA InProgress ==
  ASSUME TypeInv, NEW c \in Call, call[c].at # "idle"
  PROVE  call[c] \in Local
BY DEF TypeInv, TypeOK, Idle

(* How the challenges may change. *)
Challenges(next) ==
  /\ next \in [Asset -> Challenge \cup {NoChallenge}]
  /\ \A a \in Asset : Pending(a) => next[a].token # None

LEMMA SameChallenges == TypeInv => Challenges(challenge)
BY DEF TypeInv, TypeOK, Challenges, Pending

LEMMA UpsertTypes ==
  ASSUME TypeInv, NEW a \in Asset, NEW scope \in Scope, NEW began \in Nat,
         Upsert(a, scope, began)
  PROVE  Challenges(challenge') /\ issued' \in [Secret -> Grant \cup {Unissued}]
<1>1. PICK t \in Secret :
        /\ issued' = [issued EXCEPT ![t] = [asset |-> a, scope |-> scope, at |-> began]]
        /\ challenge' = [challenge EXCEPT ![a] =
             [token |-> t, scope |-> scope, expires |-> began + TTL, failure |-> "none"]]
  BY DEF Upsert
<1>2. began + TTL \in Nat
  BY VerificationAssumption
<1>3. [token |-> t, scope |-> scope, expires |-> began + TTL, failure |-> "none"]
        \in Challenge
  BY <1>2 DEF Challenge, Code
<1>4. [asset |-> a, scope |-> scope, at |-> began] \in Grant
  BY DEF Grant
<1>5. t # None
  BY VerificationAssumption
<1>6. challenge \in [Asset -> Challenge \cup {NoChallenge}]
      /\ issued \in [Secret -> Grant \cup {Unissued}]
  BY DEF TypeInv, TypeOK
<1>7. issued' \in [Secret -> Grant \cup {Unissued}]
  BY <1>1, <1>4, <1>6
<1>8. challenge' \in [Asset -> Challenge \cup {NoChallenge}]
  BY <1>1, <1>3, <1>6
<1>9. \A b \in Asset : Pending(b) => challenge'[b].token # None
  BY <1>1, <1>5, <1>6 DEF Pending
<1>. QED  BY <1>7, <1>8, <1>9 DEF Challenges

LEMMA StampTypes ==
  ASSUME TypeInv, NEW a \in Asset, Pending(a), NEW code \in Code
  PROVE  Challenges(Stamped(a, code))
<1>1. challenge \in [Asset -> Challenge \cup {NoChallenge}] /\ challenge[a] \in Challenge
  BY DEF TypeInv, TypeOK, Pending, NoChallenge
<1>2. [challenge[a] EXCEPT !.failure = code] \in Challenge
  BY <1>1 DEF Challenge
<1>3. [challenge[a] EXCEPT !.failure = code].token = challenge[a].token
  BY <1>1 DEF Challenge
<1>4. Stamped(a, code) = [challenge EXCEPT ![a] = [challenge[a] EXCEPT !.failure = code]]
  BY DEF Stamped
<1>. QED  BY <1>1, <1>2, <1>3, <1>4 DEF Challenges, Pending

(* A step of one call keeps the types if its own locals have theirs. *)
LEMMA OneCall ==
  ASSUME TypeInv, NEW c \in Call, NEW q \in Local \cup {Idle}, Known(q),
         Challenges(challenge'), call' = [call EXCEPT ![c] = q]
  PROVE  /\ challenge' \in [Asset -> Challenge \cup {NoChallenge}]
         /\ call' \in [Call -> Local \cup {Idle}]
         /\ \A d \in Call : Known(call[d])'
<1>1. call \in [Call -> Local \cup {Idle}] /\ \A d \in Call : Known(call[d])
  BY DEF TypeInv, TypeOK
<1>2. \A d \in Call : call'[d] \in Local \cup {Idle} /\ Known(call'[d])
  BY <1>1
<1>3. \A p \in Local \cup {Idle} : p.at # "idle" => p.asset \in Asset
  BY DEF Local, Idle
<1>4. \A d \in Call : Known(call[d])'
  BY <1>2, <1>3 DEF Known, Pending, Challenges
<1>. QED  BY <1>1, <1>4 DEF Challenges

-----------------------------------------------------------------------------
(* Where a call goes, and with what. *)
Moved(c) == \E q \in Local \cup {Idle} : Known(q) /\ call' = [call EXCEPT ![c] = q]

LEMMA ReadMoves ==
  ASSUME TypeInv, NEW c \in Call, NEW a \in Asset, ReadForToken(c, a) \/ ReadForCheck(c, a)
  PROVE  Moved(c)
<1>0. now \in Nat
  BY DEF TypeInv, TypeOK
<1>1. CASE ReadForToken(c, a)
  <2>. DEFINE q == [Idle EXCEPT !.at = "token", !.asset = a, !.began = now]
  <2>1. q \in Local /\ Known(q)
    BY <1>0 DEF Idle, Local, Known, Place, Code
  <2>. QED  BY <1>1, <2>1 DEF ReadForToken, Moved
<1>2. CASE ReadForCheck(c, a)
  <2>. DEFINE q == [Idle EXCEPT !.at = "lookup", !.asset = a, !.token = challenge[a].token,
                                !.scope = challenge[a].scope]
  <2>1. Pending(a) /\ challenge[a] \in Challenge
    BY <1>2 DEF ReadForCheck, TypeInv, TypeOK, Pending, NoChallenge
  <2>2. q \in Local /\ Known(q)
    BY <2>1 DEF Idle, Local, Known, Place, Code, Challenge
  <2>. QED  BY <1>2, <2>2 DEF ReadForCheck, Moved
<1>. QED  BY <1>1, <1>2

LEMMA StampMoves ==
  ASSUME TypeInv, NEW c \in Call, call[c].at \notin {"idle", "token"}, NEW code \in Code,
         ToStamp(c, code)
  PROVE  Moved(c)
<1>. DEFINE q == [Idle EXCEPT !.at = "stamp", !.asset = call[c].asset, !.code = code]
<1>1. call[c] \in Local /\ Known(call[c])
  BY InProgress DEF TypeInv
<1>2. q \in Local
  BY <1>1 DEF Idle, Local, Place
<1>3. q.at = "stamp" /\ q.asset = call[c].asset
  BY DEF Idle
<1>4. Known(q)
  BY <1>1, <1>3 DEF Known
<1>. QED  BY <1>2, <1>4 DEF ToStamp, Moved

LEMMA EndMoves ==
  ASSUME TypeInv, NEW c \in Call, End(c)
  PROVE  Moved(c)
BY IdleKnown DEF End, Moved

(* The verdict of a check in progress. *)
LEMMA VerdictOfCall ==
  ASSUME TypeInv, NEW c \in Call, call[c].at = "reread",
         NEW verdict \in Verdicts[call[c].found][call[c].scope]
  PROVE  Sound(verdict, call[c].found, call[c].scope)
<1>1. call[c] \in Local /\ Known(call[c])
  BY InProgress DEF TypeInv
<1>2. call[c].found \in BOOLEAN /\ call[c].scope \in Scope
  BY <1>1 DEF Local, Known
<1>. QED  BY <1>2, VerdictsSound

LEMMA FailureNamespace ==
  ASSUME NEW code \in FailureCode \ {Unavailable}
  PROVE  code[1] \in {"dns", "policy"}
BY DEF FailureCode, Unavailable

LEMMA DecideMoves ==
  ASSUME TypeInv, NEW c \in Call, Decide(c)
  PROVE  Moved(c)
<1>0. call[c] \in Local /\ Known(call[c]) /\ call[c].at = "reread" /\ now \in Nat
  BY InProgress DEF TypeInv, TypeOK, Decide
<1>1. PICK verdict \in Verdicts[call[c].found][call[c].scope] :
        IF verdict.verified
          THEN call' = [call EXCEPT ![c].at = "claim", ![c].began = now, ![c].found = FALSE,
                                    ![c].validated = verdict.validated,
                                    ![c].answers = verdict.answers]
          ELSE /\ verdict.code # Unavailable
               /\ ToStamp(c, verdict.code[1])
  BY DEF Decide
<1>2. Sound(verdict, call[c].found, call[c].scope)
  BY <1>0, VerdictOfCall
<1>3. CASE verdict.verified
  <2>. DEFINE q == [call[c] EXCEPT !.at = "claim", !.began = now, !.found = FALSE,
                                   !.validated = verdict.validated,
                                   !.answers = verdict.answers]
  <2>1. verdict.validated \in BOOLEAN /\ verdict.answers \in Nat
    BY <1>2 DEF Sound, Verdict
  <2>2. q \in Local /\ Known(q)
    BY <1>0, <2>1 DEF Local, Known, Place
  <2>3. call' = [call EXCEPT ![c] = q]
    BY <1>1, <1>3
  <2>. QED  BY <2>2, <2>3 DEF Moved
<1>4. CASE ~verdict.verified
  <2>1. verdict.code[1] \in Code /\ ToStamp(c, verdict.code[1])
    BY <1>1, <1>2, <1>4, FailureNamespace DEF Sound, Code
  <2>. QED  BY <1>0, <2>1, StampMoves
<1>. QED  BY <1>3, <1>4

LEMMA GotoMoves ==
  ASSUME TypeInv, NEW c \in Call, Resolve(c) \/ Claim(c) \/ NameOrganization(c)
  PROVE  Moved(c)
<1>0. call[c] \in Local /\ Known(call[c])
  BY InProgress DEF TypeInv, Resolve, Claim, NameOrganization
<1>1. CASE Resolve(c)
  <2>. DEFINE found == call[c].token \in zone[ValueOf[call[c].asset]]
              q == [call[c] EXCEPT !.at = "reread", !.found = found]
  <2>1. call' = [call EXCEPT ![c] = q]
    BY <1>1 DEF Resolve
  <2>2. found \in BOOLEAN
    OBVIOUS
  <2>. HIDE DEF found
  <2>3. q \in Local /\ Known(q)
    BY <1>0, <1>1, <2>2 DEF Resolve, Local, Known, Place
  <2>. QED  BY <2>1, <2>3 DEF Moved
<1>2. CASE Claim(c)
  <2>. DEFINE q == [call[c] EXCEPT !.at = "name"]
  <2>1. q \in Local /\ Known(q)
    BY <1>0, <1>2 DEF Claim, Local, Known, Place
  <2>. QED  BY <1>2, <2>1 DEF Claim, Goto, Moved
<1>3. CASE NameOrganization(c)
  <2>. DEFINE names == name[Owner[call[c].asset]] = None
              q == [call[c] EXCEPT !.at = "commit", !.names = names]
  <2>1. call' = [call EXCEPT ![c] = q]
    BY <1>3 DEF NameOrganization
  <2>2. names \in BOOLEAN
    OBVIOUS
  <2>. HIDE DEF names
  <2>3. q \in Local /\ Known(q)
    BY <1>0, <1>3, <2>2 DEF NameOrganization, Local, Known, Place
  <2>. QED  BY <2>1, <2>3 DEF Moved
<1>. QED  BY <1>1, <1>2, <1>3

LEMMA ScopeMoves ==
  ASSUME TypeInv, NEW c \in Call, ReadScope(c)
  PROVE  Moved(c) /\ call'[c].at = "regenerate"
<1>. DEFINE q == [call[c] EXCEPT !.at = "regenerate", !.scope = challenge[call[c].asset].scope]
<1>1. call[c] \in Local /\ Pending(call[c].asset) /\ call[c].asset \in Asset
  BY InProgress DEF ReadScope, Local
<1>2. challenge[call[c].asset] \in Challenge
  BY <1>1 DEF TypeInv, TypeOK, Pending, NoChallenge
<1>3. q \in Local /\ Known(q) /\ q.at = "regenerate"
  BY <1>1, <1>2 DEF Local, Known, Place, Challenge
<1>4. call' = [call EXCEPT ![c] = q]
  BY DEF ReadScope
<1>. HIDE DEF q
<1>. QED  BY <1>3, <1>4 DEF Moved, TypeInv, TypeOK

LEMMA ProceedMoves ==
  ASSUME TypeInv, NEW c \in Call, Proceed(c) \/ Crash(c)
  PROVE  Moved(c)
<1>1. CASE NotStarted(c) \/ RegenerateToken(c) \/ NoResolver(c) \/ RefuseCheck(c) \/ Stamp(c)
           \/ Commit(c) \/ Crash(c)
  BY <1>1, EndMoves DEF NotStarted, RegenerateToken, NoResolver, RefuseCheck, Stamp, Commit, Crash
<1>2. CASE Supersede(c) \/ LoseClaim(c)
  BY <1>2, StampMoves DEF Supersede, LoseClaim, Code
<1>. QED  BY <1>1, <1>2, ScopeMoves, DecideMoves, GotoMoves DEF Proceed

-----------------------------------------------------------------------------
(* What a step of a call leaves in the rows. *)
RowTypes ==
  /\ Challenges(challenge')
  /\ issued' \in [Secret -> Grant \cup {Unissued}]
  /\ proof' \in [Asset -> Proof \cup {NoProof}]
  /\ name' \in [Organization -> Value \cup {None}]
  /\ now' = now /\ zone' = zone

LEMMA RowsLeft ==
  ASSUME TypeInv, UNCHANGED <<now, rows, zone, issued>>
  PROVE  RowTypes
BY SameChallenges DEF rows, TypeInv, TypeOK, RowTypes, Challenges, Pending

LEMMA CommitRows ==
  ASSUME TypeInv, NEW c \in Call, Commit(c)
  PROVE  RowTypes
<1>. DEFINE q == call[c]
            p == [scope |-> q.scope, token |-> q.token, at |-> q.began,
                  validated |-> q.validated, answers |-> q.answers]
<1>0. q \in Local /\ Known(q) /\ q.at = "commit"
  BY InProgress DEF TypeInv, Commit
<1>1. p \in Proof /\ q.asset \in Asset /\ Pending(q.asset)
  BY <1>0 DEF Proof, Local, Known
<1>2. proof' = [proof EXCEPT ![q.asset] = p] /\ challenge' = Stamped(q.asset, "none")
  BY DEF Commit
<1>3. name' \in [Organization -> Value \cup {None}]
  <2>1. Owner[q.asset] \in Organization /\ ValueOf[q.asset] \in Value
    BY <1>1, VerificationAssumption
  <2>. QED  BY <2>1 DEF Commit, TypeInv, TypeOK
<1>4. Challenges(challenge')
  BY <1>1, <1>2, StampTypes DEF Code
<1>5. proof' \in [Asset -> Proof \cup {NoProof}]
  <2>. HIDE DEF p
  <2>. QED  BY <1>1, <1>2 DEF TypeInv, TypeOK
<1>. QED  BY <1>3, <1>4, <1>5 DEF Commit, RowTypes, TypeInv, TypeOK

LEMMA StampRows ==
  ASSUME TypeInv, NEW c \in Call, Stamp(c)
  PROVE  RowTypes
<1>1. call[c] \in Local /\ Known(call[c]) /\ call[c].at = "stamp"
  BY InProgress DEF TypeInv, Stamp
<1>2. Challenges(challenge')
  BY <1>1, StampTypes DEF Stamp, Local, Known
<1>. QED  BY <1>2 DEF Stamp, RowTypes, TypeInv, TypeOK

LEMMA RegenerateRows ==
  ASSUME TypeInv, NEW c \in Call, RegenerateToken(c)
  PROVE  RowTypes
<1>1. call[c] \in Local /\ Known(call[c]) /\ call[c].at = "regenerate"
  BY InProgress DEF TypeInv, RegenerateToken
<1>2. call[c].scope \in Scope /\ call[c].asset \in Asset /\ call[c].began \in Nat
  BY <1>1 DEF Local, Known
<1>3. Challenges(challenge') /\ issued' \in [Secret -> Grant \cup {Unissued}]
  BY <1>2, UpsertTypes DEF RegenerateToken
<1>. QED  BY <1>3 DEF RegenerateToken, RowTypes, TypeInv, TypeOK

LEMMA CallRows ==
  ASSUME TypeInv, NEW c \in Call,
         \/ \E a \in Asset : ReadForToken(c, a) \/ ReadForCheck(c, a)
         \/ Proceed(c) \/ Crash(c)
  PROVE  RowTypes
<1>1. CASE UNCHANGED <<now, rows, zone, issued>>
  BY <1>1, RowsLeft
<1>2. CASE RegenerateToken(c) \/ Stamp(c) \/ Commit(c)
  BY <1>2, RegenerateRows, StampRows, CommitRows
<1>. QED  BY <1>1, <1>2
          DEF ReadForToken, ReadScope, NotStarted, ReadForCheck, Proceed, Crash, Resolve,
              NoResolver, Decide, Supersede, RefuseCheck, Claim, LoseClaim, NameOrganization

LEMMA CallTypes ==
  ASSUME TypeInv, NEW c \in Call,
         \/ \E a \in Asset : ReadForToken(c, a) \/ ReadForCheck(c, a)
         \/ Proceed(c) \/ Crash(c)
  PROVE  TypeInv'
<1>1. Moved(c)
  BY ReadMoves, ProceedMoves
<1>2. RowTypes
  BY CallRows
<1>3. /\ challenge' \in [Asset -> Challenge \cup {NoChallenge}]
      /\ call' \in [Call -> Local \cup {Idle}]
      /\ \A d \in Call : Known(call[d])'
  BY <1>1, <1>2, OneCall DEF Moved, RowTypes
<1>. QED  BY <1>2, <1>3 DEF RowTypes, TypeInv, TypeOK

LEMMA StartTypes ==
  ASSUME TypeInv, NEW c \in Call, NEW a \in Asset, NEW scope \in Scope,
         StartChallenge(c, a, scope)
  PROVE  TypeInv'
<1>1. Challenges(challenge') /\ issued' \in [Secret -> Grant \cup {Unissued}]
  BY UpsertTypes DEF StartChallenge, TypeInv, TypeOK
<1>2. \A d \in Call : Known(call[d])'
  <2>1. \A d \in Call : call[d].at # "idle" => call[d].asset \in Asset
    BY InProgress DEF Local
  <2>. QED  BY <1>1, <2>1 DEF StartChallenge, TypeInv, Known, Pending, Challenges
<1>. QED  BY <1>1, <1>2 DEF StartChallenge, TypeInv, TypeOK, Challenges

LEMMA PublishTypes ==
  ASSUME TypeInv, NEW t \in Secret, Publish(t)
  PROVE  TypeInv'
<1>1. issued[t] \in Grant
  BY DEF Publish, TypeInv, TypeOK
<1>2. ValueOf[issued[t].asset] \in Value
  BY <1>1, VerificationAssumption DEF Grant
<1>3. zone' \in [Value -> SUBSET Secret]
  BY <1>2 DEF Publish, TypeInv, TypeOK
<1>. QED  BY <1>3 DEF Publish, rows, TypeInv, TypeOK, Known, Pending

LEMMA TypeStep ==
  ASSUME TypeInv, [Next]_vars
  PROVE  TypeInv'
<1>1. CASE UNCHANGED vars
  BY <1>1 DEF vars, rows, TypeInv, TypeOK, Known, Pending
<1>2. CASE Tick
  BY <1>2, VerificationAssumption DEF Tick, rows, TypeInv, TypeOK, Known, Pending
<1>. QED  BY <1>1, <1>2, PublishTypes, StartTypes, CallTypes DEF Next, Quiet

LEMMA TypeInit == Init => TypeInv
BY IdleKnown, VerificationAssumption DEF Init, TypeInv, TypeOK

(***************************************************************************)
(* Rows and calls always have the fields and values that the code gives    *)
(* them; a check in progress knows a token, and its asset has a challenge. *)
(***************************************************************************)
THEOREM TypeCorrect == Spec => []TypeOK
<1>1. Init => TypeInv
  BY TypeInit
<1>2. TypeInv /\ [Next]_vars => TypeInv'
  BY TypeStep
<1>3. TypeInv => TypeOK
  BY DEF TypeInv
<1>. QED  BY <1>1, <1>2, <1>3, PTL DEF Spec

-----------------------------------------------------------------------------
(* The inductive invariant, the safety theorems that follow from it, and    *)
(* that verification implements the claims it promises.                     *)

(* What is not a step of a call in progress, but reads for one. *)
Reads(c) == \E a \in Asset : ReadForToken(c, a) \/ ReadForCheck(c, a)

(* Every other call stays where it is. *)
Alone(c) == \A d \in Call \ {c} : call'[d] = call[d]

LEMMA MovesAlone ==
  ASSUME TypeInv, NEW c \in Call, Reads(c) \/ Proceed(c) \/ Crash(c)
  PROVE  Alone(c)
<1>1. Moved(c)
  BY ReadMoves, ProceedMoves DEF Reads
<1>. QED  BY <1>1 DEF Moved, Alone, TypeInv, TypeOK

(* A token, once issued, is issued to one asset; one that is published stays. *)
Grows ==
  /\ \A t \in Secret : issued[t] # Unissued => issued'[t] = issued[t]
  /\ \A v \in Value : zone[v] \subseteq zone'[v]

LEMMA UpsertGrows ==
  ASSUME TypeInv, NEW a \in Asset, NEW scope, NEW began, Upsert(a, scope, began), zone' = zone
  PROVE  Grows
BY DEF Upsert, Grows, TypeInv, TypeOK

LEMMA PublishGrows ==
  ASSUME TypeInv, NEW t \in Secret, Publish(t)
  PROVE  Grows
BY DEF Publish, Grows, TypeInv, TypeOK

LEMMA StepGrows ==
  ASSUME TypeInv, [Next]_vars
  PROVE  Grows
<1>1. CASE issued' = issued /\ zone' = zone
  BY <1>1 DEF Grows
<1>2. CASE \E c \in Call : RegenerateToken(c)
  <2>1. PICK c \in Call : RegenerateToken(c)
    BY <1>2
  <2>2. call[c] \in Local
    BY <2>1, InProgress DEF RegenerateToken
  <2>. QED  BY <2>1, <2>2, UpsertGrows DEF RegenerateToken, Local
<1>3. CASE \E c \in Call, a \in Asset, scope \in Scope : StartChallenge(c, a, scope)
  BY <1>3, UpsertGrows DEF StartChallenge
<1>4. CASE UNCHANGED vars \/ Tick
  BY <1>1, <1>4 DEF vars, Tick
<1>5. CASE \E c \in Call : Reads(c) \/ Crash(c) \/ (Proceed(c) /\ ~RegenerateToken(c))
  BY <1>1, <1>5
  DEF Reads, ReadForToken, ReadScope, NotStarted, ReadForCheck, Proceed, Crash, Resolve,
      NoResolver, Decide, Supersede, RefuseCheck, Stamp, Claim, LoseClaim, NameOrganization, Commit
<1>. QED  BY <1>2, <1>3, <1>4, <1>5, PublishGrows DEF Next, Quiet, Reads

-----------------------------------------------------------------------------
(***************************************************************************)
(* How a proof is earned.  A challenge holds a token that was issued for   *)
(* it; a check knows what it read there, then that it was published, and   *)
(* once it is decided that the token was in time and answered well.        *)
(***************************************************************************)
HeldChallenge ==
  \A a \in Asset : Pending(a) =>
    LET t == challenge[a].token IN
    /\ issued[t].asset = a /\ issued[t].scope = challenge[a].scope
    /\ challenge[a].expires = issued[t].at + TTL

Checking == {"lookup", "reread", "claim", "name", "commit"}
Decided == {"claim", "name", "commit"}

Earned(q) ==
  /\ q.at \in Checking => issued[q.token].asset = q.asset /\ issued[q.token].scope = q.scope
  /\ (q.at = "reread" /\ q.found) \/ q.at \in Decided => q.token \in zone[ValueOf[q.asset]]
  /\ q.at \in Decided => /\ q.began < issued[q.token].at + TTL
                         /\ q.validated \/ (q.scope = "exact" /\ q.answers >= Quorum)

EarnInv == HeldChallenge /\ ProofEarned /\ \A c \in Call : Earned(call[c])

LEMMA EarnedStays ==
  ASSUME TypeInv, Grows, NEW q \in Local \cup {Idle}, Earned(q),
         q.at \in Checking => q.token \in Secret
  PROVE  Earned(q)'
<1>1. CASE q.at \notin Checking
  BY <1>1 DEF Earned, Checking, Decided
<1>2. CASE q.at \in Checking
  <2>1. q.token \in Secret /\ q.asset \in Asset /\ ValueOf[q.asset] \in Value
    BY <1>2, VerificationAssumption DEF Checking, Local, Idle
  <2>2. issued[q.token] # Unissued
    BY <1>2, <2>1, VerificationAssumption DEF Earned, Unissued
  <2>3. issued'[q.token] = issued[q.token]
        /\ zone[ValueOf[q.asset]] \subseteq zone'[ValueOf[q.asset]]
    BY <2>1, <2>2 DEF Grows
  <2>. QED  BY <2>3 DEF Earned
<1>. QED  BY <1>1, <1>2

LEMMA ReadEarns ==
  ASSUME TypeInv, EarnInv, NEW c \in Call, Reads(c)
  PROVE  Earned(call'[c])
<1>0. call \in [Call -> Local \cup {Idle}]
  BY DEF TypeInv, TypeOK
<1>1. ASSUME NEW a \in Asset, ReadForToken(c, a)
      PROVE  Earned(call'[c])
  <2>1. call'[c].at = "token"
    BY <1>0, <1>1 DEF ReadForToken, Idle
  <2>. QED  BY <2>1 DEF Earned, Checking, Decided
<1>2. ASSUME NEW a \in Asset, ReadForCheck(c, a)
      PROVE  Earned(call'[c])
  <2>1. /\ call'[c].at = "lookup" /\ call'[c].asset = a
        /\ call'[c].token = challenge[a].token /\ call'[c].scope = challenge[a].scope
    <3>. DEFINE new == [Idle EXCEPT !.at = "lookup", !.asset = a,
                                    !.token = challenge[a].token, !.scope = challenge[a].scope]
    <3>1. call'[c] = new
      BY <1>0, <1>2 DEF ReadForCheck
    <3>2. /\ new.at = "lookup" /\ new.asset = a
          /\ new.token = challenge[a].token /\ new.scope = challenge[a].scope
      BY DEF Idle
    <3>. QED  BY <3>1, <3>2
  <2>2. Pending(a)
    BY <1>2 DEF ReadForCheck
  <2>. QED  BY <2>1, <2>2 DEF Earned, Checking, Decided, EarnInv, HeldChallenge
<1>. QED  BY <1>1, <1>2 DEF Reads

(* An ended call, or one that only has a failure to stamp, needs nothing. *)
LEMMA NothingToEarn ==
  ASSUME TypeInv, NEW c \in Call, End(c) \/ \E code : ToStamp(c, code)
  PROVE  Earned(call'[c])
<1>0. call \in [Call -> Local \cup {Idle}]
  BY DEF TypeInv, TypeOK
<1>1. call'[c].at \in {"idle", "stamp"}
  <2>1. CASE End(c)
    BY <1>0, <2>1 DEF End, Idle
  <2>2. ASSUME NEW code, ToStamp(c, code)
        PROVE  call'[c].at = "stamp"
    <3>. DEFINE new == [Idle EXCEPT !.at = "stamp", !.asset = call[c].asset, !.code = code]
    <3>1. call'[c] = new
      BY <1>0, <2>2 DEF ToStamp
    <3>2. new.at = "stamp"
      BY DEF Idle
    <3>. QED  BY <3>1, <3>2
  <2>. QED  BY <2>1, <2>2
<1>. QED  BY <1>1 DEF Earned, Checking, Decided

LEMMA DecideEarns ==
  ASSUME TypeInv, EarnInv, NEW c \in Call, Decide(c)
  PROVE  Earned(call'[c])
<1>. DEFINE q == call[c]
<1>0. /\ q \in Local /\ Known(q) /\ q.at = "reread" /\ Earned(q)
      /\ call \in [Call -> Local \cup {Idle}]
  BY InProgress DEF TypeInv, TypeOK, EarnInv, Decide
<1>1. PICK verdict \in Verdicts[q.found][q.scope] :
        IF verdict.verified
          THEN call' = [call EXCEPT ![c].at = "claim", ![c].began = now, ![c].found = FALSE,
                                    ![c].validated = verdict.validated,
                                    ![c].answers = verdict.answers]
          ELSE /\ verdict.code # Unavailable
               /\ ToStamp(c, verdict.code[1])
  BY DEF Decide
<1>2. CASE verdict.verified
  <2>1. /\ call'[c].at = "claim" /\ call'[c].began = now
        /\ call'[c].validated = verdict.validated /\ call'[c].answers = verdict.answers
        /\ call'[c].token = q.token /\ call'[c].asset = q.asset /\ call'[c].scope = q.scope
    <3>. DEFINE new == [q EXCEPT !.at = "claim", !.began = now, !.found = FALSE,
                                 !.validated = verdict.validated,
                                 !.answers = verdict.answers]
    <3>1. call' = [call EXCEPT ![c] = new]
      BY <1>1, <1>2
    <3>2. call'[c] = new
      BY <1>0, <3>1
    <3>. QED  BY <1>0, <3>2 DEF Local
  <2>2. q.found /\ (verdict.validated \/ (q.scope = "exact" /\ verdict.answers >= Quorum))
    BY <1>0, <1>2, VerdictOfCall DEF Sound
  <2>3. now < issued[q.token].at + TTL
    <3>1. challenge[q.asset].token = q.token /\ ~(challenge[q.asset].expires <= now)
      BY DEF Decide, Lapsed, Superseded
    <3>2. q.asset \in Asset /\ Pending(q.asset)
      BY <1>0 DEF Known, Local
    <3>3. challenge[q.asset].expires = issued[q.token].at + TTL
      BY <3>1, <3>2 DEF EarnInv, HeldChallenge
    <3>4. challenge[q.asset].expires \in Nat /\ now \in Nat
      BY <3>2 DEF TypeInv, TypeOK, Pending, NoChallenge, Challenge
    <3>. QED  BY <3>1, <3>3, <3>4
  <2>. QED  BY <1>0, <2>1, <2>2, <2>3 DEF Earned, Checking, Decided
<1>3. CASE ~verdict.verified
  BY <1>1, <1>3, NothingToEarn
<1>. QED  BY <1>2, <1>3

LEMMA GotoEarns ==
  ASSUME TypeInv, EarnInv, NEW c \in Call, Resolve(c) \/ Claim(c) \/ NameOrganization(c)
  PROVE  Earned(call'[c])
<1>. DEFINE q == call[c]
<1>0. q \in Local /\ Earned(q) /\ call \in [Call -> Local \cup {Idle}]
  BY InProgress DEF TypeInv, TypeOK, EarnInv, Resolve, Claim, NameOrganization
<1>1. CASE Resolve(c)
  <2>. DEFINE found == q.token \in zone[ValueOf[q.asset]]
              new == [q EXCEPT !.at = "reread", !.found = found]
  <2>1. call'[c] = new
    BY <1>0, <1>1 DEF Resolve
  <2>2. /\ new.at = "reread" /\ new.found = found /\ new.token = q.token
        /\ new.asset = q.asset /\ new.scope = q.scope
    BY <1>0 DEF Local
  <2>. HIDE DEF new
  <2>. QED  BY <1>0, <1>1, <2>1, <2>2 DEF Resolve, Earned, Checking, Decided
<1>2. CASE Claim(c) \/ NameOrganization(c)
  <2>1. /\ q.at \in {"claim", "name"} /\ call'[c].at \in {"name", "commit"}
        /\ call'[c].token = q.token /\ call'[c].asset = q.asset /\ call'[c].scope = q.scope
        /\ call'[c].began = q.began /\ call'[c].validated = q.validated
        /\ call'[c].answers = q.answers
    BY <1>0, <1>2 DEF Claim, NameOrganization, Goto, Local
  <2>. QED  BY <1>0, <2>1 DEF Earned, Checking, Decided
<1>. QED  BY <1>1, <1>2

LEMMA ProceedEarns ==
  ASSUME TypeInv, EarnInv, NEW c \in Call, Proceed(c) \/ Crash(c)
  PROVE  Earned(call'[c])
<1>1. CASE NotStarted(c) \/ RegenerateToken(c) \/ NoResolver(c) \/ RefuseCheck(c) \/ Stamp(c)
           \/ Commit(c) \/ Crash(c)
  BY <1>1, NothingToEarn
  DEF NotStarted, RegenerateToken, NoResolver, RefuseCheck, Stamp, Commit, Crash
<1>2. CASE Supersede(c) \/ LoseClaim(c)
  BY <1>2, NothingToEarn DEF Supersede, LoseClaim
<1>3. CASE ReadScope(c)
  BY <1>3, ScopeMoves DEF Earned, Checking, Decided
<1>. QED  BY <1>1, <1>2, <1>3, DecideEarns, GotoEarns DEF Proceed

LEMMA CallsEarn ==
  ASSUME TypeInv, EarnInv, [Next]_vars
  PROVE  \A c \in Call : Earned(call[c])'
<1>0. Grows /\ TypeInv'
  BY StepGrows, TypeStep
<1>1. ASSUME NEW c \in Call, Earned(call'[c])
      PROVE  Earned(call[c])'
  <2>1. call'[c] \in Local \cup {Idle}
    BY <1>0 DEF TypeInv, TypeOK
  <2>2. call'[c].at \in Checking => call'[c].token \in Secret
    BY <1>0 DEF TypeInv, Known, Checking
  <2>. QED  BY <1>0, <1>1, <2>1, <2>2, EarnedStays
<1>2. CASE call' = call
  BY <1>1, <1>2 DEF EarnInv
<1>3. ASSUME NEW c \in Call, Reads(c) \/ Proceed(c) \/ Crash(c)
      PROVE  \A d \in Call : Earned(call'[d])
  BY <1>3, MovesAlone, ReadEarns, ProceedEarns DEF Alone, EarnInv
<1>. QED  BY <1>1, <1>2, <1>3
          DEF Next, vars, Tick, Quiet, Publish, StartChallenge, Reads

(* What a step does to the challenge of an asset. *)
Held(a) == LET t == challenge[a].token IN
           /\ issued[t].asset = a /\ issued[t].scope = challenge[a].scope
           /\ challenge[a].expires = issued[t].at + TTL

Kept(a) == /\ challenge'[a].token = challenge[a].token
           /\ challenge'[a].scope = challenge[a].scope
           /\ challenge'[a].expires = challenge[a].expires

LEMMA KeptHolds ==
  ASSUME TypeInv, HeldChallenge, Grows, NEW a \in Asset, Kept(a), challenge'[a].token # None
  PROVE  Held(a)'
<1>1. Pending(a) /\ challenge[a].token \in Secret /\ Held(a)
  BY DEF Kept, Pending, TypeInv, TypeOK, Challenge, NoChallenge, HeldChallenge, Held
<1>2. issued[challenge[a].token] # Unissued
  BY <1>1, VerificationAssumption DEF Held, Unissued
<1>3. issued'[challenge[a].token] = issued[challenge[a].token]
  BY <1>1, <1>2 DEF Grows
<1>. QED  BY <1>1, <1>3 DEF Held, Kept

LEMMA UpsertHolds ==
  ASSUME TypeInv, HeldChallenge, Grows, NEW a \in Asset, NEW scope, NEW began,
         Upsert(a, scope, began)
  PROVE  HeldChallenge'
<1>1. PICK t \in Secret :
        /\ issued' = [issued EXCEPT ![t] = [asset |-> a, scope |-> scope, at |-> began]]
        /\ challenge' = [challenge EXCEPT ![a] =
             [token |-> t, scope |-> scope, expires |-> began + TTL, failure |-> "none"]]
  BY DEF Upsert
<1>2. Held(a)'
  BY <1>1 DEF TypeInv, TypeOK, Held
<1>3. ASSUME NEW b \in Asset, b # a, challenge'[b].token # None
      PROVE  Held(b)'
  BY <1>1, <1>3, KeptHolds DEF Kept, TypeInv, TypeOK
<1>. QED  BY <1>2, <1>3 DEF HeldChallenge, Held, Pending

LEMMA StampKeeps ==
  ASSUME TypeInv, NEW a \in Asset, NEW code, challenge' = Stamped(a, code), NEW b \in Asset
  PROVE  Kept(b)
<1>1. challenge[a] \in Challenge \cup {NoChallenge}
  BY DEF TypeInv, TypeOK
<1>2. challenge' = [challenge EXCEPT ![a] = [challenge[a] EXCEPT !.failure = code]]
  BY DEF Stamped
<1>3. CASE b = a
  BY <1>1, <1>2, <1>3 DEF Kept, TypeInv, TypeOK, Challenge, NoChallenge
<1>4. CASE b # a
  BY <1>2, <1>4 DEF Kept, TypeInv, TypeOK
<1>. QED  BY <1>3, <1>4

LEMMA HeldStep ==
  ASSUME TypeInv, HeldChallenge, [Next]_vars
  PROVE  HeldChallenge'
<1>0. Grows
  BY StepGrows
<1>1. CASE \A a \in Asset : Kept(a)
  BY <1>0, <1>1, KeptHolds DEF HeldChallenge, Held, Pending
<1>2. CASE challenge' = challenge
  BY <1>1, <1>2 DEF Kept
<1>3. CASE \E c \in Call : RegenerateToken(c)
  <2>1. PICK c \in Call : RegenerateToken(c)
    BY <1>3
  <2>2. call[c] \in Local
    BY <2>1, InProgress DEF RegenerateToken
  <2>. QED  BY <1>0, <2>1, <2>2, UpsertHolds DEF RegenerateToken, Local
<1>4. CASE \E c \in Call, a \in Asset, scope \in Scope : StartChallenge(c, a, scope)
  BY <1>0, <1>4, UpsertHolds DEF StartChallenge
<1>5. CASE \E c \in Call : Stamp(c) \/ Commit(c)
  <2>1. PICK c \in Call : Stamp(c) \/ Commit(c)
    BY <1>5
  <2>2. call[c] \in Local
    BY <2>1, InProgress DEF Stamp, Commit
  <2>. QED  BY <1>1, <2>1, <2>2, StampKeeps DEF Stamp, Commit, Local
<1>6. CASE UNCHANGED vars \/ Tick \/ \E t \in Secret : Publish(t)
  BY <1>2, <1>6 DEF vars, rows, Tick, Publish
<1>7. CASE \E c \in Call : \/ Reads(c) \/ Crash(c)
                           \/ Proceed(c) /\ ~(RegenerateToken(c) \/ Stamp(c) \/ Commit(c))
  BY <1>2, <1>7
  DEF rows, Reads, ReadForToken, ReadScope, NotStarted, ReadForCheck, Proceed, Crash, Resolve,
      NoResolver, Decide, Supersede, RefuseCheck, Claim, LoseClaim, NameOrganization
<1>. QED  BY <1>3, <1>4, <1>5, <1>6, <1>7 DEF Next, Quiet, Reads

(* Proofs are written by commits alone. *)
LEMMA ProofsFromCommits ==
  ASSUME TypeInv, [Next]_vars, ~\E c \in Call : Commit(c)
  PROVE  UNCHANGED <<proof, name>>
BY DEF Next, vars, rows, Tick, Quiet, Publish, StartChallenge, ReadForToken, ReadScope,
       NotStarted, ReadForCheck,
       Proceed, Crash, RegenerateToken, Resolve, NoResolver, Decide, Supersede, RefuseCheck,
       Stamp, Claim, LoseClaim, NameOrganization

ProofOf(q) == [scope |-> q.scope, token |-> q.token, at |-> q.began,
               validated |-> q.validated, answers |-> q.answers]

LEMMA CommitWrites ==
  ASSUME TypeInv, NEW c \in Call, Commit(c)
  PROVE  /\ call[c] \in Local /\ call[c].at = "commit" /\ call[c].scope \in Scope
         /\ call[c].asset \in Asset
         /\ proof'[call[c].asset] = ProofOf(call[c])
         /\ proof'[call[c].asset].scope = call[c].scope
         /\ \A b \in Asset \ {call[c].asset} : proof'[b] = proof[b]
<1>1. call[c] \in Local /\ call[c].at = "commit" /\ Known(call[c])
  BY InProgress DEF TypeInv, Commit
<1>2. call[c].asset \in Asset /\ call[c].scope \in Scope
  BY <1>1 DEF Local, Known
<1>3. proof' = [proof EXCEPT ![call[c].asset] = ProofOf(call[c])]
  BY DEF Commit, ProofOf
<1>4. ProofOf(call[c]).scope = call[c].scope
  BY DEF ProofOf
<1>. QED  BY <1>1, <1>2, <1>3, <1>4 DEF TypeInv, TypeOK

EarnedBy(a, p) ==
  /\ issued[p.token].asset = a /\ issued[p.token].scope = p.scope
  /\ p.token \in zone[ValueOf[a]]
  /\ p.at < issued[p.token].at + TTL
  /\ p.validated \/ (p.scope = "exact" /\ p.answers >= Quorum)

LEMMA ProofEarnedIs == ProofEarned <=> \A a \in Asset : Proven(a) => EarnedBy(a, proof[a])
BY DEF ProofEarned, EarnedBy

LEMMA ProofsEarn ==
  ASSUME TypeInv, EarnInv, [Next]_vars
  PROVE  ProofEarned'
<1>0. Grows
  BY StepGrows
<1>1. ASSUME NEW a \in Asset, proof'[a] = proof[a], Proven(a)
      PROVE  EarnedBy(a, proof[a])'
  <2>1. EarnedBy(a, proof[a])
    BY <1>1, ProofEarnedIs DEF EarnInv
  <2>2. proof[a].token \in Secret /\ ValueOf[a] \in Value
    BY <1>1, VerificationAssumption DEF Proven, TypeInv, TypeOK, Proof, NoProof
  <2>3. issued[proof[a].token] # Unissued
    BY <2>1, VerificationAssumption DEF EarnedBy, Unissued
  <2>4. issued'[proof[a].token] = issued[proof[a].token]
        /\ zone[ValueOf[a]] \subseteq zone'[ValueOf[a]]
    BY <1>0, <2>2, <2>3 DEF Grows
  <2>. QED  BY <1>1, <2>1, <2>4 DEF EarnedBy
<1>2. ASSUME NEW c \in Call, Commit(c), NEW a \in Asset, a = call[c].asset
      PROVE  EarnedBy(a, proof[a])'
  <2>1. /\ call[c].at = "commit" /\ Earned(call[c])
        /\ proof'[a] = ProofOf(call[c])
        /\ UNCHANGED <<issued, zone>>
    BY <1>2, CommitWrites DEF EarnInv, Commit
  <2>2. EarnedBy(a, ProofOf(call[c]))
    BY <1>2, <2>1 DEF Earned, EarnedBy, ProofOf, Checking, Decided
  <2>. QED  BY <2>1, <2>2 DEF EarnedBy
<1>3. CASE \E c \in Call : Commit(c)
  <2>1. PICK c \in Call : Commit(c)
    BY <1>3
  <2>2. \A a \in Asset : a = call[c].asset \/ proof'[a] = proof[a]
    BY <2>1, CommitWrites
  <2>3. \A a \in Asset : Proven(a)' => EarnedBy(a, proof[a])'
    BY <1>1, <1>2, <2>1, <2>2 DEF Proven
  <2>. QED  BY <2>3, ProofEarnedIs DEF ProofEarned, Proven, EarnedBy
<1>4. CASE ~\E c \in Call : Commit(c)
  <2>1. \A a \in Asset : Proven(a)' => EarnedBy(a, proof[a])'
    BY <1>1, <1>4, ProofsFromCommits DEF Proven
  <2>. QED  BY <2>1 DEF ProofEarned, Proven, EarnedBy
<1>. QED  BY <1>3, <1>4

LEMMA EarnInit == Init => EarnInv
BY DEF Init, EarnInv, HeldChallenge, Pending, NoChallenge, ProofEarned, Proven, NoProof,
       Earned, Checking, Decided, Idle

(***************************************************************************)
(* Every proof was earned: its token was issued for the asset and for the  *)
(* coverage of the proof, published while the challenge was open, and the  *)
(* answers were validated or corroborated.                                 *)
(***************************************************************************)
THEOREM ProofsAlwaysEarned == Spec => []ProofEarned
<1>. DEFINE Inv == TypeInv /\ EarnInv
<1>1. Init => Inv
  BY TypeInit, EarnInit
<1>2. Inv /\ [Next]_vars => Inv'
  <2>. SUFFICES ASSUME Inv, [Next]_vars PROVE Inv'
    OBVIOUS
  <2>1. TypeInv'
    BY TypeStep
  <2>2. HeldChallenge' /\ ProofEarned' /\ \A c \in Call : Earned(call[c])'
    BY HeldStep, ProofsEarn, CallsEarn DEF EarnInv
  <2>. QED  BY <2>1, <2>2 DEF EarnInv
<1>3. Inv => ProofEarned
  BY DEF EarnInv
<1>. QED  BY <1>1, <1>2, <1>3, PTL DEF Spec

-----------------------------------------------------------------------------
(***************************************************************************)
(* How a domain gets one owner, and an organization one name.  Who holds   *)
(* the key of a domain holds it alone, and found it free; who has the row  *)
(* of an organization knows whether it is named; a lost claim was lost.    *)
(***************************************************************************)
OneProof ==
  \A a, b \in Asset : Proven(a) /\ Proven(b) /\ ValueOf[a] = ValueOf[b] => a = b

Clear == \A c \in Call : Holds(c) => ~Claimed(call[c].asset)

KeysApart ==
  \A c, d \in Call : c # d /\ Holds(c) /\ Holds(d)
                       => ValueOf[call[c].asset] # ValueOf[call[d].asset]

NamesTrue ==
  \A c \in Call : call[c].at = "commit"
                    => (call[c].names <=> name[Owner[call[c].asset]] = None)

NamesApart ==
  \A c, d \in Call : /\ c # d
                      /\ call[c].at = "commit" /\ call[c].names
                      /\ call[d].at = "commit" /\ call[d].names
                      => Owner[call[c].asset] # Owner[call[d].asset]

LossTrue ==
  /\ \A a \in Asset : challenge[a].failure = "claim" => Claimed(a)
  /\ \A c \in Call : call[c].at = "stamp" /\ call[c].code = "claim"
                      => Claimed(call[c].asset)

ClaimInv == OneProof /\ Clear /\ KeysApart /\ NamesTrue /\ NamesApart /\ LossTrue

(* What the call of a step comes to hold, and to say. *)
Enters(c) ==
  \/ call'[c].at \notin {"name", "commit", "stamp"}
  \/ /\ call'[c].at = "stamp"
     /\ call'[c].code = "claim" => Claimed(call[c].asset)
     /\ call'[c].asset = call[c].asset
  \/ /\ Claim(c) /\ call'[c].at = "name" /\ call'[c].asset = call[c].asset
  \/ /\ NameOrganization(c) /\ call'[c].at = "commit" /\ call'[c].asset = call[c].asset
     /\ call'[c].names <=> name[Owner[call[c].asset]] = None

LEMMA StampEnters ==
  ASSUME TypeInv, NEW c \in Call, NEW code, ToStamp(c, code),
         code = "claim" => Claimed(call[c].asset)
  PROVE  Enters(c)
<1>. DEFINE new == [Idle EXCEPT !.at = "stamp", !.asset = call[c].asset, !.code = code]
<1>1. call'[c] = new
  BY DEF ToStamp, TypeInv, TypeOK
<1>2. new.at = "stamp" /\ new.asset = call[c].asset /\ new.code = code
  BY DEF Idle
<1>. HIDE DEF new
<1>. QED  BY <1>1, <1>2 DEF Enters

LEMMA DecideEnters ==
  ASSUME TypeInv, NEW c \in Call, Decide(c)
  PROVE  Enters(c)
<1>1. PICK verdict \in Verdicts[call[c].found][call[c].scope] :
        IF verdict.verified
          THEN call' = [call EXCEPT ![c].at = "claim", ![c].began = now, ![c].found = FALSE,
                                    ![c].validated = verdict.validated,
                                    ![c].answers = verdict.answers]
          ELSE /\ verdict.code # Unavailable
               /\ ToStamp(c, verdict.code[1])
  BY DEF Decide
<1>2. CASE verdict.verified
  <2>1. call'[c].at = "claim"
    <3>. DEFINE new == [call[c] EXCEPT !.at = "claim", !.began = now, !.found = FALSE,
                                       !.validated = verdict.validated,
                                       !.answers = verdict.answers]
    <3>1. call[c] \in Local /\ call \in [Call -> Local \cup {Idle}]
      BY InProgress DEF TypeInv, TypeOK, Decide
    <3>2. call'[c] = new
      BY <1>1, <1>2, <3>1
    <3>. QED  BY <3>1, <3>2 DEF Local
  <2>. QED  BY <2>1 DEF Enters
<1>3. CASE ~verdict.verified
  <2>1. verdict.code \in FailureCode \ {Unavailable}
    BY <1>1, <1>3, VerdictOfCall DEF Sound, Decide
  <2>2. verdict.code[1] # "claim"
    BY <2>1, FailureNamespace
  <2>. QED  BY <1>1, <1>3, <2>2, StampEnters
<1>. QED  BY <1>2, <1>3

LEMMA ReadEnters ==
  ASSUME TypeInv, NEW c \in Call, Reads(c)
  PROVE  call'[c].at \in {"token", "lookup"}
<1>0. call \in [Call -> Local \cup {Idle}]
  BY DEF TypeInv, TypeOK
<1>1. ASSUME NEW a \in Asset, ReadForToken(c, a)
      PROVE  call'[c].at = "token"
  BY <1>0, <1>1 DEF ReadForToken, Idle
<1>2. ASSUME NEW a \in Asset, ReadForCheck(c, a)
      PROVE  call'[c].at = "lookup"
  <2>. DEFINE new == [Idle EXCEPT !.at = "lookup", !.asset = a,
                                  !.token = challenge[a].token, !.scope = challenge[a].scope]
  <2>1. call'[c] = new
    BY <1>0, <1>2 DEF ReadForCheck
  <2>2. new.at = "lookup"
    BY DEF Idle
  <2>. QED  BY <2>1, <2>2
<1>. QED  BY <1>1, <1>2 DEF Reads

LEMMA EntersStep ==
  ASSUME TypeInv, NEW c \in Call, Reads(c) \/ Proceed(c) \/ Crash(c)
  PROVE  Enters(c)
<1>0. call \in [Call -> Local \cup {Idle}]
  BY DEF TypeInv, TypeOK
<1>1. CASE Reads(c)
  BY <1>1, ReadEnters DEF Enters
<1>2. CASE End(c)
  BY <1>0, <1>2 DEF End, Idle, Enters
<1>3. CASE Resolve(c)
  <2>1. call[c] \in Local
    BY <1>3, InProgress DEF Resolve
  <2>2. call'[c].at = "reread"
    BY <1>0, <1>3, <2>1 DEF Resolve, Local
  <2>. QED  BY <2>2 DEF Enters
<1>4. CASE Supersede(c) \/ LoseClaim(c)
  BY <1>4, StampEnters DEF Supersede, LoseClaim
<1>5. CASE Claim(c)
  <2>1. call[c] \in Local
    BY <1>5, InProgress DEF Claim
  <2>. QED  BY <1>0, <1>5, <2>1 DEF Claim, Goto, Local, Enters
<1>6. CASE NameOrganization(c)
  <2>. DEFINE names == name[Owner[call[c].asset]] = None
              new == [call[c] EXCEPT !.at = "commit", !.names = names]
  <2>1. call[c] \in Local
    BY <1>6, InProgress DEF NameOrganization
  <2>2. call'[c] = new
    BY <1>0, <1>6 DEF NameOrganization
  <2>3. new.at = "commit" /\ new.asset = call[c].asset /\ new.names = names
    BY <2>1 DEF Local
  <2>. HIDE DEF new
  <2>. QED  BY <1>6, <2>2, <2>3 DEF Enters
<1>7. CASE ReadScope(c)
  BY <1>7, ScopeMoves DEF Enters
<1>. QED  BY <1>1, <1>2, <1>3, <1>4, <1>5, <1>6, <1>7, DecideEnters
          DEF Proceed, Crash, NotStarted, RegenerateToken, NoResolver, RefuseCheck, Stamp, Commit

-----------------------------------------------------------------------------
(* A commit proves its asset, and nothing takes a proof away. *)
LEMMA CommitProves ==
  ASSUME TypeInv, NEW c \in Call, Commit(c), NEW b \in Asset
  PROVE  Proven(b)' <=> Proven(b) \/ b = call[c].asset
<1>1. call[c].scope # "none"
  BY CommitWrites DEF Scope
<1>2. CASE b = call[c].asset
  <2>1. proof'[b].scope = call[c].scope
    BY <1>2, CommitWrites
  <2>. QED  BY <1>1, <1>2, <2>1 DEF Proven
<1>3. CASE b # call[c].asset
  <2>1. proof'[b] = proof[b]
    BY <1>3, CommitWrites
  <2>. QED  BY <1>3, <2>1 DEF Proven
<1>. QED  BY <1>2, <1>3

LEMMA ClaimedStays ==
  ASSUME TypeInv, [Next]_vars, NEW a, Claimed(a)
  PROVE  Claimed(a)'
<1>1. \A b \in Asset : Proven(b) => Proven(b)'
  BY CommitProves, ProofsFromCommits DEF Proven
<1>. QED  BY <1>1 DEF Claimed

(* A challenge comes to say that the claim was lost by one step only. *)
SaysLost(c, a) == Stamp(c) /\ call[c].asset = a /\ call[c].code = "claim"

LEMMA StampSays ==
  ASSUME TypeInv, NEW b \in Asset, NEW code, challenge' = Stamped(b, code),
         NEW a \in Asset, challenge'[a].failure = "claim"
  PROVE  challenge[a].failure = "claim" \/ (a = b /\ code = "claim")
<1>1. challenge[b] \in Challenge \cup {NoChallenge}
  BY DEF TypeInv, TypeOK
<1>2. challenge' = [challenge EXCEPT ![b] = [challenge[b] EXCEPT !.failure = code]]
  BY DEF Stamped
<1>3. CASE a = b
  BY <1>1, <1>2, <1>3 DEF TypeInv, TypeOK, Challenge, NoChallenge
<1>4. CASE a # b
  BY <1>2, <1>4 DEF TypeInv, TypeOK
<1>. QED  BY <1>3, <1>4

LEMMA UpsertSays ==
  ASSUME TypeInv, NEW b \in Asset, NEW scope, NEW began, Upsert(b, scope, began),
         NEW a \in Asset, challenge'[a].failure = "claim"
  PROVE  challenge[a].failure = "claim"
BY DEF Upsert, TypeInv, TypeOK

LEMMA LossFrom ==
  ASSUME TypeInv, [Next]_vars, NEW a \in Asset, challenge'[a].failure = "claim"
  PROVE  challenge[a].failure = "claim" \/ \E c \in Call : SaysLost(c, a)
<1>1. ASSUME NEW c \in Call, RegenerateToken(c) \/ Stamp(c) \/ Commit(c)
      PROVE  challenge[a].failure = "claim" \/ SaysLost(c, a)
  <2>1. call[c].asset \in Asset
    BY <1>1, InProgress DEF RegenerateToken, Stamp, Commit, Local
  <2>2. CASE RegenerateToken(c)
    BY <2>1, <2>2, UpsertSays DEF RegenerateToken
  <2>3. CASE Stamp(c)
    BY <2>1, <2>3, StampSays DEF Stamp, SaysLost
  <2>4. CASE Commit(c)
    BY <2>1, <2>4, StampSays DEF Commit
  <2>. QED  BY <1>1, <2>2, <2>3, <2>4
<1>2. CASE \E c \in Call, b \in Asset, scope \in Scope : StartChallenge(c, b, scope)
  BY <1>2, UpsertSays DEF StartChallenge
<1>3. CASE UNCHANGED challenge
  BY <1>3
<1>4. CASE UNCHANGED vars \/ Tick \/ \E t \in Secret : Publish(t)
  BY <1>3, <1>4 DEF vars, rows, Tick, Publish
<1>5. CASE \E c \in Call : \/ Reads(c) \/ Crash(c)
                           \/ Proceed(c) /\ ~(RegenerateToken(c) \/ Stamp(c) \/ Commit(c))
  BY <1>3, <1>5
  DEF rows, Reads, ReadForToken, ReadScope, NotStarted, ReadForCheck, Proceed, Crash, Resolve,
      NoResolver, Decide, Supersede, RefuseCheck, Claim, LoseClaim, NameOrganization
<1>. QED  BY <1>1, <1>2, <1>4, <1>5 DEF Next, Quiet, Reads

LEMMA LossStep ==
  ASSUME TypeInv, LossTrue, [Next]_vars
  PROVE  LossTrue'
<1>1. \A a \in Asset : challenge'[a].failure = "claim" => Claimed(a)'
  <2>. SUFFICES ASSUME NEW a \in Asset, challenge'[a].failure = "claim"
                PROVE  Claimed(a)
    BY ClaimedStays
  <2>1. CASE challenge[a].failure = "claim"
    BY <2>1 DEF LossTrue
  <2>2. CASE \E c \in Call : SaysLost(c, a)
    BY <2>2 DEF SaysLost, Stamp, LossTrue
  <2>. QED  BY <2>1, <2>2, LossFrom
<1>2. ASSUME NEW d \in Call, call'[d].at = "stamp", call'[d].code = "claim",
             NEW a, a = call'[d].asset
      PROVE  Claimed(a)'
  <2>1. CASE call'[d] = call[d]
    BY <1>2, <2>1, ClaimedStays DEF LossTrue
  <2>2. CASE Reads(d) \/ Proceed(d) \/ Crash(d)
    BY <1>2, <2>2, EntersStep, ClaimedStays DEF Enters
  <2>3. CASE call' = call
    BY <2>1, <2>3
  <2>4. CASE \E c \in Call : Reads(c) \/ Proceed(c) \/ Crash(c)
    BY <2>1, <2>2, <2>4, MovesAlone DEF Alone
  <2>. QED  BY <2>3, <2>4 DEF Next, vars, Tick, Quiet, Publish, StartChallenge, Reads
<1>3. \A d \in Call : call'[d].at = "stamp" /\ call'[d].code = "claim"
                       => Claimed(call[d].asset)'
  BY <1>2 DEF Claimed, Proven
<1>. QED  BY <1>1, <1>3 DEF LossTrue

(* A step that is no commit. *)
LEMMA KeysStep ==
  ASSUME TypeInv, ClaimInv, NEW c \in Call, Reads(c) \/ Proceed(c) \/ Crash(c),
         UNCHANGED <<proof, name>>
  PROVE  Clear' /\ KeysApart' /\ NamesTrue' /\ NamesApart'
<1>0. Alone(c) /\ Enters(c) /\ \A a : Claimed(a)' <=> Claimed(a)
  BY MovesAlone, EntersStep DEF Claimed, Proven
<1>1. CASE call'[c].at \notin {"name", "commit"}
  BY <1>0, <1>1
  DEF Alone, ClaimInv, Clear, KeysApart, NamesTrue, NamesApart, Holds, Claimed, Proven
<1>2. CASE Claim(c) /\ call'[c].at = "name" /\ call'[c].asset = call[c].asset
  <2>1. ~Claimed(call[c].asset) /\ KeyFree(c)
    BY <1>2 DEF Claim
  <2>2. Clear'
    BY <1>0, <1>2, <2>1 DEF Alone, ClaimInv, Clear, Holds, Claimed, Proven
  <2>3. KeysApart'
    BY <1>0, <1>2, <2>1 DEF Alone, ClaimInv, KeysApart, Holds, KeyFree
  <2>4. NamesTrue' /\ NamesApart'
    BY <1>0, <1>2 DEF Alone, ClaimInv, NamesTrue, NamesApart
  <2>. QED  BY <2>2, <2>3, <2>4
<1>3. CASE /\ NameOrganization(c) /\ call'[c].at = "commit"
           /\ call'[c].asset = call[c].asset
           /\ call'[c].names <=> name[Owner[call[c].asset]] = None
  <2>1. call[c].at = "name"
        /\ \A d \in Call \ {c} : call[d].at = "commit" /\ call[d].names
                                  => Owner[call[d].asset] # Owner[call[c].asset]
    BY <1>3 DEF NameOrganization
  <2>2. Clear' /\ KeysApart'
    BY <1>0, <1>3, <2>1 DEF Alone, ClaimInv, Clear, KeysApart, Holds, Claimed, Proven
  <2>3. NamesTrue'
    BY <1>0, <1>3 DEF Alone, ClaimInv, NamesTrue
  <2>4. NamesApart'
    BY <1>0, <1>3, <2>1 DEF Alone, ClaimInv, NamesApart
  <2>. QED  BY <2>2, <2>3, <2>4
<1>. QED  BY <1>0, <1>1, <1>2, <1>3 DEF Enters

LEMMA CommitStep ==
  ASSUME TypeInv, ClaimInv, NEW c \in Call, Commit(c)
  PROVE  OneProof' /\ Clear' /\ KeysApart' /\ NamesTrue' /\ NamesApart'
<1>. DEFINE a == call[c].asset
<1>0. /\ a \in Asset /\ call[c].at = "commit" /\ Alone(c) /\ call'[c].at = "idle"
      /\ ~Claimed(a)
  <2>1. call'[c].at = "idle"
    BY DEF Commit, End, Idle, TypeInv, TypeOK
  <2>. QED  BY <2>1, CommitWrites, MovesAlone DEF Proceed, ClaimInv, Clear, Holds
<1>1. \A b \in Asset : Proven(b)' <=> Proven(b) \/ b = a
  BY CommitProves
<1>2. \A d \in Call : Holds(d)' => d # c /\ Holds(d) /\ call'[d] = call[d]
  BY <1>0 DEF Alone, Holds
<1>3. OneProof'
  <2>1. \A b \in Asset : Proven(b) /\ ValueOf[b] = ValueOf[a] => b = a
    BY <1>0 DEF Claimed
  <2>2. \A b, d \in Asset : Proven(b)' /\ Proven(d)' /\ ValueOf[b] = ValueOf[d] => b = d
    <3>. HIDE DEF a
    <3>. QED  BY <1>1, <2>1 DEF ClaimInv, OneProof
  <2>. QED  BY <2>2 DEF OneProof, Proven
<1>4. Clear'
  <2>. SUFFICES ASSUME NEW d \in Call, Holds(d)', NEW b \in Asset, b # call'[d].asset,
                       ValueOf[b] = ValueOf[call'[d].asset], Proven(b)'
                PROVE  FALSE
    BY DEF Clear, Claimed, Proven
  <2>1. d # c /\ Holds(d) /\ call'[d] = call[d]
    BY <1>2
  <2>2. ValueOf[call[d].asset] # ValueOf[a]
    BY <1>0, <2>1 DEF ClaimInv, KeysApart, Holds
  <2>3. Proven(b)
    BY <1>1, <2>1, <2>2
  <2>. QED  BY <2>1, <2>3 DEF ClaimInv, Clear, Claimed
<1>5. KeysApart'
  BY <1>2 DEF KeysApart, ClaimInv, Holds
<1>6. NamesTrue'
  <2>. SUFFICES ASSUME NEW d \in Call, call'[d].at = "commit"
                PROVE  call'[d].names <=> name'[Owner[call'[d].asset]] = None
    BY DEF NamesTrue
  <2>1. d # c /\ call'[d] = call[d] /\ call[d].at = "commit"
    BY <1>0 DEF Alone
  <2>2. /\ call[d].names <=> name[Owner[call[d].asset]] = None
        /\ call[c].names <=> name[Owner[a]] = None
    BY <1>0, <2>1 DEF ClaimInv, NamesTrue
  <2>3. CASE call[c].names
    <3>1. Owner[call[d].asset] # Owner[a]
      BY <1>0, <2>1, <2>2, <2>3 DEF ClaimInv, NamesApart
    <3>2. name' = [name EXCEPT ![Owner[a]] = ValueOf[a]]
      BY <2>3 DEF Commit
    <3>3. Owner[call[d].asset] \in Organization
      BY <2>1, InProgress, VerificationAssumption DEF Local
    <3>4. name'[Owner[call[d].asset]] = name[Owner[call[d].asset]]
      BY <3>1, <3>2, <3>3 DEF TypeInv, TypeOK
    <3>. QED  BY <2>1, <2>2, <3>4
  <2>4. CASE ~call[c].names
    BY <2>1, <2>2, <2>4 DEF Commit
  <2>. QED  BY <2>3, <2>4
<1>7. NamesApart'
  BY <1>0 DEF NamesApart, ClaimInv, Alone
<1>. QED  BY <1>3, <1>4, <1>5, <1>6, <1>7

LEMMA ClaimStep ==
  ASSUME TypeInv, ClaimInv, [Next]_vars
  PROVE  ClaimInv'
<1>1. CASE \E c \in Call : Commit(c)
  BY <1>1, CommitStep, LossStep DEF ClaimInv
<1>2. CASE ~\E c \in Call : Commit(c)
  <2>1. UNCHANGED <<proof, name>>
    BY <1>2, ProofsFromCommits
  <2>2. OneProof'
    BY <2>1 DEF ClaimInv, OneProof, Proven
  <2>3. CASE \E c \in Call : Reads(c) \/ Proceed(c) \/ Crash(c)
    BY <2>1, <2>2, <2>3, KeysStep, LossStep DEF ClaimInv
  <2>4. CASE call' = call
    <3>1. Clear' /\ KeysApart' /\ NamesTrue' /\ NamesApart'
      BY <2>1, <2>4
      DEF ClaimInv, Clear, KeysApart, NamesTrue, NamesApart, Holds, Claimed, Proven
    <3>. QED  BY <2>2, <3>1, LossStep DEF ClaimInv
  <2>. QED  BY <2>3, <2>4 DEF Next, vars, Tick, Quiet, Publish, StartChallenge, Reads
<1>. QED  BY <1>1, <1>2

LEMMA ClaimInit == Init => ClaimInv
BY DEF Init, ClaimInv, OneProof, Clear, KeysApart, NamesTrue, NamesApart, LossTrue, Proven,
       NoProof, NoChallenge, Holds, Idle

THEOREM ClaimInvariant == Spec => [](TypeInv /\ ClaimInv)
<1>1. Init => TypeInv /\ ClaimInv
  BY TypeInit, ClaimInit
<1>2. TypeInv /\ ClaimInv /\ [Next]_vars => (TypeInv /\ ClaimInv)'
  BY TypeStep, ClaimStep
<1>. QED  BY <1>1, <1>2, PTL DEF Spec

(***************************************************************************)
(* A challenge that says its claim was lost says the truth, for good:      *)
(* another organization has the domain, and this asset will not.           *)
(***************************************************************************)
THEOREM LossesExplained == Spec => []LossExplained
<1>1. TypeInv /\ ClaimInv => LossExplained
  <2>. SUFFICES ASSUME TypeInv, ClaimInv, NEW a \in Asset, challenge[a].failure = "claim"
                PROVE  ~Proven(a) /\ \E b \in Asset : /\ ValueOf[b] = ValueOf[a]
                                                     /\ Owner[b] # Owner[a] /\ Proven(b)
    BY DEF LossExplained
  <2>1. PICK b \in Asset \ {a} : ValueOf[b] = ValueOf[a] /\ Proven(b)
    BY DEF ClaimInv, LossTrue, Claimed
  <2>2. ~Proven(a)
    BY <2>1 DEF ClaimInv, OneProof
  <2>3. Owner[b] # Owner[a]
    BY <2>1, AssetKey
  <2>. QED  BY <2>1, <2>2, <2>3
<1>. QED  BY <1>1, ClaimInvariant, PTL

-----------------------------------------------------------------------------
(* A step changes what DomainClaims speaks of as it may, or not at all. *)
LEMMA ClaimsInit == Init => Claims!Init
BY DEF Init, Claims!Init, NoProof

LEMMA ClaimsProve ==
  ASSUME TypeInv, ClaimInv, NEW c \in Call, Commit(c),
         NEW a, a = call[c].asset, NEW scope, scope = call[c].scope
  PROVE  Claims!Prove(a, scope)
<1>1. /\ a \in Asset /\ call[c].at = "commit" /\ proof'[a].scope = scope
      /\ \A b \in Asset \ {a} : proof'[b] = proof[b]
  BY CommitWrites
<1>2. \A b \in Asset \ {a} : ValueOf[b] = ValueOf[a]
                             => [d \in Asset |-> proof[d].scope][b] = "none"
  BY <1>1 DEF ClaimInv, Clear, Holds, Claimed, Proven
<1>3. [d \in Asset |-> proof'[d].scope]
        = [[d \in Asset |-> proof[d].scope] EXCEPT ![a] = scope]
  BY <1>1
<1>4. name' = IF name[Owner[a]] = None THEN [name EXCEPT ![Owner[a]] = ValueOf[a]]
                                       ELSE name
  BY <1>1 DEF ClaimInv, NamesTrue, Commit
<1>. QED  BY <1>2, <1>3, <1>4 DEF Claims!Prove

LEMMA ClaimsStep ==
  ASSUME TypeInv, ClaimInv, [Next]_vars
  PROVE  [Claims!Next]_<<[a \in Asset |-> proof[a].scope], name>>
<1>1. ASSUME NEW c \in Call, Commit(c)
      PROVE  Claims!Next
  <2>1. PICK a \in Asset, scope \in Claims!Coverage :
          a = call[c].asset /\ scope = call[c].scope
    BY <1>1, CommitWrites DEF Claims!Coverage, Scope
  <2>2. Claims!Prove(a, scope)
    BY <1>1, <2>1, ClaimsProve
  <2>. QED  BY <2>2 DEF Claims!Next
<1>2. CASE ~\E c \in Call : Commit(c)
  BY <1>2, ProofsFromCommits
<1>. QED  BY <1>1, <1>2

(***************************************************************************)
(* Domain verification implements DomainClaims: however checks, replaced   *)
(* challenges and deaths interleave, a domain has one owner for good and   *)
(* an organization is named once, by the first domain it proves.           *)
(***************************************************************************)
THEOREM ClaimsImplemented == Spec => ImplementsClaims
<1>1. Init => Claims!Init
  BY ClaimsInit
<1>2. TypeInv /\ ClaimInv /\ [Next]_vars
        => [Claims!Next]_<<[a \in Asset |-> proof[a].scope], name>>
  BY ClaimsStep
<1>. QED  BY <1>1, <1>2, ClaimInvariant, PTL DEF Spec, ImplementsClaims, Claims!Spec
=============================================================================
