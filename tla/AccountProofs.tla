---------------------------- MODULE AccountProofs ----------------------------
(***************************************************************************)
(* Theorems about Accounts, for every set of requests, sessions, seeds,    *)
(* passwords and codes, every threshold and every bound of the clock.      *)
(***************************************************************************)
EXTENDS AccountProperties, TLAPS

Credential == [password : Password, stale : BOOLEAN,
               failures : 0 .. (LockoutThreshold - 1), lockedUntil : Nat]

SessionRow == [status : {"absent", "live", "revoked"}, assured : BOOLEAN]

-----------------------------------------------------------------------------
(* The local variables of requests *)

OnSessionPlace ==
  {"state", "touch", "logout", "password", "change", "revoke", "enroll",
   "seed", "factor", "spend", "granted", "codes", "mint"}

LEMMA LocalKind ==
  ASSUME NEW q \in Local
  PROVE  /\ q.at = "hashing" => q \in Hashing
         /\ q.at \in {"count", "admit"} => q \in Verified
         /\ q.at \in OnSessionPlace => q \in OnSession
         /\ q.at \notin {"idle", "hashing", "count", "admit"} => q.at \in OnSessionPlace
BY DEF Local, Idle, Hashing, Verified, OnSession, OnSessionPlace

LEMMA OnSessionFields ==
  ASSUME NEW q \in OnSession
  PROVE  /\ q.at \in OnSessionPlace /\ q.op \in Operation /\ q.session \in Session
         /\ q.began \in Nat /\ q.pending \in BOOLEAN /\ q.row \in Factor
         /\ q.burn \subseteq CodeSet /\ q.left \subseteq Session
         /\ q.taken \subseteq Session
BY DEF OnSession, OnSessionPlace

LEMMA EndType ==
  ASSUME request \in [Request -> Local], NEW r \in Request, End(r)
  PROVE  request' \in [Request -> Local]
BY DEF End, Local

LEMMA SetType ==
  ASSUME request \in [Request -> Local], NEW r \in Request, NEW q \in Local,
         request' = [request EXCEPT ![r] = q]
  PROVE  request' \in [Request -> Local]
OBVIOUS

LEMMA GotoType ==
  ASSUME request \in [Request -> Local], NEW r \in Request, request[r] \in OnSession,
         NEW place \in OnSessionPlace, Goto(r, place)
  PROVE  request' \in [Request -> Local]
<1>. DEFINE q == [request[r] EXCEPT !.at = place]
<1>1. q \in Local
  BY DEF Local, OnSession, OnSessionPlace
<1>2. request' = [request EXCEPT ![r] = q]
  BY DEF Goto
<1>. QED  BY <1>1, <1>2, SetType

(* What is written *)

LEMMA LockoutFieldsType ==
  ASSUME NEW row \in Factor, NEW failures \in 0 .. (MfaThreshold - 1),
         NEW penalty \in Nat, NEW lockedUntil \in Nat
  PROVE  /\ [row EXCEPT !.failures = failures, !.penalty = penalty,
                         !.lockedUntil = lockedUntil] \in Factor
         /\ [row EXCEPT !.failures = failures, !.lockedUntil = lockedUntil,
                         !.penalty = penalty] \in Factor
         /\ [row EXCEPT !.failures = failures] \in Factor
BY Zenon DEF Factor

LEMMA FactorFields ==
  ASSUME NEW row \in Factor
  PROVE  /\ row.failures \in 0 .. (MfaThreshold - 1)
         /\ row.penalty \in Nat /\ row.lockedUntil \in Nat
         /\ row.exists \in BOOLEAN /\ row.confirmed \in BOOLEAN
         /\ row.seed \in Seed \cup {NoSeed} /\ row.last \in Nat \cup {NoStep}
BY DEF Factor

LEMMA CountMissType ==
  ASSUME NEW row \in Factor, NEW began \in Nat
  PROVE  CountMiss(row, began) \in Factor
<1>0. row.failures \in 0 .. (MfaThreshold - 1) /\ row.penalty \in Nat
  BY FactorFields
<1>1. CASE row.failures + 1 < MfaThreshold
  <2>1. row.failures + 1 \in 0 .. (MfaThreshold - 1)
    BY <1>0, <1>1, AccountsAssumption
  <2>2. [row EXCEPT !.failures = row.failures + 1] \in Factor
    BY <2>1, LockoutFieldsType, AccountsAssumption, <1>0, Zenon
  <2>. QED  BY <1>1, <2>2, Zenon DEF CountMiss
<1>2. CASE ~(row.failures + 1 < MfaThreshold)
  <2>1. /\ 0 \in 0 .. (MfaThreshold - 1)
        /\ began + row.penalty \in Nat
        /\ Least(2 * row.penalty, MfaLockoutCap) \in Nat
    BY <1>0, AccountsAssumption DEF Least
  <2>2. [row EXCEPT !.failures = 0, !.lockedUntil = began + row.penalty,
                    !.penalty = Least(2 * row.penalty, MfaLockoutCap)] \in Factor
    BY <2>1, LockoutFieldsType, Zenon
  <2>. QED  BY <1>2, <2>2, Zenon DEF CountMiss
<1>. QED  BY <1>1, <1>2

LEMMA ClearedType ==
  ASSUME NEW row \in Factor
  PROVE  Cleared(row) \in Factor
<1>1. 0 \in 0 .. (MfaThreshold - 1) /\ MfaLockoutBase \in Nat /\ NoTime \in Nat
  BY AccountsAssumption DEF NoTime
<1>. QED  BY <1>1, LockoutFieldsType, Zenon DEF Cleared

LEMMA NoFactorType == NoFactor \in Factor
BY AccountsAssumption DEF NoFactor, Factor, NoTime, NoStep

LEMMA SessionTypes ==
  ASSUME session \in [Session -> SessionRow]
  PROVE  /\ \A assured \in BOOLEAN : Opened(assured) \in SessionRow
         /\ Absent \in SessionRow
         /\ \A S : Revoked(S) \in [Session -> SessionRow]
<1>1. ASSUME NEW S PROVE Revoked(S) \in [Session -> SessionRow]
  BY DEF Revoked, SessionRow
<1>. QED  BY <1>1 DEF Opened, Absent, SessionRow

LEMMA RotateType ==
  ASSUME session \in [Session -> SessionRow], NEW r, NEW assured \in BOOLEAN,
         Rotate(r, assured)
  PROVE  session' \in [Session -> SessionRow]
<1>. PICK s \in Session :
       session' = [Revoked(request[r].taken \cup {request[r].session})
                     EXCEPT ![s] = Opened(assured)]
  BY DEF Rotate
<1>1. Revoked(request[r].taken \cup {request[r].session}) \in [Session -> SessionRow]
  BY SessionTypes
<1>2. Opened(assured) \in SessionRow
  BY SessionTypes
<1>. QED  BY <1>1, <1>2

-----------------------------------------------------------------------------
(* Type correctness, one lemma for each action *)

LEMMA InitType == Init => TypeOK
<1>. SUFFICES ASSUME Init PROVE TypeOK
  OBVIOUS
<1>0. now = 1
  BY Zenon DEF Init
<1>1. now \in 1 .. MaxNow
  BY <1>0, AccountsAssumption
<1>2. credential \in Credential
  <2>1. {0} \subseteq 0 .. (LockoutThreshold - 1) /\ {NoTime} \subseteq Nat
    BY AccountsAssumption DEF NoTime
  <2>2. credential \in [password : Password, stale : BOOLEAN,
                        failures : {0}, lockedUntil : {NoTime}]
    BY DEF Init
  <2>. QED  BY <2>1, <2>2, Zenon DEF Credential
<1>3. PICK live \in SUBSET Session, enrolled \in BOOLEAN :
       /\ session = [s \in Session |-> IF s \in live THEN Opened(enrolled) ELSE Absent]
       /\ IF enrolled
            THEN /\ \E k \in Seed : factor = [NoFactor EXCEPT
                      !.exists = TRUE, !.seed = k, !.confirmed = TRUE, !.last = 0]
                 /\ \E c \in CodeSet : codes = {c}
            ELSE factor = NoFactor /\ codes = {}
  BY Zenon DEF Init
<1>4. session \in [Session -> SessionRow]
  BY <1>3 DEF Opened, Absent, SessionRow
<1>5. codes \subseteq CodeSet
  BY <1>3
<1>6. factor \in Factor
  <2>1. CASE enrolled
    <3>. PICK k \in Seed : factor = [NoFactor EXCEPT
             !.exists = TRUE, !.seed = k, !.confirmed = TRUE, !.last = 0]
      BY <1>3, <2>1
    <3>. QED  BY NoFactorType DEF Factor
  <2>2. CASE ~enrolled
    BY <1>3, <2>2, NoFactorType
  <2>. QED  BY <2>1, <2>2
<1>7. request \in [Request -> Local]
  BY DEF Init, Local
<1>. QED  BY <1>1, <1>2, <1>4, <1>5, <1>6, <1>7 DEF TypeOK, Credential, SessionRow

(* The parts of the type invariant, as the lemmas below use them. *)
LEMMA TypeParts ==
  /\ TypeOK <=> /\ now \in 1 .. MaxNow /\ credential \in Credential
                /\ factor \in Factor /\ session \in [Session -> SessionRow]
                /\ codes \subseteq CodeSet /\ request \in [Request -> Local]
  /\ TypeOK' <=> /\ now' \in 1 .. MaxNow /\ credential' \in Credential
                 /\ factor' \in Factor /\ session' \in [Session -> SessionRow]
                 /\ codes' \subseteq CodeSet /\ request' \in [Request -> Local]
BY DEF TypeOK, Credential, SessionRow, Factor

LEMMA LoginTypes ==
  ASSUME TypeOK, NEW r \in Request,
         Login(r) \/ LoginLoad(r) \/ LoginCount(r) \/ LoginAdmit(r)
  PROVE  TypeOK'
<1>0. /\ now \in Nat
      /\ credential.password \in Password /\ credential.stale \in BOOLEAN
      /\ credential.failures \in 0 .. (LockoutThreshold - 1)
      /\ credential.lockedUntil \in Nat
  BY AccountsAssumption, TypeParts DEF Credential
<1>1. CASE Login(r)
  <2>. PICK right \in BOOLEAN :
         request' = [request EXCEPT ![r] =
           [at |-> "hashing", right |-> right, began |-> now,
            password |-> credential.password, stale |-> credential.stale]]
    BY <1>1 DEF Login
  <2>1. request' \in [Request -> Local]
    BY <1>0, TypeParts DEF Local, Hashing
  <2>. QED  BY <1>1, <2>1, TypeParts DEF Login, rows
<1>2. CASE LoginLoad(r)
  <2>. DEFINE q == [at |-> IF request[r].right THEN "admit" ELSE "count",
                    began |-> request[r].began,
                    password |-> request[r].password, stale |-> request[r].stale,
                    loaded |-> [failures |-> credential.failures,
                                lockedUntil |-> credential.lockedUntil]]
  <2>1. request[r] \in Hashing
    BY <1>2, LocalKind, TypeParts DEF LoginLoad
  <2>2. q \in Verified
    BY <1>0, <2>1 DEF Hashing, Verified, Loaded
  <2>3. request' = [request EXCEPT ![r] = q]
    BY <1>2 DEF LoginLoad
  <2>4. request' \in [Request -> Local]
    BY <2>2, <2>3, SetType, TypeParts DEF Local
  <2>. QED  BY <1>2, <2>4, TypeParts DEF LoginLoad, rows
<1>3. CASE LoginCount(r)
  <2>1. request[r] \in Verified
    BY <1>3, LocalKind, TypeParts DEF LoginCount
  <2>2. request[r].loaded.failures \in 0 .. (LockoutThreshold - 1)
        /\ request[r].began \in Nat
    BY <2>1 DEF Verified, Loaded
  <2>3. credential' \in Credential
    <3>. DEFINE failures == request[r].loaded.failures + 1
    <3>1. /\ failures < LockoutThreshold => failures \in 0 .. (LockoutThreshold - 1)
          /\ 0 \in 0 .. (LockoutThreshold - 1)
          /\ request[r].began + LockoutTime \in Nat
          /\ failures >= LockoutThreshold \/ failures < LockoutThreshold
      BY <2>2, AccountsAssumption
    <3>2. CASE failures >= LockoutThreshold
      <4>1. credential' = [credential EXCEPT !.failures = 0,
                             !.lockedUntil = request[r].began + LockoutTime]
        BY <1>3, <3>2 DEF LoginCount
      <4>. HIDE DEF failures
      <4>. QED  BY <3>1, <4>1, TypeParts, Zenon DEF Credential
    <3>3. CASE ~(failures >= LockoutThreshold)
      <4>1. credential' = [credential EXCEPT !.failures = failures]
        BY <1>3, <3>3 DEF LoginCount
      <4>. HIDE DEF failures
      <4>. QED  BY <3>1, <3>3, <4>1, TypeParts, Zenon DEF Credential
    <3>. QED  BY <3>2, <3>3
  <2>4. request' \in [Request -> Local]
    BY <1>3, EndType, TypeParts DEF LoginCount
  <2>. QED  BY <1>3, <2>3, <2>4, TypeParts DEF LoginCount
<1>4. CASE LoginAdmit(r)
  <2>1. request[r] \in Verified
    BY <1>4, LocalKind, TypeParts DEF LoginAdmit
  <2>2. request[r].password \in Password
    BY <2>1 DEF Verified
  <2>3. credential' \in Credential
    <3>. DEFINE q == request[r]
    <3>. DEFINE password == IF q.stale THEN q.password ELSE credential.password
    <3>. DEFINE stale == IF q.stale THEN FALSE ELSE credential.stale
    <3>. DEFINE failures == IF q.loaded.failures # 0 THEN 0 ELSE credential.failures
    <3>. DEFINE lockedUntil ==
           IF q.loaded.lockedUntil # NoTime THEN NoTime ELSE credential.lockedUntil
    <3>1. credential' = [password |-> password, stale |-> stale,
                         failures |-> failures, lockedUntil |-> lockedUntil]
      BY <1>4 DEF LoginAdmit
    <3>2. /\ credential.password \in Password
          /\ credential.stale \in BOOLEAN
          /\ credential.failures \in 0 .. (LockoutThreshold - 1)
          /\ credential.lockedUntil \in Nat
      BY TypeParts DEF Credential
    <3>3. password \in Password
      BY <2>2, <3>2
    <3>4. stale \in BOOLEAN
      BY <3>2
    <3>5. failures \in 0 .. (LockoutThreshold - 1)
      BY <3>2, AccountsAssumption
    <3>6. lockedUntil \in Nat
      BY <3>2 DEF NoTime
    <3>. HIDE DEF password, stale, failures, lockedUntil
    <3>. QED  BY <3>1, <3>3, <3>4, <3>5, <3>6 DEF Credential
  <2>4. session' \in [Session -> SessionRow]
    BY <1>4, SessionTypes, TypeParts DEF LoginAdmit
  <2>5. request' \in [Request -> Local]
    BY <1>4, EndType, TypeParts DEF LoginAdmit
  <2>. QED  BY <1>4, <2>3, <2>4, <2>5, TypeParts DEF LoginAdmit
<1>. QED  BY <1>1, <1>2, <1>3, <1>4

(* Steps that end a request, or go on in it, and leave the rows alone. *)
LEMMA EndTypes ==
  ASSUME TypeOK, NEW r \in Request, End(r), UNCHANGED <<now, rows>>
  PROVE  TypeOK'
BY EndType, TypeParts DEF rows

LEMMA GotoTypes ==
  ASSUME TypeOK, NEW r \in Request, request[r].at \in OnSessionPlace,
         NEW place \in OnSessionPlace, Goto(r, place), UNCHANGED <<now, rows>>
  PROVE  TypeOK'
BY GotoType, LocalKind, TypeParts DEF rows

LEMMA SetTypes ==
  ASSUME TypeOK, NEW r \in Request, NEW q \in OnSession,
         request' = [request EXCEPT ![r] = q], UNCHANGED <<now, rows>>
  PROVE  TypeOK'
<1>1. q \in Local
  BY DEF Local
<1>. QED  BY <1>1, SetType, TypeParts DEF rows

LEMMA OnSessionType ==
  ASSUME TypeOK, NEW r \in Request, request[r].at \in OnSessionPlace
  PROVE  request[r] \in OnSession
BY LocalKind, TypeParts

LEMMA ResolveTypes ==
  ASSUME TypeOK, NEW r \in Request,
         \/ \E op \in Calls, s \in Session : Begin(r, op, s)
         \/ ReadState(r) \/ Touch(r) \/ Refuse(r) \/ Logout(r) \/ CheckPassword(r)
  PROVE  TypeOK'
<1>1. ASSUME NEW op \in Calls, NEW s \in Session, Begin(r, op, s) PROVE TypeOK'
  <2>1. op \in Operation /\ now \in Nat
    BY AccountsAssumption, TypeParts
  <2>2. Started(op, s) \in OnSession
    BY <2>1, NoFactorType DEF Started, OnSession
  <2>. QED  BY <1>1, <2>2, SetTypes DEF Begin
<1>2. CASE ReadState(r)
  <2>. DEFINE pending == /\ request[r].op = "verify" /\ factor.confirmed
                         /\ ~session[request[r].session].assured
              q == [request[r] EXCEPT !.at = "touch", !.pending = pending]
  <2>1. request[r] \in OnSession
    BY <1>2, OnSessionType DEF ReadState, OnSessionPlace
  <2>2. pending \in BOOLEAN
    OBVIOUS
  <2>3. q \in OnSession
    <3>. HIDE DEF pending
    <3>. QED  BY <2>1, <2>2 DEF OnSession
  <2>4. request' = [request EXCEPT ![r] = q]
    BY <1>2, Zenon DEF ReadState
  <2>. QED  BY <1>2, <2>3, <2>4, SetTypes DEF ReadState
<1>3. CASE Touch(r)
  <2>1. Resolved(request[r].op) \in OnSessionPlace
    BY DEF Resolved, OnSessionPlace
  <2>. QED  BY <1>3, <2>1, GotoTypes DEF Touch, OnSessionPlace
<1>4. CASE Refuse(r)
  BY <1>4, EndTypes DEF Refuse
<1>5. CASE Logout(r)
  <2>1. session' \in [Session -> SessionRow]
    BY <1>5, SessionTypes, TypeParts DEF Logout
  <2>. QED  BY <1>5, <2>1, EndType, TypeParts DEF Logout
<1>6. CASE CheckPassword(r)
  <2>1. Authenticated(request[r].op) \in OnSessionPlace
    BY DEF Authenticated, OnSessionPlace
  <2>. QED  BY <1>6, <2>1, GotoTypes DEF CheckPassword, OnSessionPlace
<1>. QED  BY <1>1, <1>2, <1>3, <1>4, <1>5, <1>6

LEMMA ChangeTypes ==
  ASSUME TypeOK, NEW r \in Request,
         ChangePassword(r) \/ Revoke(r) \/ ChangeCommit(r)
  PROVE  TypeOK'
<1>1. CASE ChangePassword(r)
  <2>. DEFINE q == [request[r] EXCEPT !.at = "revoke", !.left = Others(r)]
  <2>1. request[r] \in OnSession
    BY <1>1, OnSessionType DEF ChangePassword, OnSessionPlace
  <2>2. Others(r) \subseteq Session
    BY DEF Others, Live
  <2>3. q \in OnSession
    BY <2>1, <2>2 DEF OnSession
  <2>4. request' = [request EXCEPT ![r] = q]
    BY <1>1, Zenon DEF ChangePassword
  <2>. QED  BY <1>1, <2>3, <2>4, SetTypes DEF ChangePassword
<1>2. CASE Revoke(r)
  <2>1. request[r] \in OnSession
    BY <1>2, OnSessionType DEF Revoke, OnSessionPlace
  <2>. PICK s \in request[r].left :
         request' = [request EXCEPT ![r].left = @ \ {s},
                                    ![r].taken = @ \cup ({s} \cap Live)]
    BY <1>2 DEF Revoke
  <2>. DEFINE q == [request[r] EXCEPT !.left = @ \ {s}, !.taken = @ \cup ({s} \cap Live)]
  <2>2. /\ request[r].left \ {s} \subseteq Session
        /\ request[r].taken \cup ({s} \cap Live) \subseteq Session
    BY <2>1, OnSessionFields DEF Live
  <2>3. q \in OnSession
    BY <2>1, <2>2 DEF OnSession
  <2>4. request' = [request EXCEPT ![r] = q]
    BY Zenon
  <2>. QED  BY <1>2, <2>3, <2>4, SetTypes DEF Revoke
<1>3. CASE ChangeCommit(r)
  <2>1. credential' \in Credential
    BY <1>3, TypeParts, Zenon DEF ChangeCommit, Credential
  <2>2. session' \in [Session -> SessionRow]
    BY <1>3, RotateType, TypeParts DEF ChangeCommit
  <2>. QED  BY <1>3, <2>1, <2>2, EndType, TypeParts DEF ChangeCommit
<1>. QED  BY <1>1, <1>2, <1>3
LEMMA EnrollTypes ==
  ASSUME TypeOK, NEW r \in Request,
         EnrollRead(r) \/ EnrollInsert(r) \/ EnrollUpdate(r)
  PROVE  TypeOK'
<1>1. CASE EnrollRead(r)
  <2>. DEFINE q == [request[r] EXCEPT !.at = "seed", !.row = factor]
  <2>1. request[r] \in OnSession
    BY <1>1, OnSessionType DEF EnrollRead, OnSessionPlace
  <2>2. q \in OnSession
    BY <2>1, TypeParts DEF OnSession
  <2>3. CASE factor.confirmed
    BY <1>1, <2>3, EndTypes DEF EnrollRead, End
  <2>4. CASE ~factor.confirmed
    <3>1. request' = [request EXCEPT ![r] = q]
      BY <1>1, <2>4, Zenon DEF EnrollRead
    <3>. QED  BY <1>1, <2>2, <3>1, SetTypes DEF EnrollRead
  <2>. QED  BY <2>3, <2>4
<1>2. CASE EnrollInsert(r)
  <2>1. ASSUME NEW k \in Seed, factor' = [NoFactor EXCEPT !.exists = TRUE, !.seed = k]
        PROVE  factor' \in Factor
    BY <2>1, NoFactorType, Zenon DEF Factor
  <2>2. factor' \in Factor
    BY <1>2, <2>1, TypeParts DEF EnrollInsert
  <2>. QED  BY <1>2, <2>2, EndType, TypeParts DEF EnrollInsert
<1>3. CASE EnrollUpdate(r)
  <2>1. factor \in Factor
    BY TypeParts
  <2>2. 0 \in 0 .. (MfaThreshold - 1)
    BY AccountsAssumption
  <2>3. PICK k \in Seed, last \in {NoStep, factor.last}, failures \in {0, factor.failures} :
          factor' = [factor EXCEPT !.seed = k, !.last = last, !.failures = failures]
    BY <1>3, Zenon DEF EnrollUpdate
  <2>4. last \in Nat \cup {NoStep} /\ failures \in 0 .. (MfaThreshold - 1)
    BY <2>1, <2>2, FactorFields
  <2>5. factor' \in Factor
    BY <2>1, <2>3, <2>4, Zenon DEF Factor
  <2>. QED  BY <1>3, <2>5, EndType, TypeParts DEF EnrollUpdate
<1>. QED  BY <1>1, <1>2, <1>3

LEMMA CodeTypes ==
  ASSUME TypeOK, NEW r \in Request,
         LockFactor(r) \/ RejectCode(r) \/ AcceptStep(r) \/ AcceptRecoveryCode(r)
  PROVE  TypeOK'
<1>0. /\ request[r] \in OnSession /\ request[r].row \in Factor
      /\ request[r].began \in Nat /\ request[r].burn \subseteq CodeSet
  <2>1. request[r].at \in {"factor", "spend"}
    BY DEF LockFactor, RejectCode, AcceptStep, AcceptRecoveryCode
  <2>2. request[r] \in OnSession
    BY <2>1, OnSessionType DEF OnSessionPlace
  <2>. QED  BY <2>2, OnSessionFields
<1>1. CASE LockFactor(r)
  <2>. DEFINE at == IF request[r].op = "disable" THEN "password" ELSE "spend"
              q == [request[r] EXCEPT !.at = at, !.row = factor]
  <2>1. q \in OnSession
    BY <1>0, TypeParts DEF OnSession
  <2>2. CASE Usable(request[r])
    <3>1. request' = [request EXCEPT ![r] = q]
      BY <1>1, <2>2, Zenon DEF LockFactor
    <3>. QED  BY <1>1, <2>1, <3>1, SetTypes DEF LockFactor
  <2>3. CASE ~Usable(request[r])
    BY <1>1, <2>3, EndTypes DEF LockFactor, End
  <2>. QED  BY <2>2, <2>3
<1>2. CASE RejectCode(r)
  <2>1. factor' \in Factor
    BY <1>0, <1>2, CountMissType DEF RejectCode
  <2>. QED  BY <1>2, <2>1, EndType, TypeParts DEF RejectCode
<1>3. CASE AcceptStep(r)
  <2>1. PICK step \in (request[r].began - 1) .. (request[r].began + 1) :
          request' = [request EXCEPT ![r].at = "granted",
                                     ![r].row = [Cleared(@) EXCEPT !.last = step]]
    BY <1>3 DEF AcceptStep
  <2>. DEFINE row == [Cleared(request[r].row) EXCEPT !.last = step]
              q == [request[r] EXCEPT !.at = "granted", !.row = row]
  <2>2. step \in Nat \cup {NoStep}
    BY <1>0 DEF NoStep
  <2>3. row \in Factor
    BY <1>0, <2>2, ClearedType, Zenon DEF Factor
  <2>4. q \in OnSession
    <3>. HIDE DEF row
    <3>. QED  BY <1>0, <2>3 DEF OnSession
  <2>5. request' = [request EXCEPT ![r] = q]
    BY <2>1, Zenon
  <2>. QED  BY <1>3, <2>4, <2>5, SetTypes DEF AcceptStep
<1>4. CASE AcceptRecoveryCode(r)
  <2>1. PICK c \in codes :
          request' = [request EXCEPT ![r].at = "granted",
                                     ![r].row = Cleared(@), ![r].burn = {c}]
    BY <1>4 DEF AcceptRecoveryCode
  <2>. DEFINE q == [request[r] EXCEPT !.at = "granted", !.row = Cleared(@), !.burn = {c}]
  <2>2. {c} \subseteq CodeSet /\ Cleared(request[r].row) \in Factor
    BY <1>0, ClearedType, TypeParts
  <2>3. q \in OnSession
    BY <1>0, <2>2 DEF OnSession
  <2>4. request' = [request EXCEPT ![r] = q]
    BY <2>1, Zenon
  <2>. QED  BY <1>4, <2>3, <2>4, SetTypes DEF AcceptRecoveryCode
<1>. QED  BY <1>1, <1>2, <1>3, <1>4

LEMMA VerifyTypes ==
  ASSUME TypeOK, NEW r \in Request, StepUp(r) \/ CompleteLogin(r)
  PROVE  TypeOK'
<1>0. /\ request[r].session \in Session /\ request[r].row \in Factor
      /\ codes \ request[r].burn \subseteq CodeSet
  <2>1. request[r].at = "granted"
    BY DEF StepUp, CompleteLogin
  <2>2. request[r] \in OnSession
    BY <2>1, OnSessionType DEF OnSessionPlace
  <2>. QED  BY <2>2, OnSessionFields, TypeParts
<1>1. CASE StepUp(r)
  <2>1. session' \in [Session -> SessionRow]
    BY <1>0, <1>1, TypeParts DEF StepUp, SessionRow
  <2>2. factor' \in Factor /\ codes' \subseteq CodeSet
    BY <1>0, <1>1, TypeParts DEF StepUp
  <2>. QED  BY <1>1, <2>1, <2>2, EndType, TypeParts DEF StepUp
<1>2. CASE CompleteLogin(r)
  <2>1. session' \in [Session -> SessionRow]
    BY <1>2, RotateType, TypeParts DEF CompleteLogin
  <2>. QED  BY <1>0, <1>2, <2>1, EndType, TypeParts DEF CompleteLogin
<1>. QED  BY <1>1, <1>2

LEMMA ConfirmTypes ==
  ASSUME TypeOK, NEW r \in Request, ConfirmStamp(r) \/ ConfirmCommit(r)
  PROVE  TypeOK'
<1>0. request[r] \in OnSession
  BY OnSessionType DEF ConfirmStamp, ConfirmCommit, RevokedAll, OnSessionPlace
<1>1. CASE ConfirmStamp(r)
  <2>. DEFINE row == [request[r].row EXCEPT !.confirmed = TRUE]
              q == [request[r] EXCEPT !.at = "revoke", !.row = row, !.left = Others(r)]
  <2>1. Others(r) \subseteq Session
    BY DEF Others, Live
  <2>2. row \in Factor
    BY <1>0, OnSessionFields DEF Factor
  <2>3. q \in OnSession
    <3>. HIDE DEF row
    <3>. QED  BY <1>0, <2>1, <2>2 DEF OnSession
  <2>4. CASE Stampable(r)
    <3>1. request' = [request EXCEPT ![r] = q]
      BY <1>1, <2>4, Zenon DEF ConfirmStamp
    <3>. QED  BY <1>1, <2>3, <3>1, SetTypes DEF ConfirmStamp
  <2>5. CASE ~Stampable(r)
    BY <1>1, <2>5, EndTypes DEF ConfirmStamp, End
  <2>. QED  BY <2>4, <2>5
<1>2. CASE ConfirmCommit(r)
  <2>1. session' \in [Session -> SessionRow]
    <3>1. Revoked(request[r].taken) \in [Session -> SessionRow]
      BY SessionTypes, TypeParts
    <3>. QED  BY <1>2, <3>1 DEF ConfirmCommit, SessionRow
  <2>2. codes' \subseteq CodeSet
    BY <1>2 DEF ConfirmCommit
  <2>3. factor' \in Factor
    BY <1>0, <1>2, OnSessionFields DEF ConfirmCommit
  <2>. QED  BY <1>2, <2>1, <2>2, <2>3, EndType, TypeParts DEF ConfirmCommit
<1>. QED  BY <1>1, <1>2

LEMMA DisableTypes ==
  ASSUME TypeOK, NEW r \in Request, DisableBurn(r) \/ DisableCommit(r)
  PROVE  TypeOK'
<1>0. request[r] \in OnSession
  BY OnSessionType DEF DisableBurn, DisableCommit, RevokedAll, OnSessionPlace
<1>1. CASE DisableBurn(r)
  <2>. DEFINE row == [request[r].row EXCEPT !.seed = NoSeed, !.confirmed = FALSE,
                                           !.last = NoStep]
              burn == request[r].burn \cup codes
              q == [request[r] EXCEPT !.at = "revoke", !.left = Others(r),
                                      !.burn = burn, !.row = row]
  <2>1. Others(r) \subseteq Session /\ burn \subseteq CodeSet
    BY <1>0, OnSessionFields, TypeParts DEF Others, Live
  <2>2. row \in Factor
    BY <1>0, OnSessionFields, Zenon DEF Factor
  <2>3. q \in OnSession
    <3>. HIDE DEF row, burn
    <3>. QED  BY <1>0, <2>1, <2>2 DEF OnSession
  <2>4. request' = [request EXCEPT ![r] = q]
    BY <1>1, Zenon DEF DisableBurn
  <2>. QED  BY <1>1, <2>3, <2>4, SetTypes DEF DisableBurn
<1>2. CASE DisableCommit(r)
  <2>1. session' \in [Session -> SessionRow]
    BY <1>2, RotateType, TypeParts DEF DisableCommit
  <2>2. factor' \in Factor /\ codes' \subseteq CodeSet
    BY <1>0, <1>2, OnSessionFields, TypeParts DEF DisableCommit
  <2>. QED  BY <1>2, <2>1, <2>2, EndType, TypeParts DEF DisableCommit
<1>. QED  BY <1>1, <1>2

LEMMA RegenerateTypes ==
  ASSUME TypeOK, NEW r \in Request, Regenerate(r) \/ RegenerateCommit(r)
  PROVE  TypeOK'
<1>0. request[r] \in OnSession
  BY OnSessionType DEF Regenerate, RegenerateCommit, OnSessionPlace
<1>1. CASE Regenerate(r)
  <2>. DEFINE q == [request[r] EXCEPT !.at = "mint", !.burn = codes]
  <2>1. q \in OnSession
    BY <1>0, TypeParts DEF OnSession
  <2>2. CASE factor.confirmed
    <3>1. request' = [request EXCEPT ![r] = q]
      BY <1>1, <2>2, Zenon DEF Regenerate
    <3>. QED  BY <1>1, <2>1, <3>1, SetTypes DEF Regenerate
  <2>3. CASE ~factor.confirmed
    BY <1>1, <2>3, EndTypes DEF Regenerate, End
  <2>. QED  BY <2>2, <2>3
<1>2. CASE RegenerateCommit(r)
  <2>1. codes' \subseteq CodeSet
    BY <1>2, TypeParts DEF RegenerateCommit
  <2>. QED  BY <1>2, <2>1, EndType, TypeParts DEF RegenerateCommit
<1>. QED  BY <1>1, <1>2

-----------------------------------------------------------------------------
(***************************************************************************)
(* Rows and requests keep their types.  In particular _record_failure and  *)
(* _record_mfa_failure keep their counters below the thresholds, whatever  *)
(* other requests counted meanwhile.                                       *)
(***************************************************************************)
THEOREM TypeCorrect == Spec => []TypeOK
<1>1. ASSUME TypeOK, [Next]_vars PROVE TypeOK'
  <2>0. CASE UNCHANGED vars
    BY <1>1, <2>0, TypeParts DEF vars, rows
  <2>1. CASE Tick
    BY <1>1, <2>1, TypeParts, AccountsAssumption DEF Tick, rows
  <2>2. CASE Quiet
    BY <2>0, <2>2 DEF Quiet
  <2>3. ASSUME NEW r \in Request,
               Login(r) \/ LoginLoad(r) \/ LoginCount(r) \/ LoginAdmit(r)
        PROVE  TypeOK'
    BY <1>1, <2>3, LoginTypes
  <2>4. ASSUME NEW r \in Request,
               \/ \E op \in Calls, s \in Session : Begin(r, op, s)
               \/ ReadState(r) \/ Touch(r) \/ Refuse(r) \/ Logout(r) \/ CheckPassword(r)
        PROVE  TypeOK'
    BY <1>1, <2>4, ResolveTypes
  <2>5. ASSUME NEW r \in Request, Abort(r) \/ Crash(r) PROVE TypeOK'
    BY <1>1, <2>5, EndTypes DEF Abort, Crash
  <2>6. ASSUME NEW r \in Request, Proceed(r) PROVE TypeOK'
    BY <1>1, <2>3, <2>4, <2>6, ChangeTypes, EnrollTypes, CodeTypes, VerifyTypes,
       ConfirmTypes, DisableTypes, RegenerateTypes DEF Proceed
  <2>. QED  BY <1>1, <2>0, <2>1, <2>2, <2>3, <2>4, <2>5, <2>6 DEF Next
<1>. QED  BY <1>1, InitType, PTL DEF Spec
=============================================================================
