------------------------------- MODULE Accounts -------------------------------
(***************************************************************************)
(* One user's credential, sessions and second factor, as the requests of   *)
(* domains/auth/ read and write them over PostgreSQL at READ COMMITTED.    *)
(*                                                                         *)
(* A request is one transaction of several statements.  What it has        *)
(* written is in its local record until it commits; the variables are what *)
(* is committed, which is all that the statements of other requests see.   *)
(* A step ends where the transaction may wait for a row, or where what was *)
(* read without a lock may become old before it is used.                   *)
(*                                                                         *)
(* A tick of the clock is one TOTP step.  PostgreSQL's now() is the start  *)
(* of the transaction, so all comparisons of a request use one time,       *)
(* "began".  Idle and absolute timeouts of sessions and the age of an      *)
(* assurance are left out: any request may be refused for them.            *)
(***************************************************************************)
EXTENDS Integers, FiniteSets

CONSTANTS
  Request,        \* requests that may be in progress together
  Session,        \* rows of user_session
  Password, Seed, \* passwords and TOTP seeds
  CodeSet,        \* sets of recovery codes; one code stands for its set
  NoSeed,
  Calls,          \* the operations that are called on a session
  MaxNow,         \* bound on the clock
  LockoutThreshold, LockoutTime,             \* auth_lockout_*
  MfaThreshold, MfaLockoutBase, MfaLockoutCap \* auth_mfa_*

Operation ==
  {"logout", "change_password", "enroll", "confirm", "verify", "regenerate", "disable"}

ASSUME AccountsAssumption ==
  /\ Calls \subseteq Operation
  /\ NoSeed \notin Seed
  /\ MaxNow \in Nat \ {0}
  /\ LockoutThreshold \in Nat \ {0} /\ LockoutTime \in Nat \ {0}
  /\ MfaThreshold \in Nat \ {0}
  /\ MfaLockoutBase \in Nat \ {0} /\ MfaLockoutCap \in Nat
  /\ MfaLockoutBase <= MfaLockoutCap

VARIABLES
  now,         \* the database clock
  credential,  \* the user_credential row
  factor,      \* the user_mfa row
  session,     \* the user_session rows
  codes,       \* the sets of recovery codes that are live
  request      \* where each request is, with its local variables

rows == <<credential, factor, session, codes>>
vars == <<now, credential, factor, session, codes, request>>

NoTime == 0    \* a NULL timestamp
NoStep == -1   \* a NULL last_used_step

Absent == [status |-> "absent", assured |-> FALSE]
Opened(assured) == [status |-> "live", assured |-> assured]

(* penalty is the length of the next lockout, which lockout_count stands for. *)
NoFactor == [exists |-> FALSE, seed |-> NoSeed, confirmed |-> FALSE,
             last |-> NoStep, failures |-> 0, penalty |-> MfaLockoutBase,
             lockedUntil |-> NoTime]

Live == {s \in Session : session[s].status = "live"}

Revoked(some) == [s \in Session |-> IF s \in some /\ s \in Live
                                      THEN [session[s] EXCEPT !.status = "revoked"]
                                      ELSE session[s]]

-----------------------------------------------------------------------------
(* Requests *)

Idle == [at |-> "idle"]

(* A request on a session, with nothing read or written yet. *)
Started(op, s) ==
  [at |-> "state", op |-> op, session |-> s, began |-> now, pending |-> FALSE,
   row |-> NoFactor, burn |-> {}, left |-> {}, taken |-> {}]

Goto(r, place) == request' = [request EXCEPT ![r].at = place]
End(r) == request' = [request EXCEPT ![r] = Idle]

Active == {r \in Request : request[r].at # "idle"}

(***************************************************************************)
(* Bound: a request that may open a session starts only if it will find a  *)
(* row for it.  A verification opens one unless its session is assured.    *)
(***************************************************************************)
Opens(op, s) ==
  \/ op \in {"change_password", "disable"}
  \/ op = "verify" /\ ~session[s].assured

Opening == {r \in Active : \/ request[r].at \in {"hashing", "count", "admit"}
                           \/ Opens(request[r].op, request[r].session)}

Room == Cardinality({s \in Session : session[s] = Absent}) > Cardinality(Opening)

(***************************************************************************)
(* The rows a request has locked: its own session since the touch, the     *)
(* factor since SELECT ... FOR UPDATE, and what it has updated since.      *)
(***************************************************************************)
HoldsFactor(r) ==
  \/ request[r].at \in {"spend", "granted"}
  \/ request[r].at \in {"password", "revoke"} /\ request[r].op \in {"confirm", "disable"}

Holds_NoCodes(r) ==
  IF request[r].at \in {"idle", "hashing", "count", "admit", "state", "touch"} THEN {}
  ELSE {request[r].session} \cup request[r].taken
       \cup (IF HoldsFactor(r) THEN {"factor"} ELSE {})

Holds(r) ==
  IF request[r].at \in {"idle", "hashing", "count", "admit", "state", "touch"} THEN {}
  ELSE {request[r].session} \cup request[r].taken
       \cup (IF HoldsFactor(r) THEN {"factor"} ELSE {})
       \cup (IF request[r].op = "change_password" /\ request[r].at = "revoke"
               THEN {"credential"} ELSE {})
       \cup (IF request[r].at \in {"granted", "revoke"} THEN request[r].burn ELSE {})

Free(r, row) == \A other \in Request \ {r} : row \notin Holds(other)

(* The rows the next statement of a request waits for. *)
Changes(loaded, stale) == loaded.failures # 0 \/ loaded.lockedUntil # NoTime \/ stale

Needs(r) ==
  LET q == request[r]
  IN  CASE q.at = "touch"  -> {q.session}
        [] q.at = "count"  -> {"credential"}
        [] q.at = "admit"  -> IF Changes(q.loaded, q.stale) THEN {"credential"} ELSE {}
        [] q.at = "change" -> {"credential"}
        [] q.at = "factor" -> {"factor"}
        [] q.at = "seed"   -> {"factor"}
        [] q.at = "mint"   -> q.burn
        [] q.at = "revoke" -> q.left
        [] OTHER           -> {}

WaitsFor(r, other) == r # other /\ Needs(r) \cap Holds(other) # {}

(* PostgreSQL finds a cycle of requests that wait for each other. *)
Deadlocked(r) ==
  \E cycle \in SUBSET Request :
    /\ r \in cycle
    /\ \A a \in cycle : /\ \E b \in cycle : WaitsFor(a, b)
                        /\ \E b \in cycle : WaitsFor(b, a)

-----------------------------------------------------------------------------
(* Login *)

(***************************************************************************)
(* auth_login_lookup, on which the lockout is decided and the slow         *)
(* password hash is verified.  A locked account is refused.                *)
(***************************************************************************)
Login(r) ==
  /\ request[r].at = "idle" /\ Room
  /\ credential.lockedUntil <= now
  /\ \E right \in BOOLEAN :
       request' = [request EXCEPT ![r] =
         [at |-> "hashing", right |-> right, began |-> now,
          password |-> credential.password, stale |-> credential.stale]]
  /\ UNCHANGED <<now, rows>>

(* The credential is loaded, without a lock, once the password is checked. *)
LoginLoad(r) ==
  /\ request[r].at = "hashing"
  /\ request' = [request EXCEPT ![r] =
       [at |-> IF @.right THEN "admit" ELSE "count", began |-> @.began,
        password |-> @.password, stale |-> @.stale,
        loaded |-> [failures |-> credential.failures,
                    lockedUntil |-> credential.lockedUntil]]]
  /\ UNCHANGED <<now, rows>>

(* _record_failure writes what it loaded plus one. *)
LoginCount(r) ==
  LET failures == request[r].loaded.failures + 1
  IN  /\ request[r].at = "count"
      /\ Free(r, "credential")
      /\ credential' =
           IF failures >= LockoutThreshold
             THEN [credential EXCEPT !.failures = 0,
                                     !.lockedUntil = request[r].began + LockoutTime]
             ELSE [credential EXCEPT !.failures = failures]
      /\ End(r)
      /\ UNCHANGED <<now, factor, session, codes>>

(***************************************************************************)
(* The columns that differ from what was loaded are reset, the password    *)
(* that was verified is hashed again if its parameters are old, and a      *)
(* session is opened: without assurance, hence pending if there is a       *)
(* second factor.                                                          *)
(***************************************************************************)
LoginAdmit(r) ==
  LET q == request[r]
  IN  /\ q.at = "admit"
      /\ Changes(q.loaded, q.stale) => Free(r, "credential")
      /\ credential' =
           [password |-> IF q.stale THEN q.password ELSE credential.password,
            stale |-> IF q.stale THEN FALSE ELSE credential.stale,
            failures |-> IF q.loaded.failures # 0 THEN 0 ELSE credential.failures,
            lockedUntil |-> IF q.loaded.lockedUntil # NoTime THEN NoTime
                                                  ELSE credential.lockedUntil]
      /\ \E s \in Session : /\ session[s] = Absent
                            /\ session' = [session EXCEPT ![s] = Opened(FALSE)]
      /\ End(r)
      /\ UNCHANGED <<now, factor, codes>>

-----------------------------------------------------------------------------
(* Resolving the session *)

(* auth_session_bootstrap finds the session, not revoked. *)
Begin(r, op, s) ==
  /\ request[r].at = "idle" /\ (Opens(op, s) => Room)
  /\ s \in Live
  /\ request' = [request EXCEPT ![r] = Started(op, s)]
  /\ UNCHANGED <<now, rows>>

(***************************************************************************)
(* A session that awaits its second factor may only be verified or logged  *)
(* out; regeneration and disabling require current assurance.              *)
(***************************************************************************)
ReadState(r) ==
  LET enrolled == factor.confirmed
      assured  == session[request[r].session].assured
  IN  /\ request[r].at = "state"
      /\ request[r].op \notin {"verify", "logout"} => ~enrolled \/ assured
      /\ request[r].op \in {"regenerate", "disable"} => enrolled /\ assured
      /\ request' = [request EXCEPT ![r].at = "touch",
                                    ![r].pending = request[r].op = "verify" /\ enrolled /\ ~assured]
      /\ UNCHANGED <<now, rows>>

(* Where an operation goes on, once its session and its password are checked. *)
Resolved(op) == CASE op = "logout" -> "logout"
                  [] op \in {"confirm", "verify", "disable"} -> "factor"
                  [] OTHER -> "password"

Authenticated(op) == CASE op = "change_password" -> "change"
                       [] op = "enroll" -> "enroll"
                       [] op = "regenerate" -> "codes"
                       [] OTHER -> "spend"

(***************************************************************************)
(* The unconditional UPDATE of last_seen_at.  It waits for whoever has the *)
(* session row, and finds it even if it was revoked meanwhile.             *)
(***************************************************************************)
Touch(r) ==
  /\ request[r].at = "touch"
  /\ Free(r, request[r].session)
  /\ Goto(r, Resolved(request[r].op))
  /\ UNCHANGED <<now, rows>>

(* A timeout, an assurance that aged out, or a wrong password. *)
Refuse(r) ==
  /\ request[r].at \in {"state", "password"}
  /\ End(r)
  /\ UNCHANGED <<now, rows>>

Logout(r) ==
  /\ request[r].at = "logout"
  /\ session' = Revoked({request[r].session})
  /\ End(r)
  /\ UNCHANGED <<now, credential, factor, codes>>

(* _verify_current_password succeeds. *)
CheckPassword(r) ==
  /\ request[r].at = "password"
  /\ Goto(r, Authenticated(request[r].op))
  /\ UNCHANGED <<now, rows>>

-----------------------------------------------------------------------------
(* Password change *)

(* The sessions the UPDATE of revoke_other_sessions sees. *)
Others(r) == Live \ {request[r].session}

(***************************************************************************)
(* The credential is flushed before the sessions are revoked one by one;   *)
(* its new password is in ChangeCommit.                                    *)
(***************************************************************************)
ChangePassword(r) ==
  /\ request[r].at = "change"
  /\ Free(r, "credential")
  /\ request' = [request EXCEPT ![r].at = "revoke", ![r].left = Others(r)]
  /\ UNCHANGED <<now, rows>>

(* A session that is still live when its row is free will be revoked. *)
Revoke(r) ==
  /\ request[r].at = "revoke"
  /\ \E s \in request[r].left :
       /\ Free(r, s)
       /\ request' = [request EXCEPT ![r].left = @ \ {s},
                                     ![r].taken = @ \cup ({s} \cap Live)]
  /\ UNCHANGED <<now, rows>>

RevokedAll(r, op) ==
  request[r].at = "revoke" /\ request[r].left = {} /\ request[r].op = op

(* The calling session is replaced by a fresh one. *)
Rotate(r, assured) ==
  \E s \in Session :
    /\ session[s] = Absent
    /\ session' = [Revoked(request[r].taken \cup {request[r].session})
                     EXCEPT ![s] = Opened(assured)]

ChangeCommit(r) ==
  /\ RevokedAll(r, "change_password")
  /\ \E p \in Password :
       credential' = [credential EXCEPT !.password = p, !.stale = FALSE]
  /\ Rotate(r, FALSE)
  /\ End(r)
  /\ UNCHANGED <<now, factor, codes>>

-----------------------------------------------------------------------------
(* Enrolment of a second factor *)

(* enroll_mfa reads the factor without a lock, and refuses a confirmed one. *)
EnrollRead(r) ==
  /\ request[r].at = "enroll"
  /\ request' = [request EXCEPT ![r] =
       IF factor.confirmed THEN Idle ELSE [@ EXCEPT !.at = "seed", !.row = factor]]
  /\ UNCHANGED <<now, rows>>

(* The unique user_id refuses a second INSERT. *)
EnrollInsert(r) ==
  /\ request[r].at = "seed" /\ ~request[r].row.exists
  /\ \/ /\ ~factor.exists
        /\ \E k \in Seed : factor' = [NoFactor EXCEPT !.exists = TRUE, !.seed = k]
     \/ factor.exists /\ UNCHANGED factor
  /\ End(r)
  /\ UNCHANGED <<now, credential, session, codes>>

(* The UPDATE names the columns that differ from what was read. *)
EnrollUpdate(r) ==
  LET row == request[r].row
  IN  /\ request[r].at = "seed" /\ row.exists
      /\ Free(r, "factor")
      /\ \E k \in Seed \ {factor.seed} :
           factor' = [factor EXCEPT
             !.seed = k,
             !.last = IF row.last # NoStep THEN NoStep ELSE @,
             !.failures = IF row.failures # 0 THEN 0 ELSE @]
      /\ End(r)
      /\ UNCHANGED <<now, credential, session, codes>>

-----------------------------------------------------------------------------
(* Codes *)

Usable_Locked(q) ==
  factor.seed # NoSeed /\ (factor.confirmed <=> q.op # "confirm")

(* Whether the factor can be confirmed, or verified or disabled, now. *)
Usable(q) ==
  /\ factor.seed # NoSeed
  /\ factor.confirmed <=> q.op # "confirm"
  /\ factor.lockedUntil <= q.began

LockFactor_Unlocked(r) ==
  /\ request[r].at = "factor"
  /\ request' = [request EXCEPT ![r] =
       IF Usable(@) THEN [@ EXCEPT !.at = IF request[r].op = "disable" THEN "password"
                                                                ELSE "spend",
                                   !.row = factor]
                    ELSE Idle]
  /\ UNCHANGED <<now, rows>>

LockFactor_Waits(r) ==
  /\ request[r].at = "factor"
  /\ Free(r, "factor") /\ Usable(request[r])
  /\ request' = [request EXCEPT ![r].at = IF request[r].op = "disable" THEN "password"
                                                                     ELSE "spend",
                                ![r].row = factor]
  /\ UNCHANGED <<now, rows>>

(* mfa_for_update: the row is locked, read, and checked. *)
LockFactor(r) ==
  /\ request[r].at = "factor"
  /\ Free(r, "factor")
  /\ request' = [request EXCEPT ![r] =
       IF Usable(@) THEN [@ EXCEPT !.at = IF request[r].op = "disable" THEN "password"
                                                                ELSE "spend",
                                   !.row = factor]
                    ELSE Idle]
  /\ UNCHANGED <<now, rows>>

Least(a, b) == IF a <= b THEN a ELSE b

CountMiss_PastThreshold(row, began) ==
  IF row.failures < MfaThreshold
    THEN [row EXCEPT !.failures = @ + 1]
    ELSE [row EXCEPT !.failures = 0, !.lockedUntil = began + row.penalty]

(***************************************************************************)
(* A lockout is twice as long as the one before it, up to the cap.         *)
(***************************************************************************)
CountMiss(row, began) ==
  IF row.failures + 1 < MfaThreshold
    THEN [row EXCEPT !.failures = @ + 1]
    ELSE [row EXCEPT !.failures = 0, !.lockedUntil = began + row.penalty,
                     !.penalty = Least(2 * row.penalty, MfaLockoutCap)]

(* _record_mfa_failure commits before the caller raises. *)
RejectCode(r) ==
  /\ request[r].at = "spend"
  /\ factor' = CountMiss(request[r].row, request[r].began)
  /\ End(r)
  /\ UNCHANGED <<now, credential, session, codes>>

Cleared(row) ==
  [row EXCEPT !.failures = 0, !.penalty = MfaLockoutBase, !.lockedUntil = NoTime]

(***************************************************************************)
(* A code of the seed for the step of the request's time or one beside it. *)
(* A step not after the last one is refused, except by confirm_mfa.        *)
(***************************************************************************)
AcceptStep(r) ==
  /\ request[r].at = "spend"
  /\ \E step \in (request[r].began - 1) .. (request[r].began + 1) :
       /\ request[r].op # "confirm" => step > request[r].row.last
       /\ request' = [request EXCEPT ![r].at = "granted",
                                     ![r].row = [Cleared(@) EXCEPT !.last = step]]
  /\ UNCHANGED <<now, rows>>

(* consume_recovery_code updates the row of a code that is live. *)
AcceptRecoveryCode(r) ==
  /\ request[r].at = "spend" /\ request[r].op # "confirm"
  /\ \E c \in codes :
       request' = [request EXCEPT ![r].at = "granted",
                                  ![r].row = Cleared(@), ![r].burn = {c}]
  /\ UNCHANGED <<now, rows>>

Stampable_Always(r) == TRUE

(***************************************************************************)
(* stamp_session_assurance writes on a session that is not revoked.  If it *)
(* is, SessionRevokedError rolls everything back.                          *)
(***************************************************************************)
Stampable(r) == request[r].session \in Live

StepUp(r) ==
  /\ request[r].at = "granted" /\ request[r].op = "verify" /\ ~request[r].pending
  /\ \/ /\ Stampable(r)
        /\ session' = [session EXCEPT ![request[r].session].assured = TRUE]
        /\ factor' = request[r].row
        /\ codes' = codes \ request[r].burn
     \/ ~Stampable(r) /\ UNCHANGED <<session, factor, codes>>
  /\ End(r)
  /\ UNCHANGED <<now, credential>>

(* A pending session is replaced by an assured one. *)
CompleteLogin(r) ==
  /\ request[r].at = "granted" /\ request[r].op = "verify" /\ request[r].pending
  /\ Rotate(r, TRUE)
  /\ factor' = request[r].row
  /\ codes' = codes \ request[r].burn
  /\ End(r)
  /\ UNCHANGED <<now, credential>>

ConfirmStamp(r) ==
  /\ request[r].at = "granted" /\ request[r].op = "confirm"
  /\ request' = [request EXCEPT ![r] =
       IF Stampable(r)
         THEN [@ EXCEPT !.at = "revoke", !.row.confirmed = TRUE, !.left = Others(r)]
         ELSE Idle]
  /\ UNCHANGED <<now, rows>>

ConfirmCommit(r) ==
  /\ RevokedAll(r, "confirm")
  /\ session' = [Revoked(request[r].taken) EXCEPT ![request[r].session].assured = TRUE]
  /\ factor' = request[r].row
  /\ \E c \in CodeSet \ codes : codes' = {c}
  /\ End(r)
  /\ UNCHANGED <<now, credential>>

DisableBurn_KeepsSessions(r) ==
  /\ request[r].at = "granted" /\ request[r].op = "disable"
  /\ request' = [request EXCEPT ![r].at = "revoke",
                                ![r].burn = @ \cup codes,
                                ![r].row = [@ EXCEPT !.seed = NoSeed, !.confirmed = FALSE,
                                                     !.last = NoStep]]
  /\ UNCHANGED <<now, rows>>

(* The seed and the confirmation are erased and the live codes burned. *)
DisableBurn(r) ==
  /\ request[r].at = "granted" /\ request[r].op = "disable"
  /\ request' = [request EXCEPT ![r].at = "revoke", ![r].left = Others(r),
                                ![r].burn = @ \cup codes,
                                ![r].row = [@ EXCEPT !.seed = NoSeed, !.confirmed = FALSE,
                                                     !.last = NoStep]]
  /\ UNCHANGED <<now, rows>>

DisableCommit(r) ==
  /\ RevokedAll(r, "disable")
  /\ Rotate(r, FALSE)
  /\ factor' = request[r].row
  /\ codes' = codes \ request[r].burn
  /\ End(r)
  /\ UNCHANGED <<now, credential>>

(***************************************************************************)
(* The factor is read without a lock; the UPDATE that burns the codes sees *)
(* those that are live now.                                                *)
(***************************************************************************)
Regenerate(r) ==
  /\ request[r].at = "codes"
  /\ request' = [request EXCEPT ![r] =
       IF factor.confirmed THEN [@ EXCEPT !.at = "mint", !.burn = codes] ELSE Idle]
  /\ UNCHANGED <<now, rows>>

RegenerateCommit(r) ==
  /\ request[r].at = "mint"
  /\ \A c \in request[r].burn : Free(r, c)
  /\ \E c \in CodeSet \ codes : codes' = (codes \ request[r].burn) \cup {c}
  /\ End(r)
  /\ UNCHANGED <<now, credential, factor, session>>

-----------------------------------------------------------------------------
(* A deadlock aborts one transaction of the cycle. *)
Abort(r) ==
  /\ Deadlocked(r)
  /\ End(r)
  /\ UNCHANGED <<now, rows>>

(* The API process dies, or its connection; the transaction is rolled back. *)
Crash(r) ==
  /\ request[r].at # "idle"
  /\ End(r)
  /\ UNCHANGED <<now, rows>>

Tick ==
  /\ now < MaxNow
  /\ now' = now + 1
  /\ UNCHANGED <<rows, request>>

(***************************************************************************)
(* A user who has registered and logged in: without a second factor, or    *)
(* with one, confirmed, and every session assured.                         *)
(***************************************************************************)
Init ==
  /\ now = 1
  /\ credential \in [password : Password, stale : BOOLEAN,
                     failures : {0}, lockedUntil : {NoTime}]
  /\ request = [r \in Request |-> Idle]
  /\ \E live \in SUBSET Session, enrolled \in BOOLEAN :
       /\ session = [s \in Session |-> IF s \in live THEN Opened(enrolled) ELSE Absent]
       /\ IF enrolled
            THEN /\ \E k \in Seed : factor = [NoFactor EXCEPT
                      !.exists = TRUE, !.seed = k, !.confirmed = TRUE, !.last = 0]
                 /\ \E c \in CodeSet : codes = {c}
            ELSE factor = NoFactor /\ codes = {}

(* The next step of a request's handler. *)
Proceed(r) ==
  \/ LoginLoad(r) \/ LoginCount(r) \/ LoginAdmit(r)
  \/ ReadState(r) \/ Touch(r) \/ Logout(r) \/ CheckPassword(r)
  \/ ChangePassword(r) \/ Revoke(r) \/ ChangeCommit(r)
  \/ EnrollRead(r) \/ EnrollInsert(r) \/ EnrollUpdate(r)
  \/ LockFactor(r) \/ RejectCode(r) \/ AcceptStep(r) \/ AcceptRecoveryCode(r)
  \/ StepUp(r) \/ CompleteLogin(r) \/ ConfirmStamp(r) \/ ConfirmCommit(r)
  \/ DisableBurn(r) \/ DisableCommit(r)
  \/ Regenerate(r) \/ RegenerateCommit(r)

(* Nobody calls. *)
Quiet == Active = {} /\ UNCHANGED vars

Next ==
  \/ Tick \/ Quiet
  \/ \E r \in Request :
       \/ Login(r)
       \/ \E op \in Calls, s \in Session : Begin(r, op, s)
       \/ Refuse(r) \/ Proceed(r) \/ Abort(r) \/ Crash(r)

Spec == Init /\ [][Next]_vars

(***************************************************************************)
(* Handlers run on, and are refused where they do not pass.  A row is      *)
(* given to the requests that wait for it in turn, hence strong fairness.  *)
(***************************************************************************)
Fairness == \A r \in Request : SF_vars(Proceed(r) \/ Refuse(r)) /\ WF_vars(Abort(r))
FairSpec == Spec /\ Fairness
=============================================================================
