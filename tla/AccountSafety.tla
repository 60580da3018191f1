---------------------------- MODULE AccountSafety ----------------------------
(***************************************************************************)
(* The inductive invariant of Accounts and what follows from it.           *)
(*                                                                         *)
(* A step either moves one request on and leaves the rows alone, or        *)
(* commits one request.  What a move may do is said once, by Moves; the    *)
(* invariants are then shown of moves and of commits.  Last, a commit is   *)
(* shown to be a step of SecondFactor, or none.                            *)
(***************************************************************************)
EXTENDS AccountProofs

-----------------------------------------------------------------------------
(* The invariant *)

(* The places where a request holds its session row. *)
Before == {"idle", "hashing", "count", "admit", "state", "touch"}

HeldSessions(r) ==
  IF request[r].at \in Before THEN {} ELSE {request[r].session} \cup request[r].taken

(* What the place of a request says of its operation. *)
OpAtPlace ==
  \A r \in Request :
    /\ request[r].at = "change" => request[r].op = "change_password"
    /\ request[r].at = "password" =>
         request[r].op \in {"change_password", "enroll", "regenerate", "disable"}
    /\ request[r].at \in {"factor", "spend", "granted"} =>
         request[r].op \in {"confirm", "verify", "disable"}
    /\ request[r].at = "revoke" =>
         request[r].op \in {"change_password", "confirm", "disable"}

(* Nothing is written before a code is accepted or a row is revoked. *)
NothingWritten ==
  \A r \in Request :
    /\ request[r].at \in {"state", "touch"} => request[r].taken = {}
    /\ request[r].at \in {"state", "touch", "password", "factor", "spend"} =>
         request[r].burn = {}

(* Times of the past. *)
BeganBefore ==
  \A r \in Request : request[r].at # "idle" => request[r].began <= now

(* One request holds the factor; one request holds a session. *)
FactorAlone ==
  \A a, b \in Request : HoldsFactor(a) /\ HoldsFactor(b) => a = b

SessionsApart ==
  \A a, b \in Request : a # b => HeldSessions(a) \cap HeldSessions(b) = {}

(* A row that was read is still there. *)
FactorThere ==
  /\ ~factor.exists => factor = NoFactor
  /\ \A r \in Request :
       /\ HoldsFactor(r) => request[r].row.exists
       /\ HoldsFactor(r) \/ request[r].at = "seed" =>
            (request[r].row.exists => factor.exists)

(* What the holder of the factor knows of it. *)
HeldFactor ==
  \A r \in Request : HoldsFactor(r) =>
    /\ factor.lockedUntil <= request[r].began
    /\ request[r].at # "revoke" => (request[r].row.confirmed <=> request[r].op # "confirm")
    /\ request[r].at = "revoke" => (request[r].row.confirmed <=> request[r].op = "confirm")

(* A confirmation that stamped its session still has it. *)
StampedLives ==
  \A r \in Request :
    request[r].at = "revoke" /\ request[r].op = "confirm" => request[r].session \in Live

(* A request that disables the factor revokes whoever is assured. *)
AssuredWillGo ==
  \A r \in Request : request[r].at = "revoke" /\ request[r].op = "disable" =>
    \A s \in Live : session[s].assured =>
      s \in request[r].left \cup request[r].taken \cup {request[r].session}

BurnsLive ==
  \A r \in Request : request[r].at = "granted" => request[r].burn \subseteq codes

(* A session is revoked by an operation that revokes, and not before. *)
TakenLast ==
  \A r \in Request :
    request[r].at \notin {"idle", "hashing", "count", "admit", "revoke"} =>
      request[r].taken = {}

BeganSince == \A r \in Request : request[r].at # "idle" => request[r].began >= 1

(* The next lockout is neither too short nor too long. *)
PenaltyBounded == factor.penalty \in MfaLockoutBase .. MfaLockoutCap

(* A factor that is not confirmed, or was not when it was read, has no step. *)
UnconfirmedUnused ==
  /\ factor.confirmed = FALSE => factor.last = NoStep
  /\ \A r \in Request : request[r].at = "seed" => request[r].row.last = NoStep

Window(r) == (request[r].began - 1) .. (request[r].began + 1)

(***************************************************************************)
(* What a request that was granted has earned: its row is what the factor  *)
(* becomes by a code that no request has used, and that none uses now.     *)
(***************************************************************************)
CouldAsk(r) == factor.seed # NoSeed /\ (factor.confirmed <=> request[r].op # "confirm")

GrantedRow(r) ==
  \/ /\ request[r].burn = {}
     /\ \E step \in Window(r) :
          /\ step > factor.last
          /\ request[r].row = [Cleared(factor) EXCEPT !.last = step]
  \/ /\ request[r].op # "confirm"
     /\ \E c \in codes : request[r].burn = {c} /\ request[r].row = Cleared(factor)

ConfirmedRow(r) ==
  /\ \E step \in Window(r) :
       /\ step > factor.last
       /\ request[r].row = [Cleared(factor) EXCEPT !.last = step, !.confirmed = TRUE]
  /\ request[r].session \notin request[r].left \cup request[r].taken

Erased(row) == [row EXCEPT !.seed = NoSeed, !.confirmed = FALSE, !.last = NoStep]

ErasedRow(r) ==
  /\ request[r].row = Erased(Cleared(factor))
  /\ \/ \E step \in Window(r) : step > factor.last
     \/ request[r].burn \cap codes # {}

Earned(r) ==
  /\ HoldsFactor(r) => CouldAsk(r)
  /\ request[r].at = "granted" => GrantedRow(r)
  /\ request[r].at = "revoke" /\ request[r].op = "confirm" => ConfirmedRow(r)
  /\ request[r].at = "revoke" /\ request[r].op = "disable" => ErasedRow(r)

EarnedInv ==
  /\ TakenLast /\ BeganSince /\ PenaltyBounded /\ UnconfirmedUnused
  /\ \A r \in Request : Earned(r)

AccountInv ==
  /\ TypeOK /\ OpAtPlace /\ NothingWritten /\ BeganBefore
  /\ FactorAlone /\ SessionsApart /\ FactorThere /\ FactorCurrent /\ HeldFactor
  /\ StampedLives /\ AssuredWillGo /\ AssuranceNeedsFactor /\ BurnsLive

-----------------------------------------------------------------------------
(* What a step does to requests *)

Keeps(r) == /\ request'[r].op = request[r].op
            /\ request'[r].session = request[r].session
            /\ request'[r].began = request[r].began

KeepsRow(r) == /\ request'[r].row.exists = request[r].row.exists
               /\ request'[r].row.confirmed = request[r].row.confirmed

KeepsSets(r) == /\ request'[r].burn = request[r].burn
                /\ request'[r].left = request[r].left
                /\ request'[r].taken = request[r].taken

Arrives(r) ==
  \/ /\ request'[r].at = "idle"
  \/ /\ request[r].at \in {"idle", "hashing"}
     /\ request'[r].at \in {"hashing", "count", "admit"}
     /\ request'[r].began \in {now, request[r].began}
     /\ request[r].at = "idle" => request'[r].began = now
  \/ /\ request[r].at = "idle" /\ request'[r].at = "state"
     /\ request'[r].began = now
     /\ request'[r].burn = {} /\ request'[r].taken = {}

Passes(r) ==
  /\ Keeps(r) /\ KeepsSets(r) /\ request'[r].row = request[r].row
  /\ \/ request[r].at = "state" /\ request'[r].at = "touch"
     \/ /\ request[r].at = "touch" /\ request'[r].at = Resolved(request[r].op)
        /\ Free(r, request[r].session)
     \/ request[r].at = "password" /\ request'[r].at = Authenticated(request[r].op)

Revokes(r) ==
  /\ Keeps(r) /\ request'[r].row = request[r].row /\ request'[r].burn = request[r].burn
  /\ \/ /\ request[r].at = "change" /\ request'[r].at = "revoke"
        /\ request'[r].taken = request[r].taken
     \/ /\ request[r].at = "revoke" /\ request'[r].at = "revoke"
        /\ \E s \in request[r].left :
             /\ Free(r, s)
             /\ request'[r].left = request[r].left \ {s}
             /\ request'[r].taken = request[r].taken \cup ({s} \cap Live)

Reads(r) ==
  /\ Keeps(r)
  /\ request'[r].taken = request[r].taken
  /\ \/ /\ request[r].at = "enroll" /\ request'[r].at = "seed"
        /\ ~factor.confirmed /\ request'[r].row = factor
     \/ request[r].at = "codes" /\ request'[r].at = "mint"
     \/ /\ request[r].at = "factor" /\ Free(r, "factor") /\ Usable(request[r])
        /\ request'[r].at = IF request[r].op = "disable" THEN "password" ELSE "spend"
        /\ request'[r].row = factor /\ request'[r].burn = request[r].burn

(* What a grant writes to its row, and which codes it burns. *)
Writes(r) ==
  \/ /\ request[r].at = "spend" /\ request'[r].burn = request[r].burn
     /\ \E step \in Window(r) :
          /\ request[r].op # "confirm" => step > request[r].row.last
          /\ request'[r].row = [Cleared(request[r].row) EXCEPT !.last = step]
  \/ /\ request[r].at = "spend" /\ request[r].op # "confirm"
     /\ \E c \in codes : /\ request'[r].burn = {c}
                         /\ request'[r].row = Cleared(request[r].row)
  \/ /\ request[r].at = "granted" /\ request[r].op = "confirm"
     /\ request'[r].row = [request[r].row EXCEPT !.confirmed = TRUE]
     /\ request'[r].left = Others(r)
  \/ /\ request[r].at = "granted" /\ request[r].op = "disable"
     /\ request'[r].row = Erased(request[r].row)
     /\ request'[r].burn = request[r].burn \cup codes

Grants(r) ==
  /\ Writes(r)
  /\ Keeps(r) /\ request'[r].taken = request[r].taken
  /\ request'[r].row.exists = request[r].row.exists
  /\ \/ /\ request[r].at = "spend" /\ request'[r].at = "granted"
        /\ request'[r].row.confirmed = request[r].row.confirmed
        /\ request'[r].burn \subseteq request[r].burn \cup codes
     \/ /\ request[r].at = "granted" /\ request'[r].at = "revoke"
        /\ request[r].op = "confirm" /\ Stampable(r)
        /\ request'[r].row.confirmed = TRUE
     \/ /\ request[r].at = "granted" /\ request'[r].at = "revoke"
        /\ request[r].op = "disable" /\ request'[r].left = Others(r)
        /\ request'[r].row.confirmed = FALSE

Moves(r) == Arrives(r) \/ Passes(r) \/ Revokes(r) \/ Reads(r) \/ Grants(r)

Alone(r) == /\ now' = now
            /\ \A other \in Request \ {r} : request'[other] = request[other]

Commits(r) ==
  /\ request'[r] = Idle
  /\ \/ LoginCount(r) \/ LoginAdmit(r) \/ Logout(r) \/ ChangeCommit(r)
     \/ EnrollInsert(r) \/ EnrollUpdate(r) \/ RejectCode(r)
     \/ StepUp(r) \/ CompleteLogin(r) \/ ConfirmCommit(r) \/ DisableCommit(r)
     \/ RegenerateCommit(r)

LEMMA EndMoves ==
  ASSUME TypeOK, NEW r \in Request, End(r)
  PROVE  /\ request'[r] = Idle /\ Arrives(r)
         /\ \A other \in Request \ {r} : request'[other] = request[other]
BY TypeParts DEF End, Arrives, Idle

LEMMA SetMoves ==
  ASSUME TypeOK, NEW r \in Request, NEW q, request' = [request EXCEPT ![r] = q]
  PROVE  /\ request'[r] = q
         /\ \A other \in Request \ {r} : request'[other] = request[other]
BY TypeParts

LEMMA SetAlone ==
  ASSUME TypeOK, NEW r \in Request, NEW q, request' = [request EXCEPT ![r] = q], now' = now
  PROVE  request'[r] = q /\ Alone(r)
BY SetMoves DEF Alone

LEMMA LoginMoves ==
  ASSUME TypeOK, NEW r \in Request, Login(r) \/ LoginLoad(r)
  PROVE  Moves(r) /\ Alone(r) /\ UNCHANGED rows
<1>1. CASE Login(r)
  <2>. PICK right \in BOOLEAN :
         request' = [request EXCEPT ![r] =
           [at |-> "hashing", right |-> right, began |-> now,
            password |-> credential.password, stale |-> credential.stale]]
    BY <1>1 DEF Login
  <2>. DEFINE q == [at |-> "hashing", right |-> right, began |-> now,
                    password |-> credential.password, stale |-> credential.stale]
  <2>0. request' = [request EXCEPT ![r] = q] /\ now' = now
    BY <1>1, Zenon DEF Login
  <2>2. q.at = "hashing" /\ q.began = now
    OBVIOUS
  <2>. HIDE DEF q
  <2>1. request'[r] = q /\ Alone(r)
    BY <2>0, SetMoves DEF Alone
  <2>. QED  BY <1>1, <2>1, <2>2 DEF Login, Moves, Arrives
<1>2. CASE LoginLoad(r)
  <2>. DEFINE q == [at |-> IF request[r].right THEN "admit" ELSE "count",
                    began |-> request[r].began,
                    password |-> request[r].password, stale |-> request[r].stale,
                    loaded |-> [failures |-> credential.failures,
                                lockedUntil |-> credential.lockedUntil]]
  <2>1. request' = [request EXCEPT ![r] = q]
    BY <1>2, Zenon DEF LoginLoad
  <2>2. q.at \in {"count", "admit"} /\ q.began = request[r].began
    OBVIOUS
  <2>3u. now' = now
    BY <1>2, Zenon DEF LoginLoad
  <2>. HIDE DEF q
  <2>3. request'[r] = q /\ Alone(r)
    BY <2>1, <2>3u, SetAlone, Zenon
  <2>. QED  BY <1>2, <2>2, <2>3 DEF LoginLoad, Moves, Arrives
<1>. QED  BY <1>1, <1>2

LEMMA PassMoves ==
  ASSUME TypeOK, NEW r \in Request,
         \/ \E op \in Calls, s \in Session : Begin(r, op, s)
         \/ ReadState(r) \/ Touch(r) \/ CheckPassword(r)
  PROVE  Moves(r) /\ Alone(r) /\ UNCHANGED rows
<1>1. ASSUME NEW op \in Calls, NEW s \in Session, Begin(r, op, s)
      PROVE  Moves(r) /\ Alone(r) /\ UNCHANGED rows
  <2>1. request'[r] = Started(op, s) /\ Alone(r)
    BY <1>1, SetMoves DEF Begin, Alone
  <2>. QED  BY <1>1, <2>1 DEF Begin, Started, Moves, Arrives
<1>2. CASE ReadState(r)
  <2>. DEFINE pending == /\ request[r].op = "verify" /\ factor.confirmed
                         /\ ~session[request[r].session].assured
              q == [request[r] EXCEPT !.at = "touch", !.pending = pending]
  <2>1. request[r] \in OnSession
    BY <1>2, OnSessionType DEF ReadState, OnSessionPlace
  <2>2. request' = [request EXCEPT ![r] = q]
    BY <1>2, Zenon DEF ReadState
  <2>3u. now' = now
    BY <1>2 DEF ReadState
  <2>3. request'[r] = q /\ Alone(r)
    BY <2>2, <2>3u, SetAlone, Zenon
  <2>4. /\ q.at = "touch" /\ q.op = request[r].op /\ q.session = request[r].session
        /\ q.began = request[r].began /\ q.row = request[r].row
        /\ q.burn = request[r].burn /\ q.left = request[r].left
        /\ q.taken = request[r].taken
    BY <2>1 DEF OnSession
  <2>. HIDE DEF q
  <2>. QED  BY <1>2, <2>3, <2>4 DEF ReadState, Moves, Passes, Keeps, KeepsSets
<1>3. ASSUME NEW place, Goto(r, place), request[r].at \in OnSessionPlace, now' = now
      PROVE  /\ Keeps(r) /\ KeepsSets(r) /\ request'[r].row = request[r].row
             /\ request'[r].at = place /\ Alone(r)
  <2>. DEFINE q == [request[r] EXCEPT !.at = place]
  <2>1. request[r] \in OnSession
    BY <1>3, OnSessionType
  <2>2. request' = [request EXCEPT ![r] = q]
    BY <1>3, Zenon DEF Goto
  <2>3. request'[r] = q /\ Alone(r)
    BY <1>3, <2>2, SetMoves DEF Alone
  <2>4. /\ q.at = place /\ q.op = request[r].op /\ q.session = request[r].session
        /\ q.began = request[r].began /\ q.row = request[r].row
        /\ q.burn = request[r].burn /\ q.left = request[r].left
        /\ q.taken = request[r].taken
    BY <2>1 DEF OnSession
  <2>. HIDE DEF q
  <2>. QED  BY <2>3, <2>4 DEF Keeps, KeepsSets
<1>4. CASE Touch(r)
  BY <1>3, <1>4 DEF Touch, OnSessionPlace, Moves, Passes
<1>5. CASE CheckPassword(r)
  BY <1>3, <1>5 DEF CheckPassword, OnSessionPlace, Moves, Passes
<1>. QED  BY <1>1, <1>2, <1>4, <1>5
LEMMA RevokeMoves ==
  ASSUME TypeOK, NEW r \in Request, ChangePassword(r) \/ Revoke(r)
  PROVE  Moves(r) /\ Alone(r) /\ UNCHANGED rows
<1>0. request[r] \in OnSession
  BY OnSessionType DEF ChangePassword, Revoke, OnSessionPlace
<1>1. CASE ChangePassword(r)
  <2>. DEFINE q == [request[r] EXCEPT !.at = "revoke", !.left = Others(r)]
  <2>1. request' = [request EXCEPT ![r] = q]
    BY <1>1, Zenon DEF ChangePassword
  <2>2u. now' = now
    BY <1>1 DEF ChangePassword
  <2>2. request'[r] = q /\ Alone(r)
    BY <2>1, <2>2u, SetAlone, Zenon
  <2>3. /\ q.at = "revoke" /\ q.op = request[r].op /\ q.session = request[r].session
        /\ q.began = request[r].began /\ q.row = request[r].row
        /\ q.burn = request[r].burn /\ q.taken = request[r].taken
    BY <1>0 DEF OnSession
  <2>. HIDE DEF q
  <2>. QED  BY <1>1, <2>2, <2>3 DEF ChangePassword, Moves, Revokes, Keeps
<1>2. CASE Revoke(r)
  <2>. PICK s \in request[r].left :
         /\ Free(r, s)
         /\ request' = [request EXCEPT ![r].left = @ \ {s},
                                       ![r].taken = @ \cup ({s} \cap Live)]
    BY <1>2 DEF Revoke
  <2>. DEFINE q == [request[r] EXCEPT !.left = @ \ {s}, !.taken = @ \cup ({s} \cap Live)]
  <2>1. request' = [request EXCEPT ![r] = q]
    BY Zenon
  <2>2u. now' = now
    BY <1>2 DEF Revoke
  <2>2. request'[r] = q /\ Alone(r)
    BY <2>1, <2>2u, SetAlone, Zenon
  <2>3. /\ q.at = request[r].at /\ q.op = request[r].op
        /\ q.session = request[r].session /\ q.began = request[r].began
        /\ q.row = request[r].row /\ q.burn = request[r].burn
        /\ q.left = request[r].left \ {s}
        /\ q.taken = request[r].taken \cup ({s} \cap Live)
    BY <1>0 DEF OnSession
  <2>. HIDE DEF q
  <2>. QED  BY <1>2, <2>2, <2>3 DEF Revoke, Moves, Revokes, Keeps
<1>. QED  BY <1>1, <1>2

LEMMA ReadMoves ==
  ASSUME TypeOK, NEW r \in Request, EnrollRead(r) \/ LockFactor(r) \/ Regenerate(r)
  PROVE  Moves(r) /\ Alone(r) /\ UNCHANGED rows
<1>0. request[r] \in OnSession
  BY OnSessionType DEF EnrollRead, LockFactor, Regenerate, OnSessionPlace
<1>1. CASE request' = [request EXCEPT ![r] = Idle]
  <2>1. Arrives(r) /\ \A other \in Request \ {r} : request'[other] = request[other]
    BY <1>1, EndMoves DEF End
  <2>. QED  BY <2>1 DEF EnrollRead, LockFactor, Regenerate, Alone, Moves
<1>2. CASE EnrollRead(r) /\ ~factor.confirmed
  <2>. DEFINE q == [request[r] EXCEPT !.at = "seed", !.row = factor]
  <2>1. request' = [request EXCEPT ![r] = q]
    BY <1>2, Zenon DEF EnrollRead
  <2>2u. now' = now
    BY <1>2 DEF EnrollRead
  <2>2. request'[r] = q /\ Alone(r)
    BY <2>1, <2>2u, SetAlone, Zenon
  <2>3. /\ q.at = "seed" /\ q.op = request[r].op /\ q.session = request[r].session
        /\ q.began = request[r].began /\ q.row = factor /\ q.taken = request[r].taken
    BY <1>0 DEF OnSession
  <2>. HIDE DEF q
  <2>. QED  BY <1>2, <2>2, <2>3 DEF EnrollRead, Moves, Reads, Keeps
<1>3. CASE LockFactor(r) /\ Usable(request[r])
  <2>. DEFINE at == IF request[r].op = "disable" THEN "password" ELSE "spend"
              q == [request[r] EXCEPT !.at = at, !.row = factor]
  <2>1. request' = [request EXCEPT ![r] = q]
    BY <1>3, Zenon DEF LockFactor
  <2>2u. now' = now
    BY <1>3 DEF LockFactor
  <2>2. request'[r] = q /\ Alone(r)
    BY <2>1, <2>2u, SetAlone, Zenon
  <2>3. /\ q.at = at /\ q.op = request[r].op /\ q.session = request[r].session
        /\ q.began = request[r].began /\ q.row = factor
        /\ q.burn = request[r].burn /\ q.taken = request[r].taken
    BY <1>0 DEF OnSession
  <2>. HIDE DEF q
  <2>. QED  BY <1>3, <2>2, <2>3 DEF LockFactor, Moves, Reads, Keeps
<1>4. CASE Regenerate(r) /\ factor.confirmed
  <2>. DEFINE q == [request[r] EXCEPT !.at = "mint", !.burn = codes]
  <2>1. request' = [request EXCEPT ![r] = q]
    BY <1>4, Zenon DEF Regenerate
  <2>2u. now' = now
    BY <1>4 DEF Regenerate
  <2>2. request'[r] = q /\ Alone(r)
    BY <2>1, <2>2u, SetAlone, Zenon
  <2>3. /\ q.at = "mint" /\ q.op = request[r].op /\ q.session = request[r].session
        /\ q.began = request[r].began /\ q.taken = request[r].taken
    BY <1>0 DEF OnSession
  <2>. HIDE DEF q
  <2>. QED  BY <1>4, <2>2, <2>3 DEF Regenerate, Moves, Reads, Keeps
<1>. QED  BY <1>1, <1>2, <1>3, <1>4 DEF EnrollRead, LockFactor, Regenerate

LEMMA GrantMoves ==
  ASSUME TypeOK, NEW r \in Request,
         AcceptStep(r) \/ AcceptRecoveryCode(r) \/ ConfirmStamp(r) \/ DisableBurn(r)
  PROVE  Moves(r) /\ Alone(r) /\ UNCHANGED rows
<1>0. request[r] \in OnSession /\ request[r].row \in Factor
  BY OnSessionType, OnSessionFields
     DEF AcceptStep, AcceptRecoveryCode, ConfirmStamp, DisableBurn, OnSessionPlace
<1>1. CASE AcceptStep(r)
  <2>. PICK step \in (request[r].began - 1) .. (request[r].began + 1) :
         /\ request[r].op # "confirm" => step > request[r].row.last
         /\ request' = [request EXCEPT ![r].at = "granted",
                                       ![r].row = [Cleared(@) EXCEPT !.last = step]]
    BY <1>1 DEF AcceptStep
  <2>. DEFINE row == [Cleared(request[r].row) EXCEPT !.last = step]
              q == [request[r] EXCEPT !.at = "granted", !.row = row]
  <2>1. request' = [request EXCEPT ![r] = q]
    BY Zenon
  <2>2u. now' = now
    BY <1>1 DEF AcceptStep
  <2>2. request'[r] = q /\ Alone(r)
    BY <2>1, <2>2u, SetAlone, Zenon
  <2>3. row.exists = request[r].row.exists /\ row.confirmed = request[r].row.confirmed
    BY <1>0 DEF Cleared, Factor
  <2>4. /\ q.at = "granted" /\ q.op = request[r].op /\ q.session = request[r].session
        /\ q.began = request[r].began /\ q.row = row
        /\ q.burn = request[r].burn /\ q.taken = request[r].taken
    <3>. HIDE DEF row
    <3>. QED  BY <1>0 DEF OnSession
  <2>5. request[r].op # "confirm" => step > request[r].row.last
    BY Zenon
  <2>6. Writes(r)
    <3>. HIDE DEF q
    <3>. QED  BY <1>1, <2>2, <2>4, <2>5 DEF AcceptStep, Writes, Window
  <2>. HIDE DEF q, row
  <2>. QED  BY <1>1, <2>2, <2>3, <2>4, <2>6 DEF AcceptStep, Moves, Grants, Keeps
<1>2. CASE AcceptRecoveryCode(r)
  <2>. PICK c \in codes :
         request' = [request EXCEPT ![r].at = "granted",
                                    ![r].row = Cleared(@), ![r].burn = {c}]
    BY <1>2 DEF AcceptRecoveryCode
  <2>. DEFINE row == Cleared(request[r].row)
              q == [request[r] EXCEPT !.at = "granted", !.row = row, !.burn = {c}]
  <2>1. request' = [request EXCEPT ![r] = q]
    BY Zenon
  <2>2u. now' = now
    BY <1>2 DEF AcceptRecoveryCode
  <2>2. request'[r] = q /\ Alone(r)
    BY <2>1, <2>2u, SetAlone, Zenon
  <2>3. row.exists = request[r].row.exists /\ row.confirmed = request[r].row.confirmed
    BY <1>0 DEF Cleared, Factor
  <2>4. /\ q.at = "granted" /\ q.op = request[r].op /\ q.session = request[r].session
        /\ q.began = request[r].began /\ q.row = row
        /\ q.burn = {c} /\ q.taken = request[r].taken
    <3>. HIDE DEF row
    <3>. QED  BY <1>0 DEF OnSession
  <2>. HIDE DEF q
  <2>5. Writes(r)
    BY <1>2, <2>2, <2>4 DEF AcceptRecoveryCode, Writes
  <2>. HIDE DEF row
  <2>. QED  BY <1>2, <2>2, <2>3, <2>4, <2>5 DEF AcceptRecoveryCode, Moves, Grants, Keeps
<1>3. CASE ConfirmStamp(r) /\ Stampable(r)
  <2>. DEFINE row == [request[r].row EXCEPT !.confirmed = TRUE]
              q == [request[r] EXCEPT !.at = "revoke", !.row = row, !.left = Others(r)]
  <2>1. request' = [request EXCEPT ![r] = q]
    BY <1>3, Zenon DEF ConfirmStamp
  <2>2u. now' = now
    BY <1>3 DEF ConfirmStamp
  <2>2. request'[r] = q /\ Alone(r)
    BY <2>1, <2>2u, SetAlone, Zenon
  <2>3. row.exists = request[r].row.exists /\ row.confirmed = TRUE
    BY <1>0 DEF Factor
  <2>4. /\ q.at = "revoke" /\ q.op = request[r].op /\ q.session = request[r].session
        /\ q.began = request[r].began /\ q.row = row /\ q.left = Others(r)
        /\ q.taken = request[r].taken
    <3>. HIDE DEF row
    <3>. QED  BY <1>0 DEF OnSession
  <2>. HIDE DEF q
  <2>5. Writes(r)
    BY <1>3, <2>2, <2>4 DEF ConfirmStamp, Writes
  <2>. HIDE DEF row
  <2>. QED  BY <1>3, <2>2, <2>3, <2>4, <2>5 DEF ConfirmStamp, Moves, Grants, Keeps
<1>4. CASE ConfirmStamp(r) /\ ~Stampable(r)
  <2>1. Arrives(r) /\ \A other \in Request \ {r} : request'[other] = request[other]
    BY <1>4, EndMoves DEF ConfirmStamp, End
  <2>. QED  BY <1>4, <2>1 DEF ConfirmStamp, Alone, Moves
<1>5. CASE DisableBurn(r)
  <2>. DEFINE row == [request[r].row EXCEPT !.seed = NoSeed, !.confirmed = FALSE,
                                            !.last = NoStep]
              q == [request[r] EXCEPT !.at = "revoke", !.left = Others(r),
                                      !.burn = @ \cup codes, !.row = row]
  <2>1. request' = [request EXCEPT ![r] = q]
    BY <1>5, Zenon DEF DisableBurn
  <2>2u. now' = now
    BY <1>5 DEF DisableBurn
  <2>2. request'[r] = q /\ Alone(r)
    BY <2>1, <2>2u, SetAlone, Zenon
  <2>3. row.exists = request[r].row.exists /\ row.confirmed = FALSE
    BY <1>0 DEF Factor
  <2>4. /\ q.at = "revoke" /\ q.op = request[r].op /\ q.session = request[r].session
        /\ q.began = request[r].began /\ q.row = row /\ q.left = Others(r)
        /\ q.burn = request[r].burn \cup codes /\ q.taken = request[r].taken
    <3>. HIDE DEF row
    <3>. QED  BY <1>0 DEF OnSession
  <2>. HIDE DEF q
  <2>5. Writes(r)
    BY <1>5, <2>2, <2>4 DEF DisableBurn, Writes, Erased
  <2>. HIDE DEF row
  <2>. QED  BY <1>5, <2>2, <2>3, <2>4, <2>5 DEF DisableBurn, Moves, Grants, Keeps
<1>. QED  BY <1>1, <1>2, <1>3, <1>4, <1>5

(* Every step moves one request, or commits one, or ticks. *)
LEMMA NextStep ==
  ASSUME TypeOK, [Next]_vars
  PROVE  \/ UNCHANGED vars
         \/ Tick
         \/ \E r \in Request : Moves(r) /\ Alone(r) /\ UNCHANGED rows
         \/ \E r \in Request : Commits(r) /\ Alone(r)
<1>1. CASE Tick \/ Quiet \/ UNCHANGED vars
  BY <1>1 DEF Quiet
<1>2. ASSUME NEW r \in Request, Refuse(r) \/ Abort(r) \/ Crash(r)
      PROVE  Moves(r) /\ Alone(r) /\ UNCHANGED rows
  BY <1>2, EndMoves DEF Refuse, Abort, Crash, Moves, Alone
<1>3. ASSUME NEW r \in Request,
             \/ LoginCount(r) \/ LoginAdmit(r) \/ Logout(r) \/ ChangeCommit(r)
             \/ EnrollInsert(r) \/ EnrollUpdate(r) \/ RejectCode(r)
             \/ StepUp(r) \/ CompleteLogin(r) \/ ConfirmCommit(r) \/ DisableCommit(r)
             \/ RegenerateCommit(r)
      PROVE  Commits(r) /\ Alone(r)
  <2>1. End(r) /\ now' = now
    BY <1>3 DEF LoginCount, LoginAdmit, Logout, ChangeCommit, EnrollInsert,
       EnrollUpdate, RejectCode, StepUp, CompleteLogin, ConfirmCommit, DisableCommit,
       RegenerateCommit
  <2>. QED  BY <1>3, <2>1, EndMoves DEF Commits, Alone
<1>4. ASSUME NEW r \in Request,
             Login(r) \/ (\E op \in Calls, s \in Session : Begin(r, op, s)) \/ Proceed(r)
      PROVE  \/ Moves(r) /\ Alone(r) /\ UNCHANGED rows
             \/ Commits(r) /\ Alone(r)
  BY <1>3, <1>4, LoginMoves, PassMoves, RevokeMoves, ReadMoves, GrantMoves DEF Proceed
<1>. QED  BY <1>1, <1>2, <1>4 DEF Next
-----------------------------------------------------------------------------
(* Facts about locks *)

LEMMA FreeFactor ==
  ASSUME NEW r \in Request, Free(r, "factor")
  PROVE  \A other \in Request \ {r} : ~HoldsFactor(other)
BY DEF Free, Holds, HoldsFactor

LEMMA FreeSession ==
  ASSUME NEW r \in Request, NEW s, Free(r, s)
  PROVE  \A other \in Request \ {r} : s \notin HeldSessions(other)
BY DEF Free, Holds, HeldSessions, Before

(* What the operations of a place are. *)
LEMMA OpType ==
  ASSUME TypeOK, NEW r \in Request, request[r].at \in OnSessionPlace
  PROVE  /\ request[r].op \in Operation /\ request[r].session \in Session
         /\ request[r].began \in Nat /\ request[r].row \in Factor
         /\ request[r].burn \subseteq CodeSet /\ request[r].left \subseteq Session
         /\ request[r].taken \subseteq Session
BY OnSessionType, OnSessionFields

LEMMA OthersHold ==
  ASSUME NEW r \in Request, Alone(r), NEW other \in Request \ {r}
  PROVE  /\ HoldsFactor(other)' <=> HoldsFactor(other)
         /\ HeldSessions(other)' = HeldSessions(other)
BY DEF Alone, HoldsFactor, HeldSessions

(* Who holds the factor after a move held it before, or has just locked it. *)
LEMMA HolderMoves ==
  ASSUME TypeOK, OpAtPlace, NEW r \in Request, Moves(r), HoldsFactor(r)'
  PROVE  \/ HoldsFactor(r)
         \/ /\ request[r].at = "factor" /\ Free(r, "factor") /\ Usable(request[r])
            /\ request'[r].at \in {"password", "spend"}
            /\ request'[r].at = "password" <=> request[r].op = "disable"
            /\ Keeps(r) /\ request'[r].row = factor
<1>1. CASE Arrives(r)
  BY <1>1 DEF Arrives, HoldsFactor
<1>2. CASE Passes(r)
  <2>1. CASE request[r].at = "state"
    BY <1>2, <2>1 DEF Passes, HoldsFactor
  <2>2. CASE request[r].at = "touch"
    <3>1. request[r].op \in Operation
      BY <2>2, OpType DEF OnSessionPlace
    <3>. QED  BY <1>2, <2>2, <3>1 DEF Passes, HoldsFactor, Resolved, Operation, Keeps
  <2>3. CASE request[r].at = "password"
    BY <1>2, <2>3 DEF Passes, HoldsFactor, Authenticated, OpAtPlace, Keeps
  <2>. QED  BY <1>2, <2>1, <2>2, <2>3 DEF Passes
<1>3. CASE Revokes(r)
  BY <1>3 DEF Revokes, HoldsFactor, OpAtPlace, Keeps
<1>4. CASE Reads(r)
  BY <1>4 DEF Reads, HoldsFactor, Keeps
<1>5. CASE Grants(r)
  BY <1>5 DEF Grants, HoldsFactor, Keeps
<1>. QED  BY <1>1, <1>2, <1>3, <1>4, <1>5 DEF Moves

(* A commit lets everything go. *)
LEMMA CommitIdle ==
  ASSUME NEW r \in Request, Commits(r)
  PROVE  /\ request'[r].at = "idle" /\ ~HoldsFactor(r)' /\ HeldSessions(r)' = {}
BY DEF Commits, Idle, HoldsFactor, HeldSessions, Before

-----------------------------------------------------------------------------
(* The parts of the invariant that are about requests *)

LEMMA OpAtPlaceHolds ==
  ASSUME TypeOK, OpAtPlace, [Next]_vars
  PROVE  OpAtPlace'
<1>0. CASE UNCHANGED vars \/ Tick
  BY <1>0 DEF vars, Tick, OpAtPlace
<1>1. ASSUME NEW r \in Request, Moves(r), Alone(r) PROVE OpAtPlace'
  <2>1. CASE Arrives(r)
    BY <1>1, <2>1 DEF Arrives, Alone, OpAtPlace
  <2>2. CASE Passes(r)
    <3>1. request[r].at \in {"touch", "password"} => request[r].op \in Operation
      BY OpType DEF OnSessionPlace
    <3>. QED  BY <1>1, <2>2, <3>1
                 DEF Passes, Alone, OpAtPlace, Keeps, Resolved, Authenticated, Operation
  <2>3. CASE Revokes(r)
    BY <1>1, <2>3 DEF Revokes, Alone, OpAtPlace, Keeps
  <2>4. CASE Reads(r)
    BY <1>1, <2>4 DEF Reads, Alone, OpAtPlace, Keeps
  <2>5. CASE Grants(r)
    BY <1>1, <2>5 DEF Grants, Alone, OpAtPlace, Keeps
  <2>. QED  BY <1>1, <2>1, <2>2, <2>3, <2>4, <2>5 DEF Moves
<1>2. ASSUME NEW r \in Request, Commits(r), Alone(r) PROVE OpAtPlace'
  BY <1>2, CommitIdle DEF Alone, OpAtPlace
<1>. QED  BY <1>0, <1>1, <1>2, NextStep

LEMMA NothingWrittenHolds ==
  ASSUME TypeOK, OpAtPlace, NothingWritten, [Next]_vars
  PROVE  NothingWritten'
<1>0. CASE UNCHANGED vars \/ Tick
  BY <1>0 DEF vars, Tick, NothingWritten
<1>1. ASSUME NEW r \in Request, Moves(r), Alone(r) PROVE NothingWritten'
  <2>1. CASE Arrives(r)
    BY <1>1, <2>1 DEF Arrives, Alone, NothingWritten
  <2>2. CASE Passes(r)
    BY <1>1, <2>2
       DEF Passes, Alone, NothingWritten, KeepsSets, Resolved, Authenticated
  <2>3. CASE Revokes(r) \/ Grants(r)
    BY <1>1, <2>3 DEF Revokes, Grants, Alone, NothingWritten
  <2>4. CASE Reads(r)
    BY <1>1, <2>4 DEF Reads, Alone, NothingWritten
  <2>. QED  BY <1>1, <2>1, <2>2, <2>3, <2>4 DEF Moves
<1>2. ASSUME NEW r \in Request, Commits(r), Alone(r) PROVE NothingWritten'
  BY <1>2, CommitIdle DEF Alone, NothingWritten
<1>. QED  BY <1>0, <1>1, <1>2, NextStep

LEMMA BeganBeforeHolds ==
  ASSUME TypeOK, BeganBefore, [Next]_vars
  PROVE  BeganBefore'
<1>0. now \in Nat /\ \A r \in Request : request[r].at # "idle" => request[r].began \in Nat
  BY AccountsAssumption, TypeParts, LocalKind, OnSessionFields DEF Hashing, Verified
<1>1. CASE UNCHANGED vars
  BY <1>1 DEF vars, BeganBefore
<1>2. CASE Tick
  BY <1>0, <1>2 DEF Tick, BeganBefore
<1>3. ASSUME NEW r \in Request, Moves(r), Alone(r) PROVE BeganBefore'
  <2>1. request'[r].at # "idle" => request'[r].began <= now
    BY <1>0, <1>3 DEF Moves, Arrives, Passes, Revokes, Reads, Grants, Keeps, BeganBefore
  <2>. QED  BY <1>3, <2>1 DEF Alone, BeganBefore
<1>4. ASSUME NEW r \in Request, Commits(r), Alone(r) PROVE BeganBefore'
  BY <1>4, CommitIdle DEF Alone, BeganBefore
<1>. QED  BY <1>1, <1>2, <1>3, <1>4, NextStep

LEMMA FactorAloneHolds ==
  ASSUME TypeOK, OpAtPlace, FactorAlone, [Next]_vars
  PROVE  FactorAlone'
<1>0. CASE UNCHANGED vars \/ Tick
  BY <1>0 DEF vars, Tick, FactorAlone, HoldsFactor
<1>1. ASSUME NEW r \in Request, Moves(r), Alone(r) PROVE FactorAlone'
  <2>1. ASSUME HoldsFactor(r)', NEW other \in Request \ {r} PROVE ~HoldsFactor(other)
    BY <1>1, <2>1, HolderMoves, FreeFactor DEF FactorAlone
  <2>. QED  BY <1>1, <2>1, OthersHold DEF FactorAlone
<1>2. ASSUME NEW r \in Request, Commits(r), Alone(r) PROVE FactorAlone'
  BY <1>2, CommitIdle, OthersHold DEF FactorAlone
<1>. QED  BY <1>0, <1>1, <1>2, NextStep

LEMMA SessionsApartHolds ==
  ASSUME TypeOK, NothingWritten, SessionsApart, [Next]_vars
  PROVE  SessionsApart'
<1>0. CASE UNCHANGED vars \/ Tick
  BY <1>0 DEF vars, Tick, SessionsApart, HeldSessions
<1>1. ASSUME NEW r \in Request, Moves(r), Alone(r) PROVE SessionsApart'
  <2>1. ASSUME NEW s \in HeldSessions(r)'
        PROVE  s \in HeldSessions(r) \/ Free(r, s)
    <3>1. CASE Arrives(r)
      BY <2>1, <3>1 DEF Arrives, HeldSessions, Before
    <3>2. CASE Passes(r)
      BY <2>1, <3>2 DEF Passes, HeldSessions, Before, Keeps, KeepsSets, NothingWritten
    <3>3. CASE Revokes(r)
      BY <2>1, <3>3 DEF Revokes, HeldSessions, Before, Keeps
    <3>4. CASE Reads(r)
      BY <2>1, <3>4 DEF Reads, HeldSessions, Before, Keeps
    <3>5. CASE Grants(r)
      BY <2>1, <3>5 DEF Grants, HeldSessions, Before, Keeps
    <3>. QED  BY <1>1, <3>1, <3>2, <3>3, <3>4, <3>5 DEF Moves
  <2>2. \A other \in Request \ {r} : HeldSessions(r)' \cap HeldSessions(other) = {}
    BY <2>1, FreeSession DEF SessionsApart
  <2>. QED  BY <1>1, <2>2, OthersHold DEF SessionsApart
<1>2. ASSUME NEW r \in Request, Commits(r), Alone(r) PROVE SessionsApart'
  BY <1>2, CommitIdle, OthersHold DEF SessionsApart
<1>. QED  BY <1>0, <1>1, <1>2, NextStep
-----------------------------------------------------------------------------
(* What a commit does to the rows *)

LEMMA FactorCommits ==
  ASSUME TypeOK, NEW r \in Request, Commits(r)
  PROVE  \/ factor' = factor
         \/ /\ request[r].at = "spend" /\ HoldsFactor(r)
            /\ factor' = CountMiss(request[r].row, request[r].began)
         \/ /\ HoldsFactor(r) /\ factor' = request[r].row
            /\ \/ request[r].at = "granted" /\ request[r].op = "verify"
               \/ request[r].at = "revoke" /\ request[r].op = "confirm"
               \/ RevokedAll(r, "disable")
         \/ /\ ~factor.exists /\ factor'.exists
            /\ factor'.confirmed = FALSE /\ factor'.lockedUntil = NoTime
         \/ /\ request[r].at = "seed" /\ request[r].row.exists /\ Free(r, "factor")
            /\ factor'.exists = factor.exists /\ factor'.confirmed = factor.confirmed
            /\ factor'.lockedUntil = factor.lockedUntil
<1>1. CASE LoginCount(r) \/ LoginAdmit(r) \/ Logout(r) \/ ChangeCommit(r) \/ RegenerateCommit(r)
  BY <1>1 DEF LoginCount, LoginAdmit, Logout, ChangeCommit, RegenerateCommit
<1>2. CASE EnrollInsert(r)
  <2>1. ASSUME NEW k \in Seed, factor' = [NoFactor EXCEPT !.exists = TRUE, !.seed = k]
        PROVE  factor'.exists /\ factor'.confirmed = FALSE /\ factor'.lockedUntil = NoTime
    BY <2>1 DEF NoFactor
  <2>. QED  BY <1>2, <2>1 DEF EnrollInsert
<1>3. CASE EnrollUpdate(r)
  <2>1. PICK k \in Seed, last \in {NoStep, factor.last}, failures \in {0, factor.failures} :
          factor' = [factor EXCEPT !.seed = k, !.last = last, !.failures = failures]
    BY <1>3, Zenon DEF EnrollUpdate
  <2>2. factor \in Factor
    BY TypeParts
  <2>3. /\ factor'.exists = factor.exists /\ factor'.confirmed = factor.confirmed
        /\ factor'.lockedUntil = factor.lockedUntil
    BY <2>1, <2>2 DEF Factor
  <2>. QED  BY <1>3, <2>3 DEF EnrollUpdate
<1>4. CASE RejectCode(r)
  BY <1>4 DEF RejectCode, HoldsFactor
<1>5. CASE StepUp(r) \/ CompleteLogin(r)
  BY <1>5 DEF StepUp, CompleteLogin, HoldsFactor
<1>6. CASE ConfirmCommit(r) \/ DisableCommit(r)
  BY <1>6 DEF ConfirmCommit, DisableCommit, RevokedAll, HoldsFactor
<1>. QED  BY <1>1, <1>2, <1>3, <1>4, <1>5, <1>6 DEF Commits

LEMMA MissKeeps ==
  ASSUME NEW row \in Factor, NEW began \in Nat
  PROVE  /\ CountMiss(row, began).exists = row.exists
         /\ CountMiss(row, began).confirmed = row.confirmed
BY DEF CountMiss, Factor

(* While a request holds the factor, no other commit changes it. *)
LEMMA FactorSteady ==
  ASSUME TypeOK, FactorAlone, FactorThere,
         NEW r \in Request, Commits(r), NEW other \in Request \ {r}, HoldsFactor(other)
  PROVE  factor' = factor
BY FactorCommits, FreeFactor DEF FactorAlone, FactorThere

LEMMA RotateSession ==
  ASSUME TypeOK, NEW r \in Request, NEW assured \in BOOLEAN, Rotate(r, assured),
         request[r].at \notin Before, NEW s \in Session
  PROVE  /\ s \in Live /\ s \notin HeldSessions(r) => session'[s] = session[s]
         /\ session[s].status = "revoked" => session'[s] = session[s]
         /\ session'[s].status = "live" /\ session'[s].assured =>
              \/ assured
              \/ /\ session[s].status = "live" /\ session[s].assured
                 /\ s \notin HeldSessions(r)
<1>. PICK fresh \in Session :
       /\ session[fresh] = Absent
       /\ session' = [Revoked(request[r].taken \cup {request[r].session})
                        EXCEPT ![fresh] = Opened(assured)]
  BY DEF Rotate
<1>. DEFINE rotated == Revoked(request[r].taken \cup {request[r].session})
<1>0. HeldSessions(r) = request[r].taken \cup {request[r].session}
  BY DEF HeldSessions
<1>1. session \in [Session -> SessionRow] /\ rotated \in [Session -> SessionRow]
  BY SessionTypes, TypeParts
<1>2. CASE s = fresh
  <2>1. session'[s] = Opened(assured)
    BY <1>1, <1>2
  <2>. QED  BY <1>2, <2>1 DEF Absent, Opened, Live
<1>3. CASE s # fresh
  <2>1. session'[s] = rotated[s]
    BY <1>1, <1>3
  <2>2. /\ s \notin HeldSessions(r) \/ s \notin Live => rotated[s] = session[s]
        /\ s \in HeldSessions(r) /\ s \in Live => rotated[s].status = "revoked"
    BY <1>0, <1>1 DEF Revoked, SessionRow
  <2>. HIDE DEF rotated
  <2>. QED  BY <2>1, <2>2 DEF Live
<1>. QED  BY <1>2, <1>3

LEMMA SessionCommits ==
  ASSUME TypeOK, StampedLives, NEW r \in Request, Commits(r), NEW s \in Session
  PROVE  /\ s \in Live /\ s \notin HeldSessions(r) =>
              /\ session'[s].status = "live"
              /\ session'[s].assured => session[s].assured
         /\ session[s].status = "revoked" => session'[s] = session[s]
         /\ session'[s].status = "live" /\ session'[s].assured =>
              \/ /\ session[s].status = "live" /\ session[s].assured
                 /\ RevokedAll(r, "disable") => s \notin HeldSessions(r)
              \/ /\ request[r].at = "granted" /\ request[r].op = "verify"
                 /\ factor' = request[r].row
              \/ /\ request[r].at = "revoke" /\ request[r].op = "confirm"
                 /\ factor' = request[r].row
<1>0. session \in [Session -> SessionRow]
  BY TypeParts
<1>1. CASE UNCHANGED session /\ ~RevokedAll(r, "disable")
  BY <1>1 DEF Live
<1>2. CASE LoginCount(r) \/ EnrollInsert(r) \/ EnrollUpdate(r) \/ RejectCode(r)
           \/ RegenerateCommit(r)
  BY <1>1, <1>2 DEF LoginCount, EnrollInsert, EnrollUpdate, RejectCode, RegenerateCommit,
                    RevokedAll
<1>3. CASE LoginAdmit(r)
  <2>1. PICK fresh \in Session : /\ session[fresh] = Absent
                                 /\ session' = [session EXCEPT ![fresh] = Opened(FALSE)]
    BY <1>3 DEF LoginAdmit
  <2>2. ~RevokedAll(r, "disable")
    BY <1>3 DEF LoginAdmit, RevokedAll
  <2>. QED  BY <1>0, <2>1, <2>2 DEF Absent, Opened, Live
<1>4. CASE Logout(r)
  <2>1. s \notin {request[r].session} \/ s \notin Live => session'[s] = session[s]
    BY <1>4 DEF Logout, Revoked
  <2>2. s = request[r].session /\ s \in Live => session'[s].status = "revoked"
    BY <1>0, <1>4 DEF Logout, Revoked, SessionRow
  <2>3. s = request[r].session => s \in HeldSessions(r)
    BY <1>4 DEF Logout, HeldSessions, Before
  <2>4. ~RevokedAll(r, "disable")
    BY <1>4 DEF Logout, RevokedAll
  <2>. QED  BY <2>1, <2>2, <2>3, <2>4 DEF Live
<1>5. CASE ChangeCommit(r)
  <2>1. Rotate(r, FALSE) /\ request[r].at \notin Before /\ ~RevokedAll(r, "disable")
    BY <1>5 DEF ChangeCommit, RevokedAll, Before
  <2>. QED  BY <2>1, RotateSession DEF Live
<1>6. CASE DisableCommit(r)
  <2>1. Rotate(r, FALSE) /\ request[r].at \notin Before
    BY <1>6 DEF DisableCommit, RevokedAll, Before
  <2>. QED  BY <2>1, RotateSession DEF Live
<1>7. CASE CompleteLogin(r)
  <2>1. /\ Rotate(r, TRUE) /\ request[r].at \notin Before
        /\ request[r].at = "granted" /\ request[r].op = "verify"
        /\ factor' = request[r].row
    BY <1>7 DEF CompleteLogin, Before
  <2>. QED  BY <2>1, RotateSession DEF Live
<1>8. CASE StepUp(r)
  <2>0. request[r].at = "granted" /\ request[r].op = "verify"
    BY <1>8 DEF StepUp
  <2>1. CASE UNCHANGED session
    BY <1>1, <2>0, <2>1 DEF RevokedAll
  <2>2. CASE /\ Stampable(r)
             /\ session' = [session EXCEPT ![request[r].session].assured = TRUE]
             /\ factor' = request[r].row
    <3>1. s # request[r].session => session'[s] = session[s]
      BY <1>0, <2>2
    <3>2. s = request[r].session => s \in Live /\ s \in HeldSessions(r)
      BY <2>0, <2>2 DEF Stampable, HeldSessions, Before
    <3>. QED  BY <2>0, <2>2, <3>1, <3>2 DEF Live, RevokedAll
  <2>. QED  BY <1>8, <2>1, <2>2 DEF StepUp
<1>9. CASE ConfirmCommit(r)
  <2>0. /\ request[r].at = "revoke" /\ request[r].op = "confirm"
        /\ factor' = request[r].row
    BY <1>9 DEF ConfirmCommit, RevokedAll
  <2>1. request[r].session \in Live /\ request[r].session \in HeldSessions(r)
    BY <2>0 DEF StampedLives, HeldSessions, Before
  <2>2. Revoked(request[r].taken) \in [Session -> SessionRow]
    BY <1>0, SessionTypes
  <2>3. s # request[r].session => session'[s] = Revoked(request[r].taken)[s]
    BY <1>9, <2>2 DEF ConfirmCommit
  <2>4. s \notin request[r].taken \/ s \notin Live =>
          Revoked(request[r].taken)[s] = session[s]
    BY DEF Revoked
  <2>5. request[r].taken \subseteq HeldSessions(r)
    BY <2>0 DEF HeldSessions, Before
  <2>. QED  BY <2>0, <2>1, <2>3, <2>4, <2>5 DEF Live
<1>. QED  BY <1>2, <1>3, <1>4, <1>5, <1>6, <1>7, <1>8, <1>9 DEF Commits

LEMMA CodeCommits ==
  ASSUME TypeOK, NEW r \in Request, Commits(r), NEW c \in codes, c \notin codes'
  PROVE  HoldsFactor(r) \/ Free(r, c)
<1>1. CASE StepUp(r) \/ CompleteLogin(r) \/ ConfirmCommit(r) \/ DisableCommit(r)
  BY <1>1 DEF StepUp, CompleteLogin, ConfirmCommit, DisableCommit, RevokedAll, HoldsFactor
<1>2. CASE RegenerateCommit(r)
  BY <1>2 DEF RegenerateCommit
<1>. QED  BY <1>1, <1>2 DEF Commits, LoginCount, LoginAdmit, Logout, ChangeCommit,
                            EnrollInsert, EnrollUpdate, RejectCode
-----------------------------------------------------------------------------
(* The parts of the invariant that are about requests and rows *)

LEMMA FactorThereHolds ==
  ASSUME TypeOK, OpAtPlace, FactorAlone, FactorThere, FactorCurrent, [Next]_vars
  PROVE  FactorThere'
<1>0. CASE UNCHANGED vars \/ Tick
  BY <1>0 DEF vars, rows, Tick, FactorThere, HoldsFactor
<1>1. ASSUME NEW r \in Request, Moves(r), Alone(r), UNCHANGED rows PROVE FactorThere'
  <2>1. ASSUME HoldsFactor(r)' PROVE request'[r].row.exists /\ factor.exists
    <3>1. CASE HoldsFactor(r)
      <4>1. request[r].row.exists /\ factor.exists
        BY <3>1 DEF FactorThere
      <4>2. request'[r].row.exists = request[r].row.exists
        BY <1>1, <2>1, <3>1
           DEF Moves, Arrives, Passes, Revokes, Reads, Grants, HoldsFactor
      <4>. QED  BY <4>1, <4>2
    <3>2. CASE Usable(request[r]) /\ request'[r].row = factor
      BY <3>2 DEF Usable, FactorThere, NoFactor
    <3>. QED  BY <1>1, <2>1, <3>1, <3>2, HolderMoves
  <2>2. ASSUME request'[r].at = "seed" PROVE request'[r].row = factor
    <3>1. Authenticated(request[r].op) # "seed" /\ Resolved(request[r].op) # "seed"
      BY DEF Authenticated, Resolved
    <3>. QED  BY <1>1, <2>2, <3>1 DEF Moves, Arrives, Passes, Revokes, Reads, Grants
  <2>3. factor' = factor
    BY <1>1 DEF rows
  <2>4. ASSUME NEW other \in Request
        PROVE  /\ HoldsFactor(other)' => request'[other].row.exists
               /\ HoldsFactor(other)' \/ request'[other].at = "seed" =>
                    (request'[other].row.exists => factor'.exists)
    BY <1>1, <2>1, <2>2, <2>3, OthersHold DEF FactorThere, Alone
  <2>. QED  BY <2>3, <2>4 DEF FactorThere, NoFactor
<1>2. ASSUME NEW r \in Request, Commits(r), Alone(r) PROVE FactorThere'
  <2>1. factor' = factor \/ factor'.exists
    <3>1. CASE request[r].at = "spend" /\ HoldsFactor(r)
               /\ factor' = CountMiss(request[r].row, request[r].began)
      BY <3>1, OpType, MissKeeps DEF FactorThere, OnSessionPlace
    <3>. QED  BY <1>2, <3>1, FactorCommits DEF FactorThere
  <2>2. ASSUME NEW other \in Request \ {r}
        PROVE  /\ HoldsFactor(other)' => request'[other].row.exists
               /\ HoldsFactor(other)' \/ request'[other].at = "seed" =>
                    (request'[other].row.exists => factor'.exists)
    BY <1>2, <2>1, OthersHold DEF FactorThere, Alone
  <2>3. factor.exists => factor'.exists
    BY <2>1
  <2>. QED  BY <1>2, <2>1, <2>2, CommitIdle DEF FactorThere, NoFactor
<1>. QED  BY <1>0, <1>1, <1>2, NextStep

LEMMA FactorCurrentHolds ==
  ASSUME TypeOK, OpAtPlace, FactorAlone, FactorThere, FactorCurrent, [Next]_vars
  PROVE  FactorCurrent'
<1>0. CASE UNCHANGED vars \/ Tick
  BY <1>0 DEF vars, rows, Tick, FactorCurrent
<1>1. ASSUME NEW r \in Request, Moves(r), Alone(r), UNCHANGED rows PROVE FactorCurrent'
  <2>1. ASSUME \/ request'[r].at = "spend"
               \/ request'[r].at = "password" /\ request'[r].op = "disable"
        PROVE  request'[r].row = factor
    <3>1. HoldsFactor(r)'
      BY <2>1 DEF HoldsFactor
    <3>2. CASE HoldsFactor(r)
      <4>1. Passes(r)
        BY <1>1, <2>1, <3>2 DEF Moves, Arrives, Revokes, Reads, Grants, HoldsFactor
      <4>2. request[r].at = "password" /\ request[r].op = "disable"
        BY <2>1, <3>2, <4>1 DEF Passes, HoldsFactor, OpAtPlace
      <4>. QED  BY <4>1, <4>2 DEF Passes, FactorCurrent
    <3>. QED  BY <1>1, <3>1, <3>2, HolderMoves
  <2>. QED  BY <1>1, <2>1 DEF rows, Alone, FactorCurrent
<1>2. ASSUME NEW r \in Request, Commits(r), Alone(r) PROVE FactorCurrent'
  <2>1. ASSUME NEW other \in Request \ {r}, HoldsFactor(other) PROVE factor' = factor
    BY <1>2, <2>1, FactorSteady
  <2>. QED  BY <1>2, <2>1, CommitIdle DEF Alone, FactorCurrent, HoldsFactor
<1>. QED  BY <1>0, <1>1, <1>2, NextStep

LEMMA HeldFactorHolds ==
  ASSUME TypeOK, OpAtPlace, FactorAlone, FactorThere, HeldFactor, [Next]_vars
  PROVE  HeldFactor'
<1>0. CASE UNCHANGED vars \/ Tick
  BY <1>0 DEF vars, rows, Tick, HeldFactor, HoldsFactor
<1>1. ASSUME NEW r \in Request, Moves(r), Alone(r), UNCHANGED rows PROVE HeldFactor'
  <2>. DEFINE Knows(q) == /\ factor.lockedUntil <= q.began
                          /\ q.at # "revoke" => (q.row.confirmed <=> q.op # "confirm")
                          /\ q.at = "revoke" => (q.row.confirmed <=> q.op = "confirm")
  <2>1. ASSUME HoldsFactor(r)' PROVE Knows(request'[r])
    <3>1. CASE HoldsFactor(r)
      <4>0. Knows(request[r])
        BY <3>1 DEF HeldFactor
      <4>1. CASE Passes(r)
        <5>1. Authenticated(request[r].op) # "revoke" /\ Resolved(request[r].op) # "revoke"
          BY DEF Authenticated, Resolved
        <5>2. request[r].at # "revoke" /\ request'[r].at # "revoke"
          BY <4>1, <5>1 DEF Passes
        <5>. QED  BY <4>0, <4>1, <5>2 DEF Passes, Keeps
      <4>2. CASE Revokes(r)
        <5>1. request[r].at = "revoke" /\ request'[r].at = "revoke"
          BY <3>1, <4>2 DEF Revokes, HoldsFactor
        <5>. QED  BY <4>0, <4>2, <5>1 DEF Revokes, Keeps
      <4>3. CASE Grants(r)
        BY <4>0, <4>3 DEF Grants, Keeps
      <4>. QED  BY <1>1, <2>1, <3>1, <4>1, <4>2, <4>3
                   DEF Moves, Arrives, Reads, HoldsFactor
    <3>2. CASE /\ Usable(request[r]) /\ Keeps(r) /\ request'[r].row = factor
               /\ request'[r].at \in {"password", "spend"}
      BY <3>2 DEF Usable, Keeps
    <3>. QED  BY <1>1, <2>1, <3>1, <3>2, HolderMoves
  <2>. QED  BY <1>1, <2>1, OthersHold DEF rows, Alone, HeldFactor
<1>2. ASSUME NEW r \in Request, Commits(r), Alone(r) PROVE HeldFactor'
  <2>1. ASSUME NEW other \in Request \ {r}, HoldsFactor(other) PROVE factor' = factor
    BY <1>2, <2>1, FactorSteady
  <2>. QED  BY <1>2, <2>1, CommitIdle, OthersHold DEF Alone, HeldFactor
<1>. QED  BY <1>0, <1>1, <1>2, NextStep

LEMMA StampedLivesHolds ==
  ASSUME TypeOK, OpAtPlace, SessionsApart, StampedLives, [Next]_vars
  PROVE  StampedLives'
<1>0. CASE UNCHANGED vars \/ Tick
  BY <1>0 DEF vars, rows, Tick, StampedLives, Live
<1>1. ASSUME NEW r \in Request, Moves(r), Alone(r), UNCHANGED rows PROVE StampedLives'
  <2>0. Live' = Live
    BY <1>1 DEF rows, Live
  <2>1. ASSUME request'[r].at = "revoke", request'[r].op = "confirm"
        PROVE  request'[r].session \in Live
    <3>1. ~Arrives(r) /\ ~Reads(r)
      BY <2>1 DEF Arrives, Reads
    <3>2. ~Passes(r)
      <4>1. Authenticated(request[r].op) # "revoke" /\ Resolved(request[r].op) # "revoke"
        BY DEF Authenticated, Resolved
      <4>. QED  BY <2>1, <4>1 DEF Passes
    <3>3. CASE Revokes(r)
      BY <2>1, <3>3 DEF Revokes, Keeps, OpAtPlace, StampedLives
    <3>4. CASE Grants(r)
      BY <2>1, <3>4 DEF Grants, Keeps, Stampable
    <3>. QED  BY <1>1, <3>1, <3>2, <3>3, <3>4 DEF Moves
  <2>. QED  BY <1>1, <2>0, <2>1 DEF Alone, StampedLives
<1>2. ASSUME NEW r \in Request, Commits(r), Alone(r) PROVE StampedLives'
  <2>1. ASSUME NEW other \in Request \ {r},
               request[other].at = "revoke", request[other].op = "confirm"
        PROVE  request[other].session \in Live'
    <3>1. request[other].session \in Live /\ request[other].session \in HeldSessions(other)
      BY <2>1 DEF StampedLives, HeldSessions, Before
    <3>2. request[other].session \notin HeldSessions(r)
      BY <3>1 DEF SessionsApart
    <3>. QED  BY <1>2, <3>1, <3>2, SessionCommits DEF Live
  <2>. QED  BY <1>2, <2>1, CommitIdle DEF Alone, StampedLives
<1>. QED  BY <1>0, <1>1, <1>2, NextStep

LEMMA AssuredWillGoHolds ==
  ASSUME TypeOK, OpAtPlace, FactorAlone, StampedLives, AssuredWillGo, [Next]_vars
  PROVE  AssuredWillGo'
<1>0. CASE UNCHANGED vars \/ Tick
  BY <1>0 DEF vars, rows, Tick, AssuredWillGo, Live
<1>1. ASSUME NEW r \in Request, Moves(r), Alone(r), UNCHANGED rows PROVE AssuredWillGo'
  <2>0. Live' = Live /\ session' = session
    BY <1>1 DEF rows, Live
  <2>1. ASSUME request'[r].at = "revoke", request'[r].op = "disable",
               NEW s \in Live, session[s].assured
        PROVE  s \in request'[r].left \cup request'[r].taken \cup {request'[r].session}
    <3>1. ~Arrives(r) /\ ~Reads(r)
      BY <2>1 DEF Arrives, Reads
    <3>2. ~Passes(r)
      <4>1. Authenticated(request[r].op) # "revoke" /\ Resolved(request[r].op) # "revoke"
        BY DEF Authenticated, Resolved
      <4>. QED  BY <2>1, <4>1 DEF Passes
    <3>3. CASE Revokes(r)
      <4>1. request[r].at = "revoke" /\ request[r].op = "disable"
        BY <2>1, <3>3 DEF Revokes, Keeps, OpAtPlace
      <4>2. s \in request[r].left \cup request[r].taken \cup {request[r].session}
        BY <2>1, <4>1 DEF AssuredWillGo
      <4>. QED  BY <2>1, <3>3, <4>1, <4>2 DEF Revokes, Keeps
    <3>4. CASE Grants(r)
      BY <2>1, <3>4 DEF Grants, Keeps, Others
    <3>. QED  BY <1>1, <3>1, <3>2, <3>3, <3>4 DEF Moves
  <2>. QED  BY <1>1, <2>0, <2>1 DEF Alone, AssuredWillGo
<1>2. ASSUME NEW r \in Request, Commits(r), Alone(r) PROVE AssuredWillGo'
  <2>1. ASSUME NEW other \in Request \ {r},
               request[other].at = "revoke", request[other].op = "disable",
               NEW s \in Live', session'[s].assured
        PROVE  s \in Live /\ session[s].assured
    <3>1. HoldsFactor(other) /\ ~HoldsFactor(r)
      BY <2>1 DEF HoldsFactor, FactorAlone
    <3>2. s \in Session /\ session'[s].status = "live"
      BY <2>1 DEF Live
    <3>. QED  BY <1>2, <2>1, <3>1, <3>2, SessionCommits DEF Live, HoldsFactor
  <2>. QED  BY <1>2, <2>1, CommitIdle DEF Alone, AssuredWillGo
<1>. QED  BY <1>0, <1>1, <1>2, NextStep

LEMMA AssuranceHolds ==
  ASSUME TypeOK, FactorThere, FactorCurrent, HeldFactor, StampedLives, AssuredWillGo,
         AssuranceNeedsFactor, [Next]_vars
  PROVE  AssuranceNeedsFactor'
<1>0. CASE UNCHANGED vars \/ Tick
  BY <1>0 DEF vars, rows, Tick, AssuranceNeedsFactor, Live
<1>1. ASSUME NEW r \in Request, UNCHANGED rows PROVE AssuranceNeedsFactor'
  BY <1>1 DEF rows, AssuranceNeedsFactor, Live
<1>2. ASSUME NEW r \in Request, Commits(r), ~factor'.confirmed,
             NEW s \in Live', session'[s].assured
      PROVE  FALSE
  <2>0. s \in Session /\ session'[s].status = "live"
    BY <1>2 DEF Live
  <2>1. CASE RevokedAll(r, "disable")
    <3>1. s \in Live /\ session[s].assured /\ s \notin HeldSessions(r)
      BY <1>2, <2>0, <2>1, SessionCommits DEF RevokedAll, Live
    <3>2. HeldSessions(r) = {request[r].session} \cup request[r].taken
      BY <2>1 DEF RevokedAll, HeldSessions, Before
    <3>. QED  BY <2>1, <3>1, <3>2 DEF RevokedAll, AssuredWillGo
  <2>2. CASE /\ HoldsFactor(r) /\ factor' = request[r].row
             /\ \/ request[r].at = "granted" /\ request[r].op = "verify"
                \/ request[r].at = "revoke" /\ request[r].op = "confirm"
    BY <1>2, <2>2 DEF HeldFactor
  <2>3. CASE ~RevokedAll(r, "disable") /\ factor'.confirmed = factor.confirmed
    <3>1. ~(s \in Live /\ session[s].assured)
      BY <1>2, <2>3 DEF AssuranceNeedsFactor
    <3>. QED  BY <1>2, <2>0, <2>2, <3>1, SessionCommits DEF Live, HoldsFactor
  <2>4. CASE /\ request[r].at = "spend" /\ HoldsFactor(r)
             /\ factor' = CountMiss(request[r].row, request[r].began)
    <3>1. factor'.confirmed = factor.confirmed
      BY <2>4, OpType, MissKeeps DEF FactorCurrent, OnSessionPlace
    <3>. QED  BY <2>1, <2>3, <3>1
  <2>5. CASE ~factor.exists /\ factor'.confirmed = FALSE
    <3>1. factor.confirmed = FALSE
      BY <2>5 DEF FactorThere, NoFactor
    <3>. QED  BY <2>1, <2>3, <2>5, <3>1
  <2>. QED  BY <1>2, <2>1, <2>2, <2>3, <2>4, <2>5, FactorCommits
<1>3. ASSUME NEW r \in Request, Commits(r) PROVE AssuranceNeedsFactor'
  BY <1>2, <1>3 DEF AssuranceNeedsFactor
<1>. QED  BY <1>0, <1>1, <1>3, NextStep

LEMMA BurnsLiveHolds ==
  ASSUME TypeOK, NothingWritten, FactorAlone, BurnsLive, [Next]_vars
  PROVE  BurnsLive'
<1>0. CASE UNCHANGED vars \/ Tick
  BY <1>0 DEF vars, rows, Tick, BurnsLive
<1>1. ASSUME NEW r \in Request, Moves(r), Alone(r), UNCHANGED rows PROVE BurnsLive'
  <2>1. ASSUME request'[r].at = "granted" PROVE request'[r].burn \subseteq codes
    <3>1. Grants(r)
      <4>1. Authenticated(request[r].op) # "granted" /\ Resolved(request[r].op) # "granted"
        BY DEF Authenticated, Resolved
      <4>. QED  BY <1>1, <2>1, <4>1 DEF Moves, Arrives, Passes, Revokes, Reads
    <3>. QED  BY <2>1, <3>1 DEF Grants, NothingWritten
  <2>. QED  BY <1>1, <2>1 DEF rows, Alone, BurnsLive
<1>2. ASSUME NEW r \in Request, Commits(r), Alone(r) PROVE BurnsLive'
  <2>1. ASSUME NEW other \in Request \ {r}, request[other].at = "granted",
               NEW c \in request[other].burn
        PROVE  c \in codes'
    <3>1. HoldsFactor(other) /\ ~HoldsFactor(r)
      BY <2>1 DEF HoldsFactor, FactorAlone
    <3>2. c \in codes /\ c \in Holds(other)
      BY <2>1 DEF BurnsLive, Holds
    <3>3. ~Free(r, c)
      BY <3>2 DEF Free
    <3>. QED  BY <1>2, <3>1, <3>2, <3>3, CodeCommits
  <2>. QED  BY <1>2, <2>1, CommitIdle DEF Alone, BurnsLive
<1>. QED  BY <1>0, <1>1, <1>2, NextStep
-----------------------------------------------------------------------------
(* The invariant, and the theorems *)

LEMMA InitInv == Init => AccountInv
<1>. SUFFICES ASSUME Init PROVE AccountInv
  OBVIOUS
<1>1. TypeOK
  BY InitType
<1>2. \A r \in Request : request[r].at = "idle"
  BY DEF Init, Idle
<1>3. \A r \in Request : ~HoldsFactor(r) /\ HeldSessions(r) = {}
  BY <1>2 DEF HoldsFactor, HeldSessions, Before
<1>4. /\ OpAtPlace /\ NothingWritten /\ BeganBefore /\ FactorAlone /\ SessionsApart
      /\ FactorCurrent /\ HeldFactor /\ StampedLives /\ AssuredWillGo /\ BurnsLive
  BY <1>2, <1>3 DEF OpAtPlace, NothingWritten, BeganBefore, FactorAlone, SessionsApart,
       FactorCurrent, HeldFactor, StampedLives, AssuredWillGo, BurnsLive
<1>5. PICK live \in SUBSET Session, enrolled \in BOOLEAN :
       /\ session = [s \in Session |-> IF s \in live THEN Opened(enrolled) ELSE Absent]
       /\ IF enrolled
            THEN /\ \E k \in Seed : factor = [NoFactor EXCEPT
                      !.exists = TRUE, !.seed = k, !.confirmed = TRUE, !.last = 0]
                 /\ \E c \in CodeSet : codes = {c}
            ELSE factor = NoFactor /\ codes = {}
  BY Zenon DEF Init
<1>6. (~factor.exists => factor = NoFactor) /\ (~factor.confirmed => ~enrolled)
  <2>1. CASE enrolled
    <3>. PICK k \in Seed : factor = [NoFactor EXCEPT
             !.exists = TRUE, !.seed = k, !.confirmed = TRUE, !.last = 0]
      BY <1>5, <2>1
    <3>. QED  BY DEF NoFactor
  <2>2. CASE ~enrolled
    BY <1>5, <2>2
  <2>. QED  BY <2>1, <2>2
<1>7. FactorThere
  BY <1>2, <1>3, <1>6 DEF FactorThere
<1>8. AssuranceNeedsFactor
  BY <1>5, <1>6 DEF AssuranceNeedsFactor, Live, Opened, Absent
<1>. QED  BY <1>1, <1>4, <1>7, <1>8 DEF AccountInv

(***************************************************************************)
(* The inductive invariant: which request holds which row, and what the    *)
(* place of a request in its handler says of the rows it has read.         *)
(***************************************************************************)
THEOREM AccountInvariant == Spec => []AccountInv
<1>1. ASSUME AccountInv, [Next]_vars, TypeOK' PROVE AccountInv'
  BY <1>1, OpAtPlaceHolds, NothingWrittenHolds, BeganBeforeHolds, FactorAloneHolds,
     SessionsApartHolds, FactorThereHolds, FactorCurrentHolds, HeldFactorHolds,
     StampedLivesHolds, AssuredWillGoHolds, AssuranceHolds, BurnsLiveHolds
     DEF AccountInv
<1>. QED  BY <1>1, InitInv, TypeCorrect, PTL DEF Spec

(***************************************************************************)
(* What a request decides a code on is what is committed, until it         *)
(* commits: mfa_for_update serializes the requests that check a code.      *)
(***************************************************************************)
THEOREM CodesCheckedOnCurrentFactor == Spec => []FactorCurrent
<1>1. AccountInv => FactorCurrent
  BY DEF AccountInv
<1>. QED  BY <1>1, AccountInvariant, PTL

(***************************************************************************)
(* No session is assured without a confirmed factor, though disable_mfa    *)
(* sees only the sessions that were committed when its UPDATE began.       *)
(***************************************************************************)
THEOREM AssuranceAlwaysNeedsFactor == Spec => []AssuranceNeedsFactor
<1>1. AccountInv => AssuranceNeedsFactor
  BY DEF AccountInv
<1>. QED  BY <1>1, AccountInvariant, PTL

(***************************************************************************)
(* A recovery code is spent once, by one request, whatever is regenerated  *)
(* or burned meanwhile: consume_recovery_code is one conditional UPDATE.   *)
(***************************************************************************)
THEOREM RecoveryCodesSpentOnce == Spec => []CodeSpentOnce
<1>1. AccountInv => CodeSpentOnce
  <2>. SUFFICES ASSUME AccountInv, NEW r \in Request, request[r].at = "granted",
                       NEW other \in Request \ {r}
                PROVE  request[r].burn \subseteq codes /\ request[other].at # "granted"
    BY DEF CodeSpentOnce, AccountInv, BurnsLive
  <2>. QED  BY DEF AccountInv, BurnsLive, FactorAlone, HoldsFactor
<1>. QED  BY <1>1, AccountInvariant, PTL

(***************************************************************************)
(* A revoked session is not written again, by no step-up, confirmation or  *)
(* rotation that was let in before it was revoked.                         *)
(***************************************************************************)
THEOREM RevokedSessionsStay == Spec => RevokedForever
<1>1. ASSUME AccountInv, [Next]_vars
      PROVE  [\A s \in Session : session[s].status = "revoked" => session'[s] = session[s]]_vars
  <2>1. CASE UNCHANGED vars
    BY <2>1
  <2>2. CASE UNCHANGED session
    BY <2>2
  <2>3. ASSUME NEW r \in Request, Commits(r), NEW s \in Session, session[s].status = "revoked"
        PROVE  session'[s] = session[s]
    BY <1>1, <2>3, SessionCommits DEF AccountInv
  <2>. QED  BY <1>1, <2>1, <2>2, <2>3, NextStep DEF AccountInv, Tick, rows
<1>. QED  BY <1>1, AccountInvariant, PTL DEF Spec, RevokedForever

(***************************************************************************)
(* A lockout that stands on the database clock is not shortened, and no    *)
(* factor is confirmed or disabled under it: who holds the factor began    *)
(* after the lockout had ended.                                            *)
(***************************************************************************)
THEOREM LockoutsServed == Spec => LockoutServed
<1>1. ASSUME AccountInv, [Next]_vars
      PROVE  [factor.lockedUntil > now =>
                /\ factor'.lockedUntil >= factor.lockedUntil
                /\ factor'.confirmed = factor.confirmed]_vars
  <2>0. now \in Nat /\ factor.lockedUntil \in Nat
    BY <1>1, AccountsAssumption, TypeParts, FactorFields DEF AccountInv
  <2>1. CASE factor' = factor
    BY <2>0, <2>1
  <2>2. CASE UNCHANGED vars
    BY <2>2
  <2>3. ASSUME NEW r \in Request, Commits(r), factor.lockedUntil > now
        PROVE  /\ factor'.lockedUntil >= factor.lockedUntil
               /\ factor'.confirmed = factor.confirmed
    <3>1. ~HoldsFactor(r)
      <4>1. ASSUME HoldsFactor(r) PROVE FALSE
        <5>1. request[r].at # "idle" /\ request[r].at \in OnSessionPlace
          BY <4>1 DEF HoldsFactor, OnSessionPlace
        <5>2. request[r].began \in Nat /\ request[r].began <= now
          BY <1>1, <5>1, OpType DEF AccountInv, BeganBefore
        <5>3. factor.lockedUntil <= request[r].began
          BY <1>1, <4>1 DEF AccountInv, HeldFactor
        <5>. QED  BY <2>0, <2>3, <5>2, <5>3
      <4>. QED  BY <4>1
    <3>2. factor.exists
      <4>1. NoFactor.lockedUntil = 0
        BY DEF NoFactor, NoTime
      <4>. QED  BY <1>1, <2>0, <2>3, <4>1 DEF AccountInv, FactorThere
    <3>3. \/ factor' = factor
          \/ /\ factor'.lockedUntil = factor.lockedUntil
             /\ factor'.confirmed = factor.confirmed
      BY <1>1, <2>3, <3>1, <3>2, FactorCommits DEF AccountInv
    <3>. QED  BY <2>0, <3>3
  <2>. QED  BY <1>1, <2>1, <2>2, <2>3, NextStep DEF AccountInv, Tick, rows
<1>. QED  BY <1>1, AccountInvariant, PTL DEF Spec, LockoutServed

-----------------------------------------------------------------------------
(* What a granted request has earned *)

LEMMA TakenLastHolds ==
  ASSUME TypeOK, OpAtPlace, TakenLast, [Next]_vars
  PROVE  TakenLast'
<1>0. CASE UNCHANGED vars \/ Tick
  BY <1>0 DEF vars, Tick, TakenLast
<1>1. ASSUME NEW r \in Request, Moves(r), Alone(r) PROVE TakenLast'
  <2>1. request'[r].at \notin {"idle", "hashing", "count", "admit", "revoke"} =>
          request'[r].taken = {}
    <3>1. CASE Arrives(r)
      BY <3>1 DEF Arrives
    <3>2. CASE Passes(r)
      BY <3>2 DEF Passes, KeepsSets, TakenLast
    <3>3. CASE Revokes(r)
      BY <3>3 DEF Revokes
    <3>4. CASE Reads(r)
      BY <3>4 DEF Reads, TakenLast
    <3>5. CASE Grants(r)
      BY <3>5 DEF Grants, TakenLast
    <3>. QED  BY <1>1, <3>1, <3>2, <3>3, <3>4, <3>5 DEF Moves
  <2>. QED  BY <1>1, <2>1 DEF Alone, TakenLast
<1>2. ASSUME NEW r \in Request, Commits(r), Alone(r) PROVE TakenLast'
  BY <1>2, CommitIdle DEF Alone, TakenLast
<1>. QED  BY <1>0, <1>1, <1>2, NextStep

LEMMA BeganSinceHolds ==
  ASSUME TypeOK, BeganSince, [Next]_vars
  PROVE  BeganSince'
<1>0. now >= 1
  BY AccountsAssumption, TypeParts
<1>1. CASE UNCHANGED vars \/ Tick
  BY <1>1 DEF vars, Tick, BeganSince
<1>2. ASSUME NEW r \in Request, Moves(r), Alone(r) PROVE BeganSince'
  <2>1. request'[r].at # "idle" => request'[r].began >= 1
    BY <1>0, <1>2 DEF Moves, Arrives, Passes, Revokes, Reads, Grants, Keeps, BeganSince
  <2>. QED  BY <1>2, <2>1 DEF Alone, BeganSince
<1>3. ASSUME NEW r \in Request, Commits(r), Alone(r) PROVE BeganSince'
  BY <1>3, CommitIdle DEF Alone, BeganSince
<1>. QED  BY <1>1, <1>2, <1>3, NextStep

(* How a request comes to hold a row that it will write. *)
LEMMA GrantedMoves ==
  ASSUME TypeOK, OpAtPlace, NEW r \in Request, Moves(r)
  PROVE  /\ request'[r].at = "granted" =>
              Grants(r) /\ Keeps(r) /\ request[r].at = "spend"
         /\ request'[r].at = "revoke" /\ request'[r].op \in {"confirm", "disable"} =>
              /\ Keeps(r)
              /\ \/ Grants(r) /\ request[r].at = "granted"
                 \/ Revokes(r) /\ request[r].at = "revoke"
<1>1. request'[r].at \in {"granted", "revoke"} => ~Arrives(r) /\ ~Passes(r) /\ ~Reads(r)
  BY DEF Arrives, Passes, Reads, Authenticated, Resolved
<1>2. Revokes(r) => /\ Keeps(r) /\ request'[r].at = "revoke"
                    /\ request[r].at = "change" => request[r].op = "change_password"
  BY DEF Revokes, OpAtPlace
<1>3. Revokes(r) => request[r].at \in {"change", "revoke"}
  BY DEF Revokes
<1>4. Grants(r) => /\ Keeps(r)
                   /\ \/ request[r].at = "spend" /\ request'[r].at = "granted"
                      \/ request[r].at = "granted" /\ request'[r].at = "revoke"
  BY DEF Grants
<1>. QED  BY <1>1, <1>2, <1>3, <1>4 DEF Moves, Keeps

LEMMA RowUpdates ==
  ASSUME NEW row \in Factor, NEW step
  PROVE  /\ [[row EXCEPT !.last = step] EXCEPT !.confirmed = TRUE]
              = [row EXCEPT !.last = step, !.confirmed = TRUE]
         /\ Erased([row EXCEPT !.last = step]) = Erased(row)
BY DEF Factor, Erased

(* The window is the same as long as the request is. *)
LEMMA WindowKept ==
  ASSUME NEW r, Keeps(r)
  PROVE  Window(r)' = Window(r)
BY DEF Keeps, Window

LEMMA GrantedEarned ==
  ASSUME TypeOK, OpAtPlace, NothingWritten, FactorCurrent, HeldFactor, UnconfirmedUnused,
         BeganSince, NEW r \in Request, Moves(r), UNCHANGED rows, request'[r].at = "granted"
  PROVE  GrantedRow(r)'
<1>1. Grants(r) /\ Keeps(r) /\ request[r].at = "spend"
  BY GrantedMoves
<1>2. /\ request[r].row = factor /\ request[r].burn = {} /\ factor' = factor
      /\ codes' = codes
  BY <1>1 DEF FactorCurrent, NothingWritten, rows
<1>3. Window(r)' = Window(r) /\ request'[r].op = request[r].op
  BY <1>1, WindowKept DEF Keeps
<1>4. Cleared(factor)' = Cleared(factor)
  BY <1>2 DEF Cleared
<1>5. CASE /\ request'[r].burn = request[r].burn
           /\ \E step \in Window(r) :
                /\ request[r].op # "confirm" => step > request[r].row.last
                /\ request'[r].row = [Cleared(request[r].row) EXCEPT !.last = step]
  <2>1. PICK step \in Window(r) :
          /\ request[r].op # "confirm" => step > request[r].row.last
          /\ request'[r].row = [Cleared(request[r].row) EXCEPT !.last = step]
    BY <1>5
  <2>2. step > factor.last
    <3>1. CASE request[r].op = "confirm"
      <4>1. factor.confirmed = FALSE
        BY <1>1, <1>2, <3>1, TypeParts, FactorFields DEF HeldFactor, HoldsFactor
      <4>2. request[r].began \in Nat /\ request[r].began >= 1
        BY <1>1, OpType DEF OnSessionPlace, BeganSince
      <4>. QED  BY <4>1, <4>2 DEF UnconfirmedUnused, Window, NoStep
    <3>. QED  BY <1>2, <2>1, <3>1
  <2>. QED  BY <1>2, <1>3, <1>4, <1>5, <2>1, <2>2 DEF GrantedRow
<1>6. CASE /\ request[r].op # "confirm"
           /\ \E c \in codes : /\ request'[r].burn = {c}
                               /\ request'[r].row = Cleared(request[r].row)
  BY <1>2, <1>3, <1>4, <1>6 DEF GrantedRow
<1>. QED  BY <1>1, <1>5, <1>6 DEF Grants, Writes

LEMMA ConfirmEarned ==
  ASSUME TypeOK, OpAtPlace, TakenLast, NEW r \in Request, Earned(r), Moves(r),
         UNCHANGED rows, request'[r].at = "revoke", request'[r].op = "confirm"
  PROVE  ConfirmedRow(r)'
<1>1. /\ Keeps(r)
      /\ \/ Grants(r) /\ request[r].at = "granted"
         \/ Revokes(r) /\ request[r].at = "revoke"
  BY GrantedMoves
<1>2. factor' = factor /\ request[r].op = "confirm" /\ Window(r)' = Window(r)
  BY <1>1, WindowKept DEF rows, Keeps
<1>3. Cleared(factor)' = Cleared(factor)
  BY <1>2 DEF Cleared
<1>4. request'[r].session = request[r].session
  BY <1>1 DEF Keeps
<1>5. CASE Grants(r) /\ request[r].at = "granted"
  <2>1. /\ request'[r].row = [request[r].row EXCEPT !.confirmed = TRUE]
        /\ request'[r].left = Others(r) /\ request'[r].taken = {}
    BY <1>2, <1>5 DEF Grants, Writes, TakenLast
  <2>2. PICK step \in Window(r) : /\ step > factor.last
                                  /\ request[r].row = [Cleared(factor) EXCEPT !.last = step]
    BY <1>2, <1>5 DEF Earned, GrantedRow
  <2>3. Cleared(factor) \in Factor
    BY ClearedType, TypeParts
  <2>4. request'[r].row = [Cleared(factor) EXCEPT !.last = step, !.confirmed = TRUE]
    BY <2>1, <2>2, <2>3, RowUpdates
  <2>5. request'[r].session \notin request'[r].left \cup request'[r].taken
    BY <1>4, <2>1 DEF Others
  <2>6. \E other \in Window(r)' :
          /\ other > factor'.last
          /\ request'[r].row = [Cleared(factor)' EXCEPT !.last = other, !.confirmed = TRUE]
    BY <1>2, <1>3, <2>2, <2>4, Zenon
  <2>. QED  BY <2>5, <2>6 DEF ConfirmedRow
<1>6. CASE Revokes(r) /\ request[r].at = "revoke"
  <2>1. ConfirmedRow(r) /\ request'[r].row = request[r].row
    BY <1>2, <1>6 DEF Earned, Revokes
  <2>2. request'[r].left \cup request'[r].taken \subseteq request[r].left \cup request[r].taken
    BY <1>6 DEF Revokes
  <2>. QED  BY <1>2, <1>3, <1>4, <2>1, <2>2 DEF ConfirmedRow
<1>. QED  BY <1>1, <1>5, <1>6

LEMMA EraseEarned ==
  ASSUME TypeOK, OpAtPlace, NEW r \in Request, Earned(r), Moves(r),
         UNCHANGED rows, request'[r].at = "revoke", request'[r].op = "disable"
  PROVE  ErasedRow(r)'
<1>1. /\ Keeps(r)
      /\ \/ Grants(r) /\ request[r].at = "granted"
         \/ Revokes(r) /\ request[r].at = "revoke"
  BY GrantedMoves
<1>2. /\ factor' = factor /\ codes' = codes /\ request[r].op = "disable"
      /\ Window(r)' = Window(r)
  BY <1>1, WindowKept DEF rows, Keeps
<1>3. Erased(Cleared(factor))' = Erased(Cleared(factor))
  BY <1>2 DEF Cleared, Erased
<1>4. CASE Grants(r) /\ request[r].at = "granted"
  <2>1. /\ request'[r].row = Erased(request[r].row)
        /\ request'[r].burn = request[r].burn \cup codes
    BY <1>2, <1>4 DEF Grants, Writes
  <2>2. Cleared(factor) \in Factor
    BY ClearedType, TypeParts
  <2>3. CASE \E step \in Window(r) : /\ step > factor.last
                                     /\ request[r].row = [Cleared(factor) EXCEPT !.last = step]
    BY <1>2, <1>3, <2>1, <2>2, <2>3, RowUpdates DEF ErasedRow
  <2>4. CASE \E c \in codes : request[r].burn = {c} /\ request[r].row = Cleared(factor)
    BY <1>2, <1>3, <2>1, <2>4 DEF ErasedRow
  <2>. QED  BY <1>2, <1>4, <2>3, <2>4 DEF Earned, GrantedRow
<1>5. CASE Revokes(r) /\ request[r].at = "revoke"
  BY <1>2, <1>3, <1>5 DEF Earned, Revokes, ErasedRow
<1>. QED  BY <1>1, <1>4, <1>5

LEMMA EarnedMoves ==
  ASSUME TypeOK, OpAtPlace, NothingWritten, FactorCurrent, HeldFactor, UnconfirmedUnused,
         BeganSince, TakenLast, NEW r \in Request, Earned(r), Moves(r), UNCHANGED rows
  PROVE  Earned(r)'
<1>1. HoldsFactor(r)' => CouldAsk(r)'
  <2>1. CASE HoldsFactor(r) /\ Keeps(r)
    BY <2>1 DEF Earned, CouldAsk, Keeps, rows
  <2>2. HoldsFactor(r) /\ HoldsFactor(r)' => Keeps(r)
    BY DEF Moves, Arrives, Passes, Revokes, Reads, Grants, HoldsFactor
  <2>3. CASE Usable(request[r]) /\ Keeps(r)
    BY <2>3 DEF Usable, CouldAsk, Keeps, rows
  <2>. QED  BY <2>1, <2>2, <2>3, HolderMoves
<1>. QED  BY <1>1, GrantedEarned, ConfirmEarned, EraseEarned DEF Earned

(* An enrolment replaces the seed, and forgives what it had read. *)
Enrols(r) ==
  /\ request[r].at = "seed"
  /\ factor'.seed \in Seed \ {factor.seed}
  /\ factor'.confirmed = factor.confirmed /\ factor'.lockedUntil = factor.lockedUntil
  /\ factor'.penalty = factor.penalty
  /\ factor'.last = factor.last
  /\ factor'.failures \in {factor.failures, 0}

LEMMA EnrolWrites ==
  ASSUME TypeOK, FactorThere, UnconfirmedUnused, NEW r \in Request,
         EnrollInsert(r) \/ EnrollUpdate(r)
  PROVE  factor' = factor \/ Enrols(r)
<1>1. CASE EnrollInsert(r) /\ ~factor.exists
  <2>1. factor = NoFactor
    BY <1>1 DEF FactorThere
  <2>2. PICK k \in Seed : factor' = [NoFactor EXCEPT !.exists = TRUE, !.seed = k]
    BY <1>1 DEF EnrollInsert
  <2>3. factor.seed = NoSeed /\ NoSeed \notin Seed
    BY <2>1, AccountsAssumption DEF NoFactor
  <2>. QED  BY <1>1, <2>1, <2>2, <2>3 DEF EnrollInsert, Enrols, NoFactor
<1>2. CASE EnrollUpdate(r)
  <2>0. request[r].row.last = NoStep
    BY <1>2 DEF EnrollUpdate, UnconfirmedUnused
  <2>1. PICK k \in Seed \ {factor.seed}, failures \in {0, factor.failures} :
          factor' = [factor EXCEPT !.seed = k, !.last = factor.last, !.failures = failures]
    BY <1>2, <2>0, Zenon DEF EnrollUpdate
  <2>2. factor \in Factor
    BY TypeParts
  <2>. QED  BY <1>2, <2>1, <2>2 DEF EnrollUpdate, Enrols, Factor
<1>. QED  BY <1>1, <1>2 DEF EnrollInsert

LEMMA FactorWrites ==
  ASSUME TypeOK, FactorThere, UnconfirmedUnused, NEW r \in Request, Commits(r)
  PROVE  \/ factor' = factor
         \/ Enrols(r)
         \/ /\ request[r].at = "spend" /\ HoldsFactor(r)
            /\ factor' = CountMiss(request[r].row, request[r].began)
         \/ /\ HoldsFactor(r) /\ factor' = request[r].row
            /\ \/ request[r].at = "granted" /\ request[r].op = "verify"
               \/ request[r].at = "revoke" /\ request[r].op = "confirm"
               \/ RevokedAll(r, "disable")
<1>1. CASE EnrollInsert(r) \/ EnrollUpdate(r)
  BY <1>1, EnrolWrites
<1>2. CASE LoginCount(r) \/ LoginAdmit(r) \/ Logout(r) \/ ChangeCommit(r) \/ RegenerateCommit(r)
  BY <1>2 DEF LoginCount, LoginAdmit, Logout, ChangeCommit, RegenerateCommit
<1>3. CASE RejectCode(r)
  BY <1>3 DEF RejectCode, HoldsFactor
<1>4. CASE StepUp(r) \/ CompleteLogin(r)
  BY <1>4 DEF StepUp, CompleteLogin, HoldsFactor
<1>5. CASE ConfirmCommit(r) \/ DisableCommit(r)
  BY <1>5 DEF ConfirmCommit, DisableCommit, RevokedAll, HoldsFactor
<1>. QED  BY <1>1, <1>2, <1>3, <1>4, <1>5 DEF Commits

LEMMA MissWrites ==
  ASSUME NEW row \in Factor, NEW began \in Nat,
         row.penalty \in MfaLockoutBase .. MfaLockoutCap
  PROVE  LET miss == CountMiss(row, began) IN
         /\ miss.seed = row.seed /\ miss.confirmed = row.confirmed /\ miss.last = row.last
         /\ miss.penalty \in MfaLockoutBase .. MfaLockoutCap
         /\ \/ /\ row.failures + 1 < MfaThreshold
               /\ miss.failures = row.failures + 1
               /\ miss.lockedUntil = row.lockedUntil
            \/ /\ row.failures + 1 >= MfaThreshold /\ miss.failures = 0
               /\ miss.lockedUntil
                    \in (began + MfaLockoutBase) .. (began + MfaLockoutCap)
<1>0. row.failures \in Nat /\ MfaThreshold \in Nat
  BY AccountsAssumption, FactorFields
<1>1. CASE row.failures + 1 < MfaThreshold
  <2>1. CountMiss(row, began) = [row EXCEPT !.failures = @ + 1]
    BY <1>1 DEF CountMiss
  <2>. QED  BY <1>1, <2>1 DEF Factor
<1>2. CASE ~(row.failures + 1 < MfaThreshold)
  <2>. DEFINE penalty == Least(2 * row.penalty, MfaLockoutCap)
              end == began + row.penalty
  <2>1. CountMiss(row, began)
          = [row EXCEPT !.failures = 0, !.lockedUntil = end, !.penalty = penalty]
    BY <1>2 DEF CountMiss
  <2>2. penalty \in MfaLockoutBase .. MfaLockoutCap
    BY AccountsAssumption DEF Least
  <2>3. end \in (began + MfaLockoutBase) .. (began + MfaLockoutCap)
    BY AccountsAssumption
  <2>4. row.failures + 1 >= MfaThreshold
    BY <1>0, <1>2
  <2>. HIDE DEF penalty, end
  <2>. QED  BY <2>1, <2>2, <2>3, <2>4 DEF Factor
<1>. QED  BY <1>1, <1>2

(* What a holder writes when it commits. *)
LEMMA HolderWrites ==
  ASSUME TypeOK, NEW r \in Request, Earned(r), HoldsFactor(r)
  PROVE  /\ request[r].at = "granted" =>
              /\ request[r].row.seed = factor.seed
              /\ request[r].row.confirmed = factor.confirmed
              /\ request[r].row.failures = 0 /\ request[r].row.lockedUntil = NoTime
              /\ request[r].row.penalty = MfaLockoutBase
              /\ \/ /\ request[r].burn = {}
                    /\ \E step \in Window(r) : /\ step > factor.last
                                               /\ request[r].row.last = step
                 \/ \E c \in codes : /\ request[r].burn = {c}
                                     /\ request[r].row.last = factor.last
         /\ request[r].at = "revoke" /\ request[r].op = "confirm" =>
              /\ request[r].row.seed = factor.seed /\ request[r].row.confirmed = TRUE
              /\ request[r].row.failures = 0 /\ request[r].row.lockedUntil = NoTime
              /\ request[r].row.penalty = MfaLockoutBase
              /\ \E step \in Window(r) : step > factor.last /\ request[r].row.last = step
         /\ request[r].at = "revoke" /\ request[r].op = "disable" =>
              /\ request[r].row.seed = NoSeed /\ request[r].row.confirmed = FALSE
              /\ request[r].row.failures = 0 /\ request[r].row.lockedUntil = NoTime
              /\ request[r].row.penalty = MfaLockoutBase
              /\ request[r].row.last = NoStep
<1>. DEFINE cleared == Cleared(factor)
<1>0. factor \in Factor
  BY TypeParts
<1>1. /\ cleared \in Factor /\ cleared.seed = factor.seed
      /\ cleared.confirmed = factor.confirmed /\ cleared.last = factor.last
      /\ cleared.failures = 0 /\ cleared.lockedUntil = NoTime
      /\ cleared.penalty = MfaLockoutBase
  BY <1>0, ClearedType DEF Cleared, Factor
<1>. HIDE DEF cleared
<1>2. \A step : LET row == [cleared EXCEPT !.last = step] IN
        /\ row.seed = factor.seed /\ row.confirmed = factor.confirmed /\ row.last = step
        /\ row.failures = 0 /\ row.lockedUntil = NoTime /\ row.penalty = MfaLockoutBase
  BY <1>1 DEF Factor
<1>3. \A step : LET row == [cleared EXCEPT !.last = step, !.confirmed = TRUE] IN
        /\ row.seed = factor.seed /\ row.confirmed = TRUE /\ row.last = step
        /\ row.failures = 0 /\ row.lockedUntil = NoTime /\ row.penalty = MfaLockoutBase
  BY <1>1 DEF Factor
<1>4. /\ Erased(cleared).seed = NoSeed /\ Erased(cleared).confirmed = FALSE
      /\ Erased(cleared).last = NoStep /\ Erased(cleared).failures = 0
      /\ Erased(cleared).lockedUntil = NoTime /\ Erased(cleared).penalty = MfaLockoutBase
  BY <1>1 DEF Factor, Erased
<1>5. ASSUME request[r].at = "granted"
      PROVE  \/ /\ request[r].burn = {}
                /\ \E step \in Window(r) : step > factor.last
                                           /\ request[r].row = [cleared EXCEPT !.last = step]
             \/ \E c \in codes : request[r].burn = {c} /\ request[r].row = cleared
  BY <1>5 DEF Earned, GrantedRow, cleared
<1>6. ASSUME request[r].at = "revoke", request[r].op = "confirm"
      PROVE  \E step \in Window(r) :
               /\ step > factor.last
               /\ request[r].row = [cleared EXCEPT !.last = step, !.confirmed = TRUE]
  BY <1>6 DEF Earned, ConfirmedRow, cleared
<1>7. ASSUME request[r].at = "revoke", request[r].op = "disable"
      PROVE  request[r].row = Erased(cleared)
  BY <1>7 DEF Earned, ErasedRow, cleared
<1>8. ASSUME request[r].at = "granted"
      PROVE  /\ request[r].row.seed = factor.seed
             /\ request[r].row.confirmed = factor.confirmed
             /\ request[r].row.failures = 0 /\ request[r].row.lockedUntil = NoTime
             /\ request[r].row.penalty = MfaLockoutBase
             /\ \/ /\ request[r].burn = {}
                   /\ \E step \in Window(r) : /\ step > factor.last
                                              /\ request[r].row.last = step
                \/ \E c \in codes : /\ request[r].burn = {c}
                                    /\ request[r].row.last = factor.last
  <2>1. CASE \E c \in codes : request[r].burn = {c} /\ request[r].row = cleared
    BY <1>1, <2>1
  <2>2. ASSUME request[r].burn = {},
               NEW step \in Window(r), step > factor.last,
               request[r].row = [cleared EXCEPT !.last = step]
        PROVE  /\ request[r].row.seed = factor.seed
               /\ request[r].row.confirmed = factor.confirmed
               /\ request[r].row.failures = 0 /\ request[r].row.lockedUntil = NoTime
               /\ request[r].row.penalty = MfaLockoutBase
               /\ request[r].row.last = step
    BY <1>2, <2>2
  <2>. QED  BY <1>5, <1>8, <2>1, <2>2
<1>9. ASSUME request[r].at = "revoke", request[r].op = "confirm"
      PROVE  /\ request[r].row.seed = factor.seed /\ request[r].row.confirmed = TRUE
             /\ request[r].row.failures = 0 /\ request[r].row.lockedUntil = NoTime
             /\ request[r].row.penalty = MfaLockoutBase
             /\ \E step \in Window(r) : step > factor.last /\ request[r].row.last = step
  <2>1. PICK step \in Window(r) :
          /\ step > factor.last
          /\ request[r].row = [cleared EXCEPT !.last = step, !.confirmed = TRUE]
    BY <1>6, <1>9
  <2>. QED  BY <1>3, <2>1
<1>. QED  BY <1>4, <1>7, <1>8, <1>9

LEMMA FactorBounded ==
  ASSUME TypeOK, FactorThere, FactorCurrent, PenaltyBounded, UnconfirmedUnused,
         NEW r \in Request, Earned(r), Commits(r), Alone(r)
  PROVE  PenaltyBounded' /\ UnconfirmedUnused'
<1>1. factor \in Factor /\ MfaLockoutBase \in MfaLockoutBase .. MfaLockoutCap
  BY AccountsAssumption, TypeParts
<1>2. \A other \in Request : request'[other].at = "seed" => request'[other].row.last = NoStep
  BY CommitIdle DEF Alone, UnconfirmedUnused
<1>3. CASE factor' = factor \/ Enrols(r)
  BY <1>2, <1>3 DEF Enrols, PenaltyBounded, UnconfirmedUnused
<1>4. CASE /\ request[r].at = "spend"
           /\ factor' = CountMiss(request[r].row, request[r].began)
  <2>1. request[r].row = factor /\ request[r].began \in Nat
    BY <1>4, OpType DEF FactorCurrent, OnSessionPlace
  <2>. QED  BY <1>1, <1>2, <1>4, <2>1, MissWrites DEF PenaltyBounded, UnconfirmedUnused
<1>5. ASSUME HoldsFactor(r), factor' = request[r].row,
             \/ request[r].at = "granted" /\ request[r].op = "verify"
             \/ request[r].at = "revoke" /\ request[r].op = "confirm"
             \/ RevokedAll(r, "disable")
      PROVE  PenaltyBounded' /\ UnconfirmedUnused'
  <2>1. request[r].op = "verify" => factor.confirmed # FALSE
    BY <1>5 DEF Earned, CouldAsk
  <2>. QED  BY <1>1, <1>2, <1>5, <2>1, HolderWrites
            DEF PenaltyBounded, UnconfirmedUnused, RevokedAll
<1>. QED  BY <1>3, <1>4, <1>5, FactorWrites

LEMMA EarnedKept ==
  ASSUME TypeOK, FactorAlone, FactorThere, NEW r \in Request, Commits(r), Alone(r),
         NEW other \in Request \ {r}, Earned(other)
  PROVE  Earned(other)'
<1>1. request'[other] = request[other]
  BY DEF Alone
<1>2. CASE ~HoldsFactor(other)
  BY <1>1, <1>2 DEF Earned, HoldsFactor
<1>3. CASE HoldsFactor(other)
  <2>1. factor' = factor /\ ~HoldsFactor(r)
    BY <1>3, FactorSteady DEF FactorAlone
  <2>2. ASSUME NEW c \in codes, c \in request[other].burn,
               request[other].at \in {"granted", "revoke"}
        PROVE  c \in codes'
    <3>1. ~Free(r, c)
      BY <2>2 DEF Free, Holds
    <3>. QED  BY <2>1, <2>2, <3>1, CodeCommits
  <2>3. Cleared(factor)' = Cleared(factor) /\ Window(other)' = Window(other)
    BY <1>1, <2>1 DEF Cleared, Window
  <2>4. CouldAsk(other) => CouldAsk(other)'
    BY <1>1, <2>1 DEF CouldAsk
  <2>5. request[other].at = "granted" /\ GrantedRow(other) => GrantedRow(other)'
    BY <1>1, <2>1, <2>2, <2>3 DEF GrantedRow
  <2>6. ConfirmedRow(other) => ConfirmedRow(other)'
    BY <1>1, <2>1, <2>3 DEF ConfirmedRow
  <2>7. request[other].at = "revoke" /\ ErasedRow(other) => ErasedRow(other)'
    <3>1. Erased(Cleared(factor))' = Erased(Cleared(factor))
      BY <2>3 DEF Erased
    <3>. QED  BY <1>1, <2>1, <2>2, <2>3, <3>1 DEF ErasedRow
  <2>. QED  BY <1>1, <1>3, <2>4, <2>5, <2>6, <2>7 DEF Earned, HoldsFactor
<1>. QED  BY <1>2, <1>3

LEMMA SeedReadsKept ==
  ASSUME TypeOK, UnconfirmedUnused, NEW r \in Request, Moves(r), Alone(r), UNCHANGED rows
  PROVE  UnconfirmedUnused'
<1>1. ASSUME request'[r].at = "seed" PROVE request'[r].row.last = NoStep
  <2>1. ~Arrives(r) /\ ~Passes(r) /\ ~Revokes(r) /\ ~Grants(r)
    BY <1>1 DEF Arrives, Passes, Revokes, Grants, Authenticated, Resolved
  <2>2. request'[r].row = factor /\ ~factor.confirmed
    BY <1>1, <2>1 DEF Moves, Reads
  <2>3. factor.confirmed = FALSE
    BY <2>2, TypeParts, FactorFields
  <2>. QED  BY <2>2, <2>3 DEF UnconfirmedUnused
<1>. QED  BY <1>1 DEF UnconfirmedUnused, Alone, rows

LEMMA EarnedHolds ==
  ASSUME AccountInv, EarnedInv, [Next]_vars
  PROVE  EarnedInv'
<1>0. TakenLast' /\ BeganSince'
  BY TakenLastHolds, BeganSinceHolds DEF AccountInv, EarnedInv
<1>1. CASE UNCHANGED vars \/ Tick
  <2>1. UNCHANGED <<factor, codes, request>>
    BY <1>1 DEF vars, rows, Tick
  <2>2. PenaltyBounded' /\ UnconfirmedUnused'
    BY <2>1 DEF EarnedInv, PenaltyBounded, UnconfirmedUnused
  <2>3. ASSUME NEW r \in Request PROVE Earned(r)'
    <3>1. Earned(r)
      BY DEF EarnedInv
    <3>. QED  BY <2>1, <3>1 DEF Earned, HoldsFactor, CouldAsk, GrantedRow, ConfirmedRow,
                                ErasedRow, Window, Cleared, Erased
  <2>. QED  BY <1>0, <2>2, <2>3 DEF EarnedInv
<1>2. ASSUME NEW r \in Request, Moves(r), Alone(r), UNCHANGED rows PROVE EarnedInv'
  <2>1. PenaltyBounded' /\ UnconfirmedUnused'
    BY <1>2, SeedReadsKept DEF AccountInv, EarnedInv, rows, PenaltyBounded
  <2>2. Earned(r)'
    BY <1>2, EarnedMoves DEF AccountInv, EarnedInv
  <2>3. ASSUME NEW other \in Request \ {r} PROVE Earned(other)'
    <3>1. Earned(other) /\ UNCHANGED <<factor, codes>> /\ request'[other] = request[other]
      BY <1>2 DEF EarnedInv, rows, Alone
    <3>. QED  BY <3>1 DEF Earned, HoldsFactor, CouldAsk, GrantedRow, ConfirmedRow,
                          ErasedRow, Window, Cleared, Erased
  <2>. QED  BY <1>0, <2>1, <2>2, <2>3 DEF EarnedInv
<1>3. ASSUME NEW r \in Request, Commits(r), Alone(r) PROVE EarnedInv'
  <2>1. PenaltyBounded' /\ UnconfirmedUnused'
    BY <1>3, FactorBounded DEF AccountInv, EarnedInv
  <2>2. Earned(r)'
    BY <1>3, CommitIdle DEF Earned
  <2>3. ASSUME NEW other \in Request \ {r} PROVE Earned(other)'
    BY <1>3, EarnedKept DEF AccountInv, EarnedInv
  <2>. QED  BY <1>0, <2>1, <2>2, <2>3 DEF EarnedInv
<1>. QED  BY <1>1, <1>2, <1>3, NextStep DEF AccountInv

LEMMA InitEarned == Init => EarnedInv
<1>. SUFFICES ASSUME Init PROVE EarnedInv
  OBVIOUS
<1>1. \A r \in Request : request[r].at = "idle"
  BY DEF Init, Idle
<1>2. TakenLast /\ BeganSince
  BY <1>1 DEF TakenLast, BeganSince
<1>3. \A r \in Request : Earned(r)
  BY <1>1 DEF Earned, HoldsFactor
<1>4. /\ factor.penalty = MfaLockoutBase
      /\ factor.confirmed = FALSE => factor.last = NoStep
  <2>1. NoFactor.penalty = MfaLockoutBase /\ NoFactor.last = NoStep
    BY DEF NoFactor
  <2>2. CASE factor = NoFactor
    BY <2>1, <2>2
  <2>3. ASSUME NEW k \in Seed, factor = [NoFactor EXCEPT
                 !.exists = TRUE, !.seed = k, !.confirmed = TRUE, !.last = 0]
        PROVE  factor.penalty = MfaLockoutBase /\ factor.confirmed = TRUE
    BY <2>3 DEF NoFactor
  <2>. QED  BY <2>2, <2>3 DEF Init
<1>5. PenaltyBounded /\ UnconfirmedUnused
  BY <1>1, <1>4, AccountsAssumption DEF PenaltyBounded, UnconfirmedUnused
<1>. QED  BY <1>2, <1>3, <1>5 DEF EarnedInv

(***************************************************************************)
(* What a request was granted on stays good until it commits: the step is  *)
(* later than any that was accepted, and the recovery code is live.        *)
(***************************************************************************)
THEOREM GrantsStayGood == Spec => []EarnedInv
<1>1. ASSUME AccountInv, EarnedInv, [Next]_vars PROVE EarnedInv'
  BY <1>1, EarnedHolds
<1>. QED  BY <1>1, InitEarned, AccountInvariant, PTL DEF Spec

-----------------------------------------------------------------------------
(* The abstract second factor *)

(* A code is asked for at a time of the past outside of every lockout. *)
LEMMA HolderAsks ==
  ASSUME AccountInv, EarnedInv, NEW r \in Request, HoldsFactor(r)
  PROVE  /\ OneAtATime!Asked(request[r].began) /\ request[r].began \in 1 .. now
         /\ factor.confirmed <=> request[r].op # "confirm"
<1>1. request[r].at # "idle" /\ request[r].at \in OnSessionPlace
  BY DEF HoldsFactor, OnSessionPlace
<1>2. /\ request[r].began \in Nat /\ request[r].began <= now
      /\ request[r].began >= 1 /\ now \in Nat
  BY <1>1, OpType, TypeParts, AccountsAssumption
     DEF AccountInv, EarnedInv, BeganBefore, BeganSince
<1>3. factor.lockedUntil <= request[r].began
  BY DEF AccountInv, HeldFactor
<1>4. CouldAsk(r)
  BY DEF EarnedInv, Earned
<1>. QED  BY <1>2, <1>3, <1>4 DEF CouldAsk, OneAtATime!Asked

LEMMA MissImplements ==
  ASSUME AccountInv, EarnedInv, NEW r \in Request, RejectCode(r)
  PROVE  OneAtATime!Miss(request[r].began)
<1>0. HoldsFactor(r) /\ request[r].at \in OnSessionPlace
  BY DEF RejectCode, HoldsFactor, OnSessionPlace
<1>1. request[r].row = factor /\ request[r].began \in Nat
  BY <1>0, OpType DEF AccountInv, FactorCurrent, RejectCode
<1>2. OneAtATime!Asked(request[r].began)
  BY <1>0, HolderAsks
<1>3. factor \in Factor /\ factor.penalty \in MfaLockoutBase .. MfaLockoutCap
  BY TypeParts DEF AccountInv, EarnedInv, PenaltyBounded
<1>4. factor' = CountMiss(factor, request[r].began)
  BY <1>1 DEF RejectCode
<1>5. /\ factor'.seed = factor.seed /\ factor'.confirmed = factor.confirmed
      /\ factor'.last = factor.last
      /\ \/ /\ factor.failures + 1 < MfaThreshold
            /\ factor'.failures = factor.failures + 1
            /\ factor'.lockedUntil = factor.lockedUntil
         \/ /\ factor.failures + 1 >= MfaThreshold /\ factor'.failures = 0
            /\ factor'.lockedUntil \in (request[r].began + MfaLockoutBase)
                                          .. (request[r].began + MfaLockoutCap)
  BY <1>1, <1>3, <1>4, MissWrites
<1>6. now' = now /\ codes' = codes /\ Assured' = Assured
  BY DEF RejectCode, Assured, Live
<1>. QED  BY <1>2, <1>5, <1>6 DEF OneAtATime!Miss

LEMMA EnrolImplements ==
  ASSUME AccountInv, EarnedInv, NEW r \in Request, EnrollInsert(r) \/ EnrollUpdate(r)
  PROVE  OneAtATime!Enrol \/ UNCHANGED OneAtATime!vars
<1>1. now' = now /\ codes' = codes /\ Assured' = Assured
  BY DEF EnrollInsert, EnrollUpdate, Assured, Live
<1>2. CASE factor' = factor
  BY <1>1, <1>2 DEF OneAtATime!vars, OneAtATime!row
<1>3. CASE Enrols(r)
  BY <1>1, <1>3 DEF Enrols, OneAtATime!Enrol
<1>. QED  BY <1>2, <1>3, EnrolWrites DEF AccountInv, EarnedInv

(* Whoever is assured by no code has lost something at most. *)
LEMMA AssuredCommits ==
  ASSUME AccountInv, NEW r \in Request, Commits(r), request[r].at # "granted",
         ~RevokedAll(r, "confirm")
  PROVE  Assured' \subseteq Assured
<1>1. ASSUME NEW s \in Assured' PROVE s \in Assured
  <2>1. s \in Session /\ session'[s].status = "live" /\ session'[s].assured
    BY <1>1 DEF Assured, Live
  <2>2. ~(request[r].at = "revoke" /\ request[r].op = "confirm")
    BY DEF Commits, RevokedAll, LoginCount, LoginAdmit, Logout, ChangeCommit,
           EnrollInsert, EnrollUpdate, RejectCode, StepUp, CompleteLogin,
           ConfirmCommit, DisableCommit, RegenerateCommit
  <2>. QED  BY <2>1, <2>2, SessionCommits DEF AccountInv, Assured, Live
<1>. QED  BY <1>1

LEMMA LeaveImplements ==
  ASSUME AccountInv, NEW r \in Request,
         LoginCount(r) \/ LoginAdmit(r) \/ Logout(r) \/ ChangeCommit(r), request'[r] = Idle
  PROVE  OneAtATime!Leave
<1>1. Commits(r) /\ request[r].at # "granted" /\ ~RevokedAll(r, "confirm")
  BY DEF Commits, LoginCount, LoginAdmit, Logout, ChangeCommit, RevokedAll
<1>2. Assured' \subseteq Assured
  BY <1>1, AssuredCommits
<1>3. now' = now /\ factor' = factor /\ codes' = codes
  BY DEF LoginCount, LoginAdmit, Logout, ChangeCommit
<1>. QED  BY <1>2, <1>3 DEF OneAtATime!Leave, OneAtATime!row

LEMMA RegenerateImplements ==
  ASSUME NEW r \in Request, RegenerateCommit(r)
  PROVE  OneAtATime!Regenerate
<1>1. now' = now /\ factor' = factor /\ Assured' = Assured
  BY DEF RegenerateCommit, Assured, Live
<1>2. PICK c \in CodeSet \ codes : codes' = (codes \ request[r].burn) \cup {c}
  BY DEF RegenerateCommit
<1>3. c \in codes' /\ codes' \ {c} \subseteq codes
  BY <1>2
<1>. QED  BY <1>1, <1>3 DEF OneAtATime!Regenerate, OneAtATime!row

LEMMA RotateAssures ==
  ASSUME TypeOK, NEW r \in Request, Rotate(r, TRUE)
  PROVE  \E s \in Session : s \in Assured' /\ Assured' \ {s} \subseteq Assured
<1>. DEFINE rotated == Revoked(request[r].taken \cup {request[r].session})
<1>1. PICK s \in Session : session' = [rotated EXCEPT ![s] = Opened(TRUE)]
  BY DEF Rotate
<1>2. rotated \in [Session -> SessionRow]
  BY SessionTypes, TypeParts
<1>3. \A other \in Session :
        rotated[other].status = "live" => rotated[other] = session[other]
  BY DEF Revoked
<1>. HIDE DEF rotated
<1>4. s \in Assured'
  BY <1>1, <1>2 DEF Assured, Live, Opened
<1>5. ASSUME NEW other \in Assured' \ {s} PROVE other \in Assured
  <2>1. other \in Session /\ session'[other] = rotated[other]
    BY <1>1, <1>2, <1>5 DEF Assured, Live
  <2>2. session'[other].status = "live" /\ session'[other].assured
    BY <1>5 DEF Assured, Live
  <2>. QED  BY <1>3, <2>1, <2>2 DEF Assured, Live
<1>. QED  BY <1>4, <1>5

LEMMA StampAssures ==
  ASSUME TypeOK, NEW r \in Request, Stampable(r),
         session' = [session EXCEPT ![request[r].session].assured = TRUE]
  PROVE  \E s \in Session : s \in Assured' /\ Assured' \ {s} \subseteq Assured
<1>. DEFINE s == request[r].session
<1>1. s \in Session /\ session \in [Session -> SessionRow] /\ session[s].status = "live"
  BY TypeParts DEF Stampable, Live
<1>2. s \in Assured'
  BY <1>1 DEF Assured, Live, SessionRow
<1>3. Assured' \ {s} \subseteq Assured
  BY <1>1 DEF Assured, Live
<1>. HIDE DEF s
<1>. QED  BY <1>1, <1>2, <1>3

LEMMA VerifyImplements ==
  ASSUME AccountInv, EarnedInv, NEW r \in Request, StepUp(r) \/ CompleteLogin(r)
  PROVE  OneAtATime!Verify(request[r].began) \/ UNCHANGED OneAtATime!vars
<1>0. /\ request[r].at = "granted" /\ request[r].op = "verify" /\ HoldsFactor(r)
      /\ now' = now
  BY DEF StepUp, CompleteLogin, HoldsFactor
<1>1. CASE UNCHANGED <<session, factor, codes>>
  BY <1>0, <1>1 DEF OneAtATime!vars, OneAtATime!row, Assured, Live
<1>2. CASE /\ factor' = request[r].row /\ codes' = codes \ request[r].burn
           /\ \E s \in Session : s \in Assured' /\ Assured' \ {s} \subseteq Assured
  <2>1. OneAtATime!Asked(request[r].began) /\ factor.confirmed
    BY <1>0, HolderAsks
  <2>2. factor.confirmed = TRUE
    BY <2>1, TypeParts, FactorFields DEF AccountInv
  <2>3. /\ factor'.seed = factor.seed /\ factor'.confirmed = factor.confirmed
        /\ factor'.failures = 0 /\ factor'.lockedUntil = NoTime
        /\ \/ /\ request[r].burn = {}
              /\ \E step \in Window(r) : step > factor.last /\ factor'.last = step
           \/ \E c \in codes : request[r].burn = {c} /\ factor'.last = factor.last
    BY <1>0, <1>2, HolderWrites DEF AccountInv, EarnedInv
  <2>4. \/ \E step \in Window(r) :
             OneAtATime!Fresh(step) /\ factor'.last = step /\ codes' = codes
        \/ \E c \in codes : factor'.last = factor.last /\ codes' = codes \ {c}
    BY <1>2, <2>3 DEF OneAtATime!Fresh
  <2>. QED  BY <1>0, <1>2, <2>1, <2>2, <2>3, <2>4
            DEF OneAtATime!Verify, OneAtATime!Forgiven, OneAtATime!NoTime, NoTime, Window
<1>3. StepUp(r) /\ Stampable(r) /\ ~(UNCHANGED <<session, factor, codes>>) =>
        \E s \in Session : s \in Assured' /\ Assured' \ {s} \subseteq Assured
  BY StampAssures DEF StepUp, AccountInv
<1>4. CompleteLogin(r) => \E s \in Session : s \in Assured' /\ Assured' \ {s} \subseteq Assured
  BY RotateAssures DEF CompleteLogin, AccountInv
<1>. QED  BY <1>1, <1>2, <1>3, <1>4 DEF StepUp, CompleteLogin

LEMMA ConfirmImplements ==
  ASSUME AccountInv, EarnedInv, NEW r \in Request, ConfirmCommit(r)
  PROVE  OneAtATime!Confirm(request[r].began)
<1>0. /\ request[r].at = "revoke" /\ request[r].op = "confirm" /\ HoldsFactor(r)
      /\ factor' = request[r].row /\ now' = now
  BY DEF ConfirmCommit, RevokedAll, HoldsFactor
<1>1. OneAtATime!Asked(request[r].began) /\ factor.confirmed = FALSE
  BY <1>0, HolderAsks, TypeParts, FactorFields DEF AccountInv
<1>2. Assured = {}
  BY <1>1 DEF AccountInv, AssuranceNeedsFactor, Assured
<1>3. /\ factor'.seed = factor.seed /\ factor'.confirmed = TRUE
      /\ factor'.failures = 0 /\ factor'.lockedUntil = NoTime
      /\ \E step \in Window(r) : step > factor.last /\ factor'.last = step
  BY <1>0, HolderWrites DEF AccountInv, EarnedInv
<1>4. Assured' = {request[r].session} /\ request[r].session \in Session
  <2>. DEFINE s == request[r].session
              revoked == Revoked(request[r].taken)
  <2>1. /\ s \in Live /\ s \notin request[r].taken
        /\ session' = [revoked EXCEPT ![s].assured = TRUE]
    BY <1>0 DEF AccountInv, EarnedInv, StampedLives, Earned, ConfirmedRow, ConfirmCommit
  <2>2. revoked \in [Session -> SessionRow]
    BY SessionTypes, TypeParts DEF AccountInv
  <2>3. s \in Session /\ revoked[s].status = "live"
    BY <2>1 DEF Revoked, Live
  <2>4. \A other \in Session :
          revoked[other].status = "live" => revoked[other] = session[other]
    BY DEF Revoked
  <2>. HIDE DEF s, revoked
  <2>5. s \in Assured'
    BY <2>1, <2>2, <2>3 DEF Assured, Live, SessionRow
  <2>6. ASSUME NEW other \in Assured', other # s PROVE FALSE
    <3>1. /\ other \in Session /\ session'[other].status = "live"
          /\ session'[other].assured
      BY <2>6 DEF Assured, Live
    <3>2. session'[other] = revoked[other]
      BY <2>1, <2>2, <2>6, <3>1
    <3>. QED  BY <1>2, <2>4, <3>1, <3>2 DEF Assured, Live
  <2>7. Assured' = {s}
    BY <2>5, <2>6
  <2>. QED  BY <2>3, <2>7 DEF s
<1>5. \E c \in CodeSet \ codes : codes' = {c}
  BY DEF ConfirmCommit
<1>. QED  BY <1>0, <1>1, <1>2, <1>3, <1>4, <1>5
          DEF OneAtATime!Confirm, OneAtATime!Forgiven, OneAtATime!Fresh,
              OneAtATime!NoTime, NoTime, Window

LEMMA DisableImplements ==
  ASSUME AccountInv, EarnedInv, NEW r \in Request, DisableCommit(r), AssuranceNeedsFactor'
  PROVE  OneAtATime!Disable(request[r].began)
<1>0. /\ request[r].at = "revoke" /\ request[r].op = "disable" /\ HoldsFactor(r)
      /\ factor' = request[r].row /\ codes' = codes \ request[r].burn /\ now' = now
  BY DEF DisableCommit, RevokedAll, HoldsFactor
<1>1. OneAtATime!Asked(request[r].began) /\ factor.confirmed = TRUE
  BY <1>0, HolderAsks, TypeParts, FactorFields DEF AccountInv
<1>2. /\ factor'.seed = NoSeed /\ factor'.confirmed = FALSE /\ factor'.last = NoStep
      /\ factor'.failures = 0 /\ factor'.lockedUntil = NoTime
  BY <1>0, HolderWrites DEF AccountInv, EarnedInv
<1>3. Assured' = {}
  BY <1>2 DEF AssuranceNeedsFactor, Assured
<1>4. \/ \E step \in Window(r) : step > factor.last
      \/ request[r].burn \cap codes # {}
  BY <1>0 DEF EarnedInv, Earned, ErasedRow
<1>5. \/ (\E step \in Window(r) : OneAtATime!Fresh(step)) /\ codes' \subseteq codes
      \/ \E c \in codes : codes' \subseteq codes \ {c}
  BY <1>0, <1>4 DEF OneAtATime!Fresh
<1>. QED  BY <1>0, <1>1, <1>2, <1>3, <1>5
          DEF OneAtATime!Disable, OneAtATime!Forgiven, OneAtATime!NoTime, NoTime,
              OneAtATime!NoStep, NoStep, Window

LEMMA CommitImplements ==
  ASSUME AccountInv, EarnedInv, AssuranceNeedsFactor', NEW r \in Request, Commits(r)
  PROVE  [OneAtATime!Next]_OneAtATime!vars
<1>0. HoldsFactor(r) => request[r].began \in 1 .. now
  BY HolderAsks
<1>1. CASE LoginCount(r) \/ LoginAdmit(r) \/ Logout(r) \/ ChangeCommit(r)
  <2>1. OneAtATime!Leave
    BY <1>1, LeaveImplements DEF Commits
  <2>. QED  BY <2>1 DEF OneAtATime!Next
<1>2. CASE EnrollInsert(r) \/ EnrollUpdate(r)
  BY <1>2, EnrolImplements DEF OneAtATime!Next
<1>3. CASE RejectCode(r)
  <2>1. HoldsFactor(r)
    BY <1>3 DEF RejectCode, HoldsFactor
  <2>. QED  BY <1>0, <1>3, <2>1, MissImplements DEF OneAtATime!Next
<1>4. CASE StepUp(r) \/ CompleteLogin(r)
  <2>1. HoldsFactor(r)
    BY <1>4 DEF StepUp, CompleteLogin, HoldsFactor
  <2>. QED  BY <1>0, <1>4, <2>1, VerifyImplements DEF OneAtATime!Next
<1>5. CASE ConfirmCommit(r)
  <2>1. HoldsFactor(r)
    BY <1>5 DEF ConfirmCommit, RevokedAll, HoldsFactor
  <2>. QED  BY <1>0, <1>5, <2>1, ConfirmImplements DEF OneAtATime!Next
<1>6. CASE DisableCommit(r)
  <2>1. HoldsFactor(r)
    BY <1>6 DEF DisableCommit, RevokedAll, HoldsFactor
  <2>. QED  BY <1>0, <1>6, <2>1, DisableImplements DEF OneAtATime!Next
<1>7. CASE RegenerateCommit(r)
  BY <1>7, RegenerateImplements DEF OneAtATime!Next
<1>. QED  BY <1>1, <1>2, <1>3, <1>4, <1>5, <1>6, <1>7 DEF Commits

LEMMA StepImplements ==
  ASSUME AccountInv, EarnedInv, AssuranceNeedsFactor', [Next]_vars
  PROVE  [OneAtATime!Next]_OneAtATime!vars
<1>1. CASE UNCHANGED vars \/ (now' = now /\ UNCHANGED rows)
  <2>1. UNCHANGED <<now, factor, codes, session>>
    BY <1>1 DEF vars, rows
  <2>. QED  BY <2>1 DEF OneAtATime!vars, OneAtATime!row, Assured, Live
<1>2. CASE Tick
  <2>1. now' = now + 1 /\ UNCHANGED <<factor, codes, session>>
    BY <1>2 DEF Tick, rows
  <2>. QED  BY <2>1 DEF OneAtATime!Next, OneAtATime!Tick, OneAtATime!row, Assured, Live
<1>3. ASSUME NEW r \in Request, Commits(r) PROVE [OneAtATime!Next]_OneAtATime!vars
  BY <1>3, CommitImplements
<1>. QED  BY <1>1, <1>2, <1>3, NextStep DEF AccountInv, Alone

LEMMA InitImplements == Init => OneAtATime!Init
<1>. SUFFICES ASSUME Init PROVE OneAtATime!Init
  OBVIOUS
<1>1. PICK live \in SUBSET Session, enrolled \in BOOLEAN :
       /\ session = [s \in Session |-> IF s \in live THEN Opened(enrolled) ELSE Absent]
       /\ IF enrolled
            THEN /\ \E k \in Seed : factor = [NoFactor EXCEPT
                      !.exists = TRUE, !.seed = k, !.confirmed = TRUE, !.last = 0]
                 /\ \E c \in CodeSet : codes = {c}
            ELSE factor = NoFactor /\ codes = {}
  BY Zenon DEF Init
<1>2. now = 1
  BY Zenon DEF Init
<1>3. CASE enrolled
  <2>1. PICK k \in Seed : factor = [NoFactor EXCEPT
            !.exists = TRUE, !.seed = k, !.confirmed = TRUE, !.last = 0]
    BY <1>1, <1>3
  <2>2. /\ factor.seed = k /\ factor.confirmed = TRUE /\ factor.last = 0
        /\ factor.failures = 0 /\ factor.lockedUntil = NoTime
    BY <2>1 DEF NoFactor
  <2>3. Assured \in SUBSET Session
    BY DEF Assured, Live
  <2>. QED  BY <1>1, <1>2, <1>3, <2>2, <2>3 DEF OneAtATime!Init, OneAtATime!NoTime, NoTime
<1>4. CASE ~enrolled
  <2>1. /\ factor.seed = NoSeed /\ factor.confirmed = FALSE /\ factor.last = NoStep
        /\ factor.failures = 0 /\ factor.lockedUntil = NoTime /\ codes = {}
    BY <1>1, <1>4 DEF NoFactor
  <2>2. Assured = {}
    <3>1. \A s \in Session : session[s] \in {Opened(enrolled), Absent}
      BY <1>1
    <3>2. Opened(enrolled).assured = enrolled /\ Absent.status = "absent"
      BY DEF Opened, Absent
    <3>. QED  BY <1>4, <3>1, <3>2 DEF Assured, Live
  <2>. QED  BY <1>2, <2>1, <2>2
            DEF OneAtATime!Init, OneAtATime!NoTime, NoTime, OneAtATime!NoStep, NoStep
<1>. QED  BY <1>3, <1>4

(***************************************************************************)
(* Whatever requests read, wait for and roll back, what they commit is     *)
(* what a second factor does whose codes are presented one at a time.      *)
(***************************************************************************)
THEOREM CodesOneAtATime == Spec => ImplementsSecondFactor
<1>1. AccountInv => AssuranceNeedsFactor
  BY DEF AccountInv
<1>2. ASSUME AccountInv, EarnedInv, AssuranceNeedsFactor', [Next]_vars
      PROVE  [OneAtATime!Next]_OneAtATime!vars
  BY <1>2, StepImplements
<1>. QED  BY <1>1, <1>2, InitImplements, AccountInvariant, GrantsStayGood, PTL
          DEF Spec, ImplementsSecondFactor, OneAtATime!Spec

(***************************************************************************)
(* A session is assured for nothing but a code, outside of every lockout:  *)
(* a step later than the last one that was accepted, or a recovery code    *)
(* that is live and gone with it.                                          *)
(***************************************************************************)
THEOREM AssuranceIsEarned ==
  Spec => [][~(Assured' \subseteq Assured) =>
               /\ factor.lockedUntil <= now
               /\ factor'.last > factor.last \/ \E c \in codes : c \notin codes']_vars
<1>1. ASSUME AccountInv, EarnedInv, NEW r \in Request, Commits(r),
             ~(Assured' \subseteq Assured)
      PROVE  /\ factor.lockedUntil <= now
             /\ factor'.last > factor.last \/ \E c \in codes : c \notin codes'
  <2>0. now \in Nat /\ factor.lockedUntil \in Nat
    BY <1>1, AccountsAssumption, TypeParts, FactorFields DEF AccountInv
  <2>1. StepUp(r) \/ CompleteLogin(r) \/ ConfirmCommit(r)
    BY <1>1, AssuredCommits DEF Commits, LoginCount, LoginAdmit, Logout, ChangeCommit,
       EnrollInsert, EnrollUpdate, RejectCode, DisableCommit, RegenerateCommit, RevokedAll
  <2>2. HoldsFactor(r)
    BY <2>1 DEF StepUp, CompleteLogin, ConfirmCommit, RevokedAll, HoldsFactor
  <2>3. factor.lockedUntil <= now
    BY <2>0, <1>1, <2>2, HolderAsks DEF OneAtATime!Asked
  <2>4. ConfirmCommit(r) => factor'.last > factor.last
    <3>1. OneAtATime!Confirm(request[r].began) =>
            \E step : step > factor.last /\ factor'.last = step
      BY Zenon DEF OneAtATime!Confirm, OneAtATime!Fresh
    <3>. QED  BY <1>1, <3>1, ConfirmImplements
  <2>5. ASSUME StepUp(r) \/ CompleteLogin(r)
        PROVE  factor'.last > factor.last \/ \E c \in codes : c \notin codes'
    <3>1. OneAtATime!Verify(request[r].began)
      BY <1>1, <2>5, VerifyImplements DEF OneAtATime!vars
    <3>2. \/ \E step : step > factor.last /\ factor'.last = step
          \/ \E c \in codes : codes' = codes \ {c}
      BY <3>1, Zenon DEF OneAtATime!Verify, OneAtATime!Fresh
    <3>. QED  BY <3>2
  <2>. QED  BY <2>1, <2>3, <2>4, <2>5
<1>2. ASSUME AccountInv, EarnedInv, [Next]_vars
      PROVE  [~(Assured' \subseteq Assured) =>
               /\ factor.lockedUntil <= now
               /\ factor'.last > factor.last \/ \E c \in codes : c \notin codes']_vars
  <2>1. CASE UNCHANGED session
    BY <2>1 DEF Assured, Live
  <2>2. CASE UNCHANGED vars
    BY <2>2
  <2>. QED  BY <1>1, <1>2, <2>1, <2>2, NextStep DEF AccountInv, Tick, rows
<1>. QED  BY <1>2, AccountInvariant, GrantsStayGood, PTL DEF Spec

(***************************************************************************)
(* A step that was accepted is refused for as long as the factor is not    *)
(* disabled, even where an enrolment replaces the seed meanwhile.          *)
(***************************************************************************)
THEOREM AcceptedStepsStayUsed ==
  Spec => [][factor'.last >= factor.last \/ factor'.seed = NoSeed]_vars
<1>1. ASSUME AccountInv, EarnedInv, NEW r \in Request, Commits(r)
      PROVE  factor'.last >= factor.last \/ factor'.seed = NoSeed
  <2>0. factor.last \in Int
    BY <1>1, TypeParts, FactorFields DEF AccountInv, NoStep
  <2>1. CASE factor' = factor \/ Enrols(r)
    BY <2>0, <2>1 DEF Enrols
  <2>2. CASE /\ request[r].at = "spend" /\ HoldsFactor(r)
             /\ factor' = CountMiss(request[r].row, request[r].began)
    <3>1. request[r].row = factor /\ request[r].began \in Nat /\ factor \in Factor
      BY <1>1, <2>2, OpType, TypeParts DEF AccountInv, FactorCurrent, OnSessionPlace
    <3>2. factor'.last = factor.last
      BY <1>1, <2>2, <3>1, MissWrites DEF EarnedInv, PenaltyBounded
    <3>. QED  BY <2>0, <3>2
  <2>3. ASSUME HoldsFactor(r), factor' = request[r].row,
               \/ request[r].at = "granted" /\ request[r].op = "verify"
               \/ request[r].at = "revoke" /\ request[r].op = "confirm"
               \/ RevokedAll(r, "disable")
        PROVE  factor'.last >= factor.last \/ factor'.seed = NoSeed
    <3>1. Window(r) \subseteq Int
      BY DEF Window
    <3>2. \/ \E step \in Window(r) : step > factor.last /\ factor'.last = step
          \/ factor'.last = factor.last
          \/ factor'.seed = NoSeed
      BY <1>1, <2>3, HolderWrites DEF AccountInv, EarnedInv, RevokedAll
    <3>. QED  BY <2>0, <3>1, <3>2
  <2>. QED  BY <1>1, <2>1, <2>2, <2>3, FactorWrites DEF AccountInv, EarnedInv
<1>2. ASSUME AccountInv, EarnedInv, [Next]_vars
      PROVE  [factor'.last >= factor.last \/ factor'.seed = NoSeed]_vars
  <2>1. factor.last \in Int
    BY <1>2, TypeParts, FactorFields DEF AccountInv, NoStep
  <2>2. CASE factor' = factor
    BY <2>1, <2>2
  <2>3. CASE UNCHANGED vars
    BY <2>3
  <2>. QED  BY <1>1, <1>2, <2>2, <2>3, NextStep DEF AccountInv, Tick, rows
<1>. QED  BY <1>2, AccountInvariant, GrantsStayGood, PTL DEF Spec
=============================================================================
