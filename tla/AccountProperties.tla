-------------------------- MODULE AccountProperties --------------------------
(***************************************************************************)
(* What the requests on an account must never do to each other, whatever   *)
(* the order in which their transactions read, wait and commit.            *)
(***************************************************************************)
EXTENDS Accounts

Factor ==
  [exists : BOOLEAN, seed : Seed \cup {NoSeed}, confirmed : BOOLEAN,
   last : Nat \cup {NoStep}, failures : 0 .. (MfaThreshold - 1),
   penalty : Nat, lockedUntil : Nat]

Loaded == [failures : 0 .. (LockoutThreshold - 1), lockedUntil : Nat]

Hashing == [at : {"hashing"}, right : BOOLEAN, began : Nat, password : Password,
            stale : BOOLEAN]

Verified == [at : {"count", "admit"}, began : Nat, password : Password,
             stale : BOOLEAN, loaded : Loaded]

OnSession ==
  [at : {"state", "touch", "logout", "password", "change", "revoke", "enroll",
         "seed", "factor", "spend", "granted", "codes", "mint"},
   op : Operation, session : Session, began : Nat, pending : BOOLEAN,
   row : Factor, burn : SUBSET CodeSet, left : SUBSET Session,
   taken : SUBSET Session]

Local == {Idle} \cup Hashing \cup Verified \cup OnSession

(***************************************************************************)
(* The type invariant.  In particular both counters stay below their       *)
(* thresholds: _record_failure and _record_mfa_failure reset them there,   *)
(* whatever was counted meanwhile.                                         *)
(***************************************************************************)
TypeOK ==
  /\ now \in 1 .. MaxNow
  /\ credential \in [password : Password, stale : BOOLEAN,
                     failures : 0 .. (LockoutThreshold - 1), lockedUntil : Nat]
  /\ factor \in Factor
  /\ session \in [Session -> [status : {"absent", "live", "revoked"}, assured : BOOLEAN]]
  /\ codes \subseteq CodeSet
  /\ request \in [Request -> Local]

(***************************************************************************)
(* No session is assured without a confirmed factor: disable_mfa leaves    *)
(* none behind, though a verification may complete a login while it waits, *)
(* and the revocation sees only what was committed when it began.          *)
(***************************************************************************)
AssuranceNeedsFactor ==
  ~factor.confirmed => \A s \in Live : ~session[s].assured

(***************************************************************************)
(* A revoked session is not written again: a step-up or a confirmation     *)
(* that was resolved before its session was revoked does not assure it     *)
(* ("fail closed rather than report a step-up that was never granted").    *)
(***************************************************************************)
RevokedForever ==
  [][\A s \in Session : session[s].status = "revoked" => session'[s] = session[s]]_vars

(***************************************************************************)
(* What a request decides a code on is what is committed until it commits: *)
(* no step is accepted twice and no miss escapes the lockout, as           *)
(* mfa_for_update promises.                                                *)
(***************************************************************************)
FactorCurrent ==
  \A r \in Request :
    \/ request[r].at = "spend"
    \/ request[r].at = "password" /\ request[r].op = "disable"
    => request[r].row = factor

(***************************************************************************)
(* A recovery code that a request was granted on is live until the request *)
(* commits, so it is spent once and by one request.                        *)
(***************************************************************************)
CodeSpentOnce ==
  \A r \in Request : request[r].at = "granted" =>
    /\ request[r].burn \subseteq codes
    /\ \A other \in Request \ {r} :
         request[other].at = "granted" => request[r].burn \cap request[other].burn = {}

(***************************************************************************)
(* A lockout of the second factor is served in full: while it stands on    *)
(* the clock of the database, nothing shortens it and no factor is         *)
(* confirmed or disabled, though requests compare it with the time they    *)
(* began and may have waited since.                                        *)
(***************************************************************************)
LockoutServed ==
  [][factor.lockedUntil > now =>
       factor'.lockedUntil >= factor.lockedUntil /\ factor'.confirmed = factor.confirmed]_vars

(* The sessions that presented a code and may still be used. *)
Assured == {s \in Live : session[s].assured}

(***************************************************************************)
(* Whatever the requests read, wait for and roll back, what is committed   *)
(* changes as though codes were presented one at a time (mfa_for_update):  *)
(* no step and no recovery code earns two assurances, no miss escapes the  *)
(* lockout, and nothing but a code assures a session.                      *)
(***************************************************************************)
OneAtATime ==
  INSTANCE SecondFactor
    WITH seed <- factor.seed, confirmed <- factor.confirmed, last <- factor.last,
         misses <- factor.failures, lockedUntil <- factor.lockedUntil,
         assured <- Assured

ImplementsSecondFactor == OneAtATime!Spec

(***************************************************************************)
(* Every request ends, though requests wait for rows of each other in any  *)
(* order: PostgreSQL breaks the cycles.                                    *)
(***************************************************************************)
RequestEnds == \A r \in Request : request[r].at # "idle" ~> request[r].at = "idle"

(***************************************************************************)
(* "A confirmed factor refuses": the seed of a confirmed factor changes    *)
(* only when the factor is disabled first.                                 *)
(***************************************************************************)
ConfirmedSeedKept ==
  [][factor.confirmed /\ factor'.confirmed => factor'.seed = factor.seed]_vars
=============================================================================
