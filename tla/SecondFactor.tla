----------------------------- MODULE SecondFactor -----------------------------
(***************************************************************************)
(* What the second factor of an account promises, with no requests, locks  *)
(* and transactions: codes are presented one at a time, each is judged by  *)
(* the factor as it stands, and a session is assured for nothing but a     *)
(* code: a step later than any that was accepted, or a recovery code that  *)
(* is gone with it.  A new seed is the exception the code makes: an        *)
(* enrolment that was let in before the factor was confirmed may still     *)
(* replace it.                                                             *)
(***************************************************************************)
EXTENDS Integers

CONSTANTS Session, Seed, CodeSet, NoSeed, MfaThreshold, MfaLockoutBase, MfaLockoutCap

VARIABLES
  now,          \* the clock, in steps
  seed,         \* NoSeed where there is no factor
  confirmed,    \* whether logins ask for it
  last,         \* the last step that was accepted
  misses,       \* the wrong codes since
  lockedUntil,  \* the end of the lockout
  codes,        \* the recovery codes that are live
  assured       \* the live sessions that presented a code

row == <<seed, confirmed, last, misses, lockedUntil>>
vars == <<now, row, codes, assured>>

NoTime == 0
NoStep == -1

Init ==
  /\ now = 1 /\ misses = 0 /\ lockedUntil = NoTime
  /\ \/ /\ seed = NoSeed /\ confirmed = FALSE /\ last = NoStep
        /\ codes = {} /\ assured = {}
     \/ /\ seed \in Seed /\ confirmed = TRUE /\ last = 0
        /\ \E c \in CodeSet : codes = {c}
        /\ assured \in SUBSET Session

Tick == now' = now + 1 /\ UNCHANGED <<row, codes, assured>>

Enrol ==
  /\ seed' \in Seed \ {seed}
  /\ misses' \in {misses, 0}
  /\ UNCHANGED <<now, confirmed, last, lockedUntil, codes, assured>>

(* A code may be presented at a time outside of every lockout. *)
Asked(time) == seed # NoSeed /\ time \in 1 .. now /\ lockedUntil <= time

Miss(time) ==
  /\ Asked(time)
  /\ \/ /\ misses + 1 < MfaThreshold
        /\ misses' = misses + 1 /\ UNCHANGED lockedUntil
     \/ /\ misses + 1 >= MfaThreshold
        /\ misses' = 0
        /\ lockedUntil' \in (time + MfaLockoutBase) .. (time + MfaLockoutCap)
  /\ UNCHANGED <<now, seed, confirmed, last, codes, assured>>

Fresh(step) == step > last

Forgiven == misses' = 0 /\ lockedUntil' = NoTime

Confirm(time) ==
  /\ Asked(time) /\ confirmed = FALSE /\ assured = {}
  /\ \E step \in (time - 1) .. (time + 1) : Fresh(step) /\ last' = step
  /\ confirmed' = TRUE /\ seed' = seed /\ Forgiven
  /\ \E c \in CodeSet \ codes : codes' = {c}
  /\ \E s \in Session : assured' = {s}
  /\ now' = now

(* One session more is assured; others may end. *)
Verify(time) ==
  /\ Asked(time) /\ confirmed = TRUE
  /\ \/ \E step \in (time - 1) .. (time + 1) :
          Fresh(step) /\ last' = step /\ codes' = codes
     \/ \E c \in codes : last' = last /\ codes' = codes \ {c}
  /\ \E s \in Session : s \in assured' /\ assured' \ {s} \subseteq assured
  /\ Forgiven /\ UNCHANGED <<now, seed, confirmed>>

(* Of the codes, those that are being minted meanwhile may stay live. *)
Disable(time) ==
  /\ Asked(time) /\ confirmed = TRUE
  /\ \/ (\E step \in (time - 1) .. (time + 1) : Fresh(step)) /\ codes' \subseteq codes
     \/ \E c \in codes : codes' \subseteq codes \ {c}
  /\ seed' = NoSeed /\ confirmed' = FALSE /\ last' = NoStep /\ Forgiven
  /\ assured' = {} /\ now' = now

Regenerate ==
  /\ \E c \in CodeSet \ codes : c \in codes' /\ codes' \ {c} \subseteq codes
  /\ UNCHANGED <<now, row, assured>>

(* A logout, or a password change. *)
Leave == assured' \subseteq assured /\ UNCHANGED <<now, row, codes>>

Next ==
  \/ Tick \/ Enrol \/ Regenerate \/ Leave
  \/ \E time \in 1 .. now : Miss(time) \/ Confirm(time) \/ Verify(time) \/ Disable(time)

Spec == Init /\ [][Next]_vars
=============================================================================
