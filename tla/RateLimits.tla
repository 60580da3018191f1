------------------------------ MODULE RateLimits ------------------------------
(***************************************************************************)
(* The state kept in Redis by core/redis_utils.py: fixed windows that      *)
(* count requests, and proof-of-work challenges that are redeemed once.    *)
(* Every operation is one command or one MULTI/EXEC, hence one step.       *)
(* Redis does not persist, and may lose all of it at any time.             *)
(***************************************************************************)
EXTENDS Integers, Sequences

CONSTANTS
  Key,            \* the windows
  Limit, Window,  \* of a window: the requests it admits, the time it lasts
  Scope, Nonce,   \* scopes are sequences of words; what token_hex may return
  Solving,        \* how long a challenge may be redeemed
  MaxNow          \* bound on the clock

ASSUME RateAssumption ==
  /\ Limit \in [Key -> Nat \ {0}] /\ Window \in [Key -> Nat \ {0}]
  /\ Solving \in Nat \ {0} /\ MaxNow \in Nat

Word == Nonce \cup UNION {{s[i] : i \in DOMAIN s} : s \in Scope}

ASSUME ScopeAssumption == Scope \subseteq Seq(Word) \ {<<>>}

VARIABLES
  now,       \* the clock
  window,    \* of a key: the count, and when it dies
  pow,       \* the challenges kept, each with its full key
  passes,    \* history: of a key, the requests counted within its limit, a window back
  redeemed   \* history: the scopes under which a nonce was redeemed

limits == <<window, passes>>
challenges == <<pow, redeemed>>

NoWindow == [count |-> 0, until |-> 0]

(***************************************************************************)
(* consume: the first request of a window starts its clock, and every one  *)
(* counts.  Past the limit the exact number makes no difference, so one    *)
(* above it stands for all.                                                *)
(***************************************************************************)
Counted_Prolonged(k) ==
  [window EXCEPT ![k] =
     [count |-> IF @.count <= Limit[k] THEN @.count + 1 ELSE @.count,
      until |-> now + Window[k]]]
Counted(k) ==
  [window EXCEPT ![k] =
     [count |-> IF @.count <= Limit[k] THEN @.count + 1 ELSE @.count,
      until |-> IF @.count = 0 THEN now + Window[k] ELSE @.until]]

Allowed_OneMore(k) == window[k].count <= Limit[k]
Allowed(k) == window[k].count < Limit[k]

Consume(k) ==
  /\ window' = Counted(k)
  /\ passes' = IF Allowed(k)
               THEN [passes EXCEPT ![k] = @ \cup {[at |-> now, nth |-> window'[k].count]}]
               ELSE passes

Pass(k) == Allowed(k) /\ Consume(k)

Refuse(k) == ~Allowed(k) /\ Consume(k)

(* No answer: the count may have been taken or not, and nobody knows. *)
Unanswered(k) == Consume(k) \/ UNCHANGED limits

-----------------------------------------------------------------------------
(***************************************************************************)
(* A challenge is kept under its scope and its nonce, joined.  What is     *)
(* presented as a nonce is one or two words; only one that token_hex may   *)
(* have returned is looked up.                                             *)
(***************************************************************************)
Presented == {<<n>> : n \in Nonce} \cup {<<s[Len(s)], n>> : s \in Scope, n \in Nonce}

WellFormed(words) == Len(words) = 1 /\ words[1] \in Nonce

IssueChallenge(scope, n) ==
  /\ redeemed[n] = <<>> /\ \A e \in pow : e.nonce # n
  /\ pow' = pow \cup {[key |-> Append(scope, n), scope |-> scope, nonce |-> n,
                       until |-> now + Solving]}
  /\ UNCHANGED <<now, limits, redeemed>>

(* GETDEL: what is found is gone.  What is not found makes no difference. *)
Deleted_Kept(e) == pow
Deleted(e) == pow \ {e}

VerifyAndConsume(scope, words) ==
  /\ WellFormed(words)
  /\ \E e \in pow :
       /\ e.key = scope \o words
       /\ pow' = Deleted(e)
       /\ redeemed' = [redeemed EXCEPT ![e.nonce] = Append(@, [by |-> scope, of |-> e.scope])]
  /\ UNCHANGED <<now, limits>>

-----------------------------------------------------------------------------
(* With time keys die: a window with its count, a challenge unredeemed. *)
Live(k, t) == window[k].until > t
Expire(t) ==
  /\ window' = [k \in Key |-> IF Live(k, t) THEN window[k] ELSE NoWindow]
  /\ passes' = [k \in Key |-> {e \in passes[k] : e.at > t - Window[k]}]
  /\ pow' = {e \in pow : e.until > t}
  /\ UNCHANGED redeemed

(* What a restart leaves of Redis: nothing; the history of windows starts anew. *)
RedisLost ==
  /\ window' = [k \in Key |-> NoWindow]
  /\ passes' = [k \in Key |-> {}]
  /\ pow' = {}
  /\ UNCHANGED <<now, redeemed>>

RateInit ==
  /\ now = 0
  /\ window = [k \in Key |-> NoWindow]
  /\ passes = [k \in Key |-> {}]
  /\ pow = {}
  /\ redeemed = [n \in Nonce |-> <<>>]
=============================================================================
