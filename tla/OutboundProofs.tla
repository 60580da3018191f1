---------------------------- MODULE OutboundProofs ----------------------------
(***************************************************************************)
(* Theorems about Outbound, for every set of processes, calls, windows and *)
(* challenges, every limit and every bound of the clock.                   *)
(***************************************************************************)
EXTENDS OutboundProperties, FunctionTheorems, FiniteSetTheorems, TLAPS

(* As much of the types as the arguments need. *)
CallRow == [at : Place, gates : Seq(Key), checks : BOOLEAN, left : Nat, until : Nat]

Shape ==
  /\ now \in Nat
  /\ resolvers \in Configurations
  /\ free \in [Process -> Int]
  /\ call \in [Call -> CallRow]
  /\ \A c \in Call : call[c].at = "gate" => call[c].gates # <<>>

LEMMA ResolversSeq ==
  ASSUME resolvers \in Configurations
  PROVE  resolvers \in Seq({"dot", "doh"}) /\ Len(resolvers) \in Nat
<1>1. resolvers \in Seq({"dot", "doh"})
  BY OutboundAssumption
<1>. QED  BY <1>1

LEMMA IdleRow == Idle \in CallRow
BY DEF Idle, CallRow, Place

LEMMA GatesSeq ==
  ASSUME NEW operation \in Offered, NEW who \in Caller
  PROVE  GatesOf(operation, who) \in Seq(Key)
<1>1. \A i \in 1 .. Len(GatesOf(operation, who)) : GatesOf(operation, who)[i] \in Key
  BY GatesKnown
<1>2. CASE operation = "check"
  <2>1. \A a, b, d : (\A i \in 1 .. 3 : <<a, b, d>>[i] \in Key) => <<a, b, d>> \in Seq(Key)
    <3>. TAKE a, b, d
    <3>1. <<a, b, d>>[1] = a /\ <<a, b, d>>[2] = b /\ <<a, b, d>>[3] = d
      OBVIOUS
    <3>. QED  BY <3>1
  <2>. QED  BY <1>1, <1>2, <2>1 DEF GatesOf, CheckGates
<1>3. CASE operation # "check"
  <2>1. \A a : (\A i \in 1 .. 1 : <<a>>[i] \in Key) => <<a>> \in Seq(Key)
    <3>. TAKE a
    <3>1. <<a>>[1] = a
      OBVIOUS
    <3>. QED  BY <3>1
  <2>. QED  BY <1>1, <1>3, <2>1 DEF GatesOf, ChallengeGates, AnonymousGates
<1>. QED  BY <1>2, <1>3

(* How a call may move. *)
LEMMA SetRow ==
  ASSUME Shape, NEW c \in Call, NEW q \in CallRow, q.at = "gate" => q.gates # <<>>,
         call' = [call EXCEPT ![c] = q]
  PROVE  /\ call' \in [Call -> CallRow]
         /\ \A d \in Call : call'[d].at = "gate" => call'[d].gates # <<>>
BY DEF Shape

LEMMA EndShape ==
  ASSUME Shape, NEW c \in Call, End(c)
  PROVE  /\ call' \in [Call -> CallRow]
         /\ \A d \in Call : call'[d].at = "gate" => call'[d].gates # <<>>
<1>1. Idle.at # "gate"
  BY DEF Idle
<1>. QED  BY <1>1, IdleRow, SetRow DEF End

LEMMA OnwardShape ==
  ASSUME Shape, NEW c \in Call, call[c].at = "gate", Onward(c)
  PROVE  /\ call' \in [Call -> CallRow]
         /\ \A d \in Call : call'[d].at = "gate" => call'[d].gates # <<>>
<1>. DEFINE rest == Tail(call[c].gates)
            q == [call[c] EXCEPT !.gates = rest, !.at = IF rest = <<>> THEN "admit" ELSE "gate"]
<1>1. call[c] \in CallRow /\ call[c].gates \in Seq(Key) /\ call[c].gates # <<>>
  BY DEF Shape, CallRow
<1>2. rest \in Seq(Key)
  BY <1>1
<1>3. q \in CallRow /\ (q.at = "gate" => q.gates # <<>>)
  BY <1>1, <1>2 DEF CallRow, Place
<1>4. CASE rest = <<>> /\ ~call[c].checks
  BY <1>4, EndShape DEF Onward, End
<1>5. CASE ~(rest = <<>> /\ ~call[c].checks)
  <2>1. call' = [call EXCEPT ![c] = q]
    BY <1>5 DEF Onward
  <2>. QED  BY <2>1, <1>3, SetRow
<1>. QED  BY <1>4, <1>5

LEMMA BeginShape ==
  ASSUME Shape, NEW c \in Call, Begin(c)
  PROVE  /\ call' \in [Call -> CallRow]
         /\ \A d \in Call : call'[d].at = "gate" => call'[d].gates # <<>>
<1>1. PICK operation \in Offered, who \in Caller :
        call' = [call EXCEPT ![c] = [Idle EXCEPT !.at = "gate",
                                                 !.gates = GatesOf(operation, who),
                                                 !.checks = operation = "check"]]
  BY DEF Begin
<1>. DEFINE q == [Idle EXCEPT !.at = "gate", !.gates = GatesOf(operation, who),
                              !.checks = operation = "check"]
<1>2. GatesOf(operation, who) # <<>>
  BY DEF GatesOf, CheckGates, ChallengeGates, AnonymousGates
<1>3. q \in CallRow /\ (q.at = "gate" => q.gates # <<>>)
  BY <1>2, GatesSeq, IdleRow DEF CallRow, Idle, Place
<1>. QED  BY <1>1, <1>3, SetRow

(* A check that goes on keeps the gates it has passed. *)
LEMMA CheckShape ==
  ASSUME Shape, NEW c \in Call, Acquire(c) \/ Charge(c) \/ Ask(c)
  PROVE  /\ call' \in [Call -> CallRow]
         /\ \A d \in Call : call'[d].at = "gate" => call'[d].gates # <<>>
<1>0. call[c] \in CallRow /\ now + Deadline \in Nat /\ Len(resolvers) \in Nat
  BY ResolversSeq, OutboundAssumption DEF Shape
<1>1. CASE Acquire(c)
  <2>. DEFINE q == [call[c] EXCEPT !.at = "charge"]
  <2>1. q \in CallRow /\ q.at = "charge"
    BY <1>0 DEF CallRow, Place
  <2>2. call' = [call EXCEPT ![c] = q]
    BY <1>1 DEF Acquire
  <2>. QED  BY <2>1, <2>2, SetRow
<1>2. CASE Charge(c)
  <2>. DEFINE q == [call[c] EXCEPT !.at = "ask", !.left = Len(resolvers),
                                   !.until = now + Deadline]
  <2>1. q \in CallRow /\ q.at = "ask"
    BY <1>0 DEF CallRow, Place
  <2>2. call' = [call EXCEPT ![c] = q]
    BY <1>2 DEF Charge, Shape
  <2>. QED  BY <2>1, <2>2, SetRow
<1>3. CASE Ask(c)
  <2>. DEFINE q == [call[c] EXCEPT !.left = @ - 1]
  <2>1. q \in CallRow /\ q.at = "ask"
    BY <1>0, <1>3 DEF CallRow, Place, Ask, Askable
  <2>2. call' = [call EXCEPT ![c] = q]
    BY <1>3 DEF Ask
  <2>. QED  BY <2>1, <2>2, SetRow
<1>. QED  BY <1>1, <1>2, <1>3

(***************************************************************************)
(* A step moves one call, or it is the environment: time passes, Redis     *)
(* forgets, challenges come and go, or a process restarts.                 *)
(***************************************************************************)
Steady == UNCHANGED <<resolvers, free, call>>

LEMMA EnvironmentStep ==
  ASSUME Tick \/ ProofOfWork \/ (RedisLost /\ UNCHANGED <<resolvers, dns, call>>)
  PROVE  Steady /\ (now \in Nat => now' \in Nat)
<1>1. CASE Tick
  BY <1>1 DEF Tick, Steady, dns
<1>2. CASE ProofOfWork
  BY <1>2 DEF ProofOfWork, Steady, dns, IssueChallenge, VerifyAndConsume
<1>3. CASE RedisLost /\ UNCHANGED <<resolvers, dns, call>>
  BY <1>3 DEF RedisLost, Steady, dns
<1>. QED  BY <1>1, <1>2, <1>3

LEMMA CallShape ==
  ASSUME Shape, NEW c \in Call, Begin(c) \/ Proceed(c) \/ FailOpen(c)
  PROVE  Shape'
<1>1. UNCHANGED <<now, resolvers>>
  BY DEF Begin, Proceed, FailOpen, PassGate, RefuseGate, Acquire, NoAdmission, Charge,
         Overspent, Ask, Resolved
<1>2. free' \in [Process -> Int]
  <2>0. free \in [Process -> Int] /\ ServedBy[c] \in Process /\ free[ServedBy[c]] \in Int
    BY OutboundAssumption DEF Shape
  <2>1. CASE Acquire(c)
    <3>1. free' = [free EXCEPT ![ServedBy[c]] = free[ServedBy[c]] - 1]
      BY <2>1 DEF Acquire
    <3>. QED  BY <2>0, <3>1
  <2>2. CASE Overspent(c) \/ Resolved(c)
    <3>1. free' = [free EXCEPT ![ServedBy[c]] = free[ServedBy[c]] + 1]
      BY <2>2 DEF Overspent, Resolved, Release
    <3>. QED  BY <2>0, <3>1
  <2>3. CASE Charge(c) \/ Ask(c)
    BY <2>3 DEF Charge, Ask, Shape
  <2>4. CASE Begin(c) \/ PassGate(c) \/ RefuseGate(c) \/ FailOpen(c) \/ NoAdmission(c)
    BY <2>4 DEF Begin, PassGate, RefuseGate, FailOpen, NoAdmission, dns, Shape
  <2>. QED  BY <2>1, <2>2, <2>3, <2>4 DEF Proceed
<1>3. /\ call' \in [Call -> CallRow]
      /\ \A d \in Call : call'[d].at = "gate" => call'[d].gates # <<>>
  <2>1. CASE Begin(c)
    BY <2>1, BeginShape
  <2>2. CASE PassGate(c) \/ FailOpen(c)
    BY <2>2, OnwardShape DEF PassGate, FailOpen
  <2>3. CASE RefuseGate(c) \/ NoAdmission(c) \/ Overspent(c) \/ Resolved(c)
    BY <2>3, EndShape DEF RefuseGate, NoAdmission, Overspent, Resolved
  <2>4. CASE Acquire(c) \/ Charge(c) \/ Ask(c)
    BY <2>4, CheckShape
  <2>. QED  BY <2>1, <2>2, <2>3, <2>4 DEF Proceed
<1>. QED  BY <1>1, <1>2, <1>3 DEF Shape

LEMMA RestartShape ==
  ASSUME Shape, NEW p \in Process, Restart(p)
  PROVE  Shape'
<1>1. call' \in [Call -> CallRow]
  BY IdleRow DEF Shape, Restart
<1>2. \A d \in Call : call'[d].at = "gate" => call'[d].gates # <<>>
  BY DEF Shape, Restart, Idle
<1>3. free' \in [Process -> Int]
  BY OutboundAssumption DEF Shape, Restart
<1>. QED  BY <1>1, <1>2, <1>3 DEF Shape, Restart

LEMMA ShapeStep ==
  ASSUME Shape, [Next]_vars
  PROVE  Shape'
<1>1. CASE UNCHANGED vars
  BY <1>1 DEF vars, dns, Shape
<1>2. CASE Tick \/ ProofOfWork \/ (RedisLost /\ UNCHANGED <<resolvers, dns, call>>)
  BY <1>2, EnvironmentStep DEF Shape, Steady
<1>3. CASE \E c \in Call : Begin(c) \/ Proceed(c) \/ FailOpen(c)
  BY <1>3, CallShape
<1>4. CASE \E p \in Process : Restart(p)
  BY <1>4, RestartShape
<1>. QED  BY <1>1, <1>2, <1>3, <1>4 DEF Next, SteadyNext

LEMMA ShapeInit == Init => Shape
<1>1. Init => call \in [Call -> CallRow] /\ \A d \in Call : call[d].at # "gate"
  BY IdleRow DEF Init, Idle
<1>. QED  BY <1>1, OutboundAssumption DEF Init, RateInit, Shape

-----------------------------------------------------------------------------
(***************************************************************************)
(* PermitsKept.  A step of a call keeps it in, or out of, the checks that  *)
(* hold a permit; or takes one as it enters; or gives it back as it leaves.*)
(***************************************************************************)
Busy(q) == q.at \in {"charge", "ask"}

Keeps(c) == free' = free /\ (Busy(call'[c]) <=> Busy(call[c]))
Takes(c) == /\ free' = [free EXCEPT ![ServedBy[c]] = @ - 1]
            /\ ~Busy(call[c]) /\ Busy(call'[c])
GivesBack(c) == /\ free' = [free EXCEPT ![ServedBy[c]] = @ + 1]
                /\ Busy(call[c]) /\ ~Busy(call'[c])

Alone(c) == \A d \in Call \ {c} : call'[d] = call[d]

LEMMA CallStep ==
  ASSUME Shape, NEW c \in Call, Begin(c) \/ Proceed(c) \/ FailOpen(c)
  PROVE  Alone(c) /\ (Keeps(c) \/ Takes(c) \/ GivesBack(c))
<1>0. call[c] \in CallRow /\ call \in [Call -> CallRow]
  BY DEF Shape
<1>1. ASSUME End(c)
      PROVE  Alone(c) /\ ~Busy(call'[c])
  BY <1>0, <1>1 DEF End, Alone, Busy, Idle
<1>2. CASE Begin(c)
  BY <1>0, <1>2 DEF Begin, Keeps, Busy, Alone, Idle, dns
<1>3. CASE PassGate(c) \/ FailOpen(c)
  <2>1. call[c].at = "gate" /\ Onward(c) /\ free' = free
    BY <1>3 DEF PassGate, FailOpen, dns
  <2>2. Alone(c)
    BY <1>0, <2>1 DEF Onward, Alone
  <2>3. call'[c].at \in {"idle", "gate", "admit"}
    BY <1>0, <2>1 DEF Onward, CallRow, Idle
  <2>. QED  BY <2>1, <2>2, <2>3 DEF Keeps, Busy
<1>4. CASE RefuseGate(c) \/ NoAdmission(c)
  BY <1>1, <1>4 DEF RefuseGate, NoAdmission, Keeps, Busy, dns
<1>5. CASE Acquire(c)
  BY <1>0, <1>5 DEF Acquire, Takes, Busy, Alone, CallRow
<1>6. CASE Charge(c)
  BY <1>0, <1>6 DEF Charge, Keeps, Busy, Alone, CallRow
<1>7. CASE Overspent(c)
  BY <1>1, <1>7 DEF Overspent, Release, GivesBack, Busy
<1>8. CASE Ask(c)
  BY <1>0, <1>8 DEF Ask, Keeps, Busy, Alone, CallRow
<1>9. CASE Resolved(c)
  BY <1>1, <1>9 DEF Resolved, Release, GivesBack, Busy
<1>. QED  BY <1>2, <1>3, <1>4, <1>5, <1>6, <1>7, <1>8, <1>9 DEF Proceed

LEMMA HoldingFinite ==
  ASSUME NEW p
  PROVE  IsFiniteSet(Holding(p)) /\ Cardinality(Holding(p)) \in Nat
<1>1. IsFiniteSet(Holding(p))
  BY OutboundAssumption, FS_Subset DEF Holding
<1>. QED  BY <1>1, FS_CardinalityType

LEMMA PermitsStep ==
  ASSUME Shape, PermitsKept, NEW c \in Call, Alone(c),
         Keeps(c) \/ Takes(c) \/ GivesBack(c), NEW p \in Process
  PROVE  free'[p] + Cardinality(Holding(p)') = Permits
<1>0. /\ free \in [Process -> Int] /\ free[p] \in Int
      /\ free[p] + Cardinality(Holding(p)) = Permits
      /\ Permits \in Int
  BY OutboundAssumption DEF Shape, PermitsKept
<1>1. CASE ServedBy[c] # p \/ Keeps(c)
  <2>1. Holding(p)' = Holding(p)
    BY <1>1 DEF Holding, Alone, Keeps, Busy
  <2>2. free'[p] = free[p]
    BY <1>0, <1>1 DEF Keeps, Takes, GivesBack
  <2>. QED  BY <1>0, <2>1, <2>2
<1>2. CASE ServedBy[c] = p /\ Takes(c)
  <2>1. Holding(p)' = Holding(p) \cup {c} /\ c \notin Holding(p)
    BY <1>2 DEF Holding, Alone, Takes, Busy
  <2>2. Cardinality(Holding(p)') = Cardinality(Holding(p)) + 1
    BY <2>1, HoldingFinite, FS_AddElement
  <2>3. free'[p] = free[p] - 1
    BY <1>0, <1>2 DEF Takes
  <2>. QED  BY <1>0, <2>2, <2>3, HoldingFinite
<1>3. CASE ServedBy[c] = p /\ GivesBack(c)
  <2>1. Holding(p)' = Holding(p) \ {c} /\ c \in Holding(p)
    BY <1>3 DEF Holding, Alone, GivesBack, Busy
  <2>2. Cardinality(Holding(p)') = Cardinality(Holding(p)) - 1
    BY <2>1, HoldingFinite, FS_RemoveElement
  <2>3. free'[p] = free[p] + 1
    BY <1>0, <1>3 DEF GivesBack
  <2>. QED  BY <1>0, <2>2, <2>3, HoldingFinite
<1>. QED  BY <1>1, <1>2, <1>3

LEMMA PermitsRestart ==
  ASSUME Shape, PermitsKept, NEW q \in Process, Restart(q), NEW p \in Process
  PROVE  free'[p] + Cardinality(Holding(p)') = Permits
<1>1. CASE p = q
  <2>1. Holding(p)' = {}
    BY <1>1 DEF Holding, Restart, Idle
  <2>2. free'[p] = Permits
    BY <1>1 DEF Restart, Shape
  <2>. QED  BY <2>1, <2>2, FS_EmptySet, OutboundAssumption
<1>2. CASE p # q
  <2>1. Holding(p)' = Holding(p)
    BY <1>2 DEF Holding, Restart
  <2>2. free'[p] = free[p]
    BY <1>2 DEF Restart, Shape
  <2>. QED  BY <2>1, <2>2 DEF PermitsKept
<1>. QED  BY <1>1, <1>2

(***************************************************************************)
(* Of every process, the permits that are not free are held by checks in   *)
(* progress: no way out of resolve_txt loses one or gives it back twice.   *)
(***************************************************************************)
THEOREM PermitsAlwaysKept == Spec => []PermitsKept
<1>. DEFINE Inv == Shape /\ PermitsKept
<1>1. Init => Inv
  <2>. SUFFICES ASSUME Init PROVE PermitsKept
    BY ShapeInit
  <2>1. \A p \in Process : Holding(p) = {} /\ free[p] = Permits
    BY DEF Init, Holding, Idle
  <2>2. Cardinality({}) = 0
    BY FS_EmptySet
  <2>3. Permits + 0 = Permits
    BY OutboundAssumption
  <2>. QED  BY <2>1, <2>2, <2>3 DEF PermitsKept
<1>2. Inv /\ [Next]_vars => Inv'
  <2>. SUFFICES ASSUME Inv, [Next]_vars PROVE PermitsKept'
    BY ShapeStep
  <2>1. CASE UNCHANGED vars \/ Steady
    BY <2>1 DEF vars, dns, Steady, PermitsKept, Holding
  <2>2. CASE \E c \in Call : Begin(c) \/ Proceed(c) \/ FailOpen(c)
    BY <2>2, CallStep, PermitsStep DEF PermitsKept
  <2>3. CASE \E p \in Process : Restart(p)
    BY <2>3, PermitsRestart DEF PermitsKept
  <2>. QED  BY <2>1, <2>2, <2>3, EnvironmentStep DEF Next, SteadyNext
<1>3. Inv => PermitsKept
  OBVIOUS
<1>. QED  BY <1>1, <1>2, <1>3, PTL DEF Spec

-----------------------------------------------------------------------------
(***************************************************************************)
(* RedeemedOnce.  A challenge in Redis was never redeemed, is the one with *)
(* its nonce, and its key tells the scope it was issued for.               *)
(***************************************************************************)
Redemption == [by : Scope, of : Scope]

Fresh(e) == /\ e.scope \in Scope /\ e.nonce \in Nonce
            /\ e.key = Append(e.scope, e.nonce)
            /\ redeemed[e.nonce] = <<>>

PowInv ==
  /\ redeemed \in [Nonce -> Seq(Redemption)]
  /\ \A e \in pow : Fresh(e)
  /\ \A e, f \in pow : e.nonce = f.nonce => e = f
  /\ RedeemedOnce

(* What is presented and looked up is one word. *)
LEMMA OneWord ==
  ASSUME NEW words \in Presented, WellFormed(words)
  PROVE  \E n \in Nonce : words = <<n>>
<1>1. CASE \E n \in Nonce : words = <<n>>
  BY <1>1
<1>2. CASE \E s \in Scope, n \in Nonce : words = <<s[Len(s)], n>>
  <2>1. Len(words) = 2
    BY <1>2
  <2>. QED  BY <2>1 DEF WellFormed
<1>. QED  BY <1>1, <1>2 DEF Presented

(* Of two keys that are equal the scopes are. *)
LEMMA KeyTellsScope ==
  ASSUME NEW s \in Scope, NEW t \in Scope, NEW m \in Nonce, NEW n \in Nonce,
         Append(s, m) = t \o <<n>>
  PROVE  s = t
<1>0. s \in Seq(Word) /\ t \in Seq(Word) /\ m \in Word /\ n \in Word
  BY ScopeAssumption DEF Word
<1>1. Append(t, n) = t \o <<n>>
  BY <1>0
<1>2. Len(s) + 1 = Len(t) + 1 /\ Len(s) \in Nat /\ Len(t) \in Nat
  <2>1. Len(Append(s, m)) = Len(s) + 1
    BY <1>0
  <2>2. Len(Append(t, n)) = Len(t) + 1
    BY <1>0
  <2>. QED  BY <1>0, <1>1, <2>1, <2>2
<1>3. \A i \in 1 .. Len(s) : s[i] = t[i]
  <2>. TAKE i \in 1 .. Len(s)
  <2>1. Append(s, m)[i] = s[i]
    BY <1>0
  <2>2. Append(t, n)[i] = t[i]
    BY <1>0, <1>2
  <2>. QED  BY <1>1, <2>1, <2>2
<1>. QED  BY <1>0, <1>2, <1>3

LEMMA IssueKeeps ==
  ASSUME PowInv, NEW scope \in Scope, NEW n \in Nonce, IssueChallenge(scope, n)
  PROVE  PowInv'
<1>. DEFINE made == [key |-> Append(scope, n), scope |-> scope, nonce |-> n,
                     until |-> now + Solving]
<1>1. /\ redeemed' = redeemed /\ redeemed[n] = <<>>
      /\ pow' = pow \cup {made} /\ \A e \in pow : e.nonce # n
  BY DEF IssueChallenge
<1>2. made.scope = scope /\ made.nonce = n /\ made.key = Append(scope, n)
  OBVIOUS
<1>. HIDE DEF made
<1>3. \A e \in pow' : Fresh(e)'
  BY <1>1, <1>2 DEF PowInv, Fresh
<1>4. \A e, f \in pow' : e.nonce = f.nonce => e = f
  BY <1>1, <1>2 DEF PowInv
<1>. QED  BY <1>1, <1>3, <1>4 DEF PowInv, RedeemedOnce

LEMMA RedeemKeeps ==
  ASSUME PowInv, NEW scope \in Scope, NEW words \in Presented,
         VerifyAndConsume(scope, words)
  PROVE  PowInv'
<1>1. WellFormed(words)
  BY DEF VerifyAndConsume
<1>2. PICK e \in pow :
        /\ e.key = scope \o words
        /\ pow' = Deleted(e)
        /\ redeemed' = [redeemed EXCEPT ![e.nonce] =
                          Append(@, [by |-> scope, of |-> e.scope])]
  BY DEF VerifyAndConsume
<1>3. Fresh(e) /\ pow' = pow \ {e} /\ redeemed \in [Nonce -> Seq(Redemption)]
  BY <1>2 DEF PowInv, Deleted
<1>4. e.scope = scope
  <2>1. PICK n \in Nonce : words = <<n>>
    BY <1>1, OneWord
  <2>. QED  BY <1>2, <1>3, <2>1, KeyTellsScope DEF Fresh
<1>. DEFINE one == [by |-> scope, of |-> e.scope]
<1>5. one \in Redemption /\ one.by = one.of
  BY <1>4 DEF Redemption
<1>6. redeemed' = [redeemed EXCEPT ![e.nonce] = Append(redeemed[e.nonce], one)]
  BY <1>2
<1>. HIDE DEF one
<1>7. e.nonce \in Nonce /\ redeemed'[e.nonce] = <<one>>
  <2>1. redeemed'[e.nonce] = Append(<<>>, one)
    BY <1>3, <1>6 DEF Fresh
  <2>. QED  BY <1>3, <2>1 DEF Fresh
<1>8. \A n \in Nonce \ {e.nonce} : redeemed'[n] = redeemed[n]
  BY <1>3, <1>6
<1>9. redeemed' \in [Nonce -> Seq(Redemption)]
  <2>1. Append(redeemed[e.nonce], one) \in Seq(Redemption)
    BY <1>3, <1>5, <1>7
  <2>. QED  BY <1>3, <1>6, <2>1
<1>10. \A f \in pow' : Fresh(f)'
  <2>1. \A f \in pow' : f \in pow /\ f.nonce # e.nonce
    BY <1>3 DEF PowInv
  <2>. QED  BY <1>8, <2>1 DEF PowInv, Fresh
<1>11. RedeemedOnce'
  <2>. SUFFICES ASSUME NEW n \in Nonce
                PROVE  /\ Len(redeemed'[n]) <= 1
                       /\ \A i \in 1 .. Len(redeemed'[n]) :
                            redeemed'[n][i].by = redeemed'[n][i].of
    BY DEF RedeemedOnce
  <2>1. CASE n = e.nonce
    <3>1. Len(<<one>>) = 1 /\ \A i \in 1 .. 1 : <<one>>[i] = one
      OBVIOUS
    <3>2. redeemed'[n] = <<one>>
      BY <1>7, <2>1
    <3>. QED  BY <1>5, <3>1, <3>2
  <2>2. CASE n # e.nonce
    BY <1>8, <2>2 DEF PowInv, RedeemedOnce
  <2>. QED  BY <2>1, <2>2
<1>. QED  BY <1>3, <1>9, <1>10, <1>11 DEF PowInv

(***************************************************************************)
(* A challenge is redeemed once, under the scope it was issued for, also   *)
(* if Redis forgets and however words are joined into keys.                *)
(***************************************************************************)
THEOREM RedeemedAtMostOnce == Spec => []RedeemedOnce
<1>1. Init => PowInv
  <2>. SUFFICES ASSUME Init PROVE PowInv
    OBVIOUS
  <2>1. \A n \in Nonce : redeemed[n] = <<>> /\ Len(redeemed[n]) = 0
    BY DEF Init, RateInit
  <2>2. redeemed \in [Nonce -> Seq(Redemption)] /\ pow = {}
    BY DEF Init, RateInit
  <2>. QED  BY <2>1, <2>2 DEF PowInv, RedeemedOnce
<1>2. PowInv /\ [Next]_vars => PowInv'
  <2>. SUFFICES ASSUME PowInv, [Next]_vars PROVE PowInv'
    OBVIOUS
  <2>1. CASE redeemed' = redeemed /\ pow' \subseteq pow
    BY <2>1 DEF PowInv, Fresh, RedeemedOnce
  <2>2. CASE ProofOfWork
    BY <2>2, IssueKeeps, RedeemKeeps DEF ProofOfWork
  <2>3. CASE Tick \/ RedisLost
    BY <2>1, <2>3 DEF Tick, Expire, RedisLost
  <2>4. CASE UNCHANGED vars \/ \E p \in Process : Restart(p)
    BY <2>1, <2>4 DEF vars, challenges, Restart
  <2>5. CASE \E c \in Call : Begin(c) \/ Proceed(c) \/ FailOpen(c)
    <3>1. UNCHANGED challenges
      BY <2>5
      DEF Begin, Proceed, FailOpen, PassGate, RefuseGate, Acquire, NoAdmission, Charge,
          Overspent, Ask, Resolved
    <3>. QED  BY <2>1, <3>1 DEF challenges
  <2>. QED  BY <2>2, <2>3, <2>4, <2>5 DEF Next, SteadyNext
<1>3. PowInv => RedeemedOnce
  BY DEF PowInv
<1>. QED  BY <1>1, <1>2, <1>3, PTL DEF Spec

-----------------------------------------------------------------------------
(***************************************************************************)
(* WireBounded.  A query is on the wire, or a check in progress has been   *)
(* charged for it and has yet to send it: the two together are within what *)
(* is spent of the budget and what the other permits may owe to a window   *)
(* that is over.                                                           *)
(***************************************************************************)
Owed(p) == {q \in Call \X (1 .. Len(resolvers)) :
              /\ ServedBy[q[1]] = p /\ call[q[1]].at = "ask"
              /\ q[2] <= call[q[1]].left}

Others == (Permits - 1) * Len(resolvers)

Covered(p) ==
  /\ budget[p].spent <= QueryLimit
  /\ sent[p] + Cardinality(Owed(p)) <= budget[p].spent + Others

WireInv ==
  /\ budget \in [Process -> [started : Nat, spent : Nat]]
  /\ sent \in [Process -> Nat]
  /\ \A p \in Process : free[p] >= 0 /\ budget[p].started <= now
  /\ \A c \in Call : call[c].left <= Len(resolvers)
  /\ \A p \in Process : Covered(p)

LEMMA ShapeAlways == Spec => []Shape
BY ShapeInit, ShapeStep, PTL DEF Spec

LEMMA UpTo ==
  ASSUME NEW n \in Nat
  PROVE  IsFiniteSet(1 .. n) /\ Cardinality(1 .. n) = n
<1>1. IsFiniteSet(1 .. n) /\ Cardinality(1 .. n) = IF 1 > n THEN 0 ELSE n - 1 + 1
  BY FS_Interval
<1>. QED  BY <1>1

LEMMA OwedFinite ==
  ASSUME Shape, NEW p
  PROVE  IsFiniteSet(Owed(p)) /\ Cardinality(Owed(p)) \in Nat
<1>1. IsFiniteSet(1 .. Len(resolvers))
  BY ResolversSeq, UpTo DEF Shape
<1>2. IsFiniteSet(Call \X (1 .. Len(resolvers)))
  BY <1>1, OutboundAssumption, FS_Product
<1>. QED  BY <1>2, FS_Subset, FS_CardinalityType DEF Owed

LEMMA LimitsNat ==
  ASSUME Shape
  PROVE  QueryLimit \in Nat /\ Others \in Nat /\ Len(resolvers) \in Nat
<1>1. Len(resolvers) \in Nat
  BY ResolversSeq DEF Shape
<1>2. \A a, b \in Nat : a * b \in Nat
  OBVIOUS
<1>3. Permits - 1 \in Nat /\ GlobalLimit \in Nat
  BY OutboundAssumption
<1>. QED  BY <1>1, <1>2, <1>3 DEF QueryLimit, Others

(* What one check may owe, and all of those but one that hold a permit. *)
LEMMA OneOwes ==
  ASSUME Shape, NEW c
  PROVE  LET own == {c} \X (1 .. Len(resolvers))
         IN  IsFiniteSet(own) /\ Cardinality(own) = Len(resolvers)
<1>1. /\ IsFiniteSet(1 .. Len(resolvers))
      /\ Cardinality(1 .. Len(resolvers)) = Len(resolvers)
  BY ResolversSeq, UpTo DEF Shape
<1>2. IsFiniteSet({c}) /\ Cardinality({c}) = 1
  BY FS_Singleton
<1>3. 1 * Len(resolvers) = Len(resolvers)
  BY ResolversSeq DEF Shape
<1>. QED  BY <1>1, <1>2, <1>3, FS_Product

LEMMA OthersOwe ==
  ASSUME Shape, PermitsKept, WireInv, NEW p \in Process, NEW c \in Holding(p)
  PROVE  Cardinality({q \in Owed(p) : q[1] # c}) <= Others
<1>. DEFINE rest == Holding(p) \ {c}
            most == rest \X (1 .. Len(resolvers))
            owed == {q \in Owed(p) : q[1] # c}
            n == Len(resolvers)
            h == Cardinality(rest)
<1>1. IsFiniteSet(rest) /\ h \in Nat /\ h <= Permits - 1
  <2>1. IsFiniteSet(rest) /\ h = Cardinality(Holding(p)) - 1
    BY HoldingFinite, FS_RemoveElement
  <2>2. Cardinality(Holding(p)) <= Permits
    BY HoldingFinite, OutboundAssumption DEF PermitsKept, WireInv, Shape
  <2>. QED  BY <2>1, <2>2, FS_CardinalityType, HoldingFinite, OutboundAssumption
<1>2. IsFiniteSet(1 .. n) /\ Cardinality(1 .. n) = n /\ n \in Nat
  BY ResolversSeq, UpTo DEF Shape
<1>3. IsFiniteSet(most) /\ Cardinality(most) = h * n
  BY <1>1, <1>2, FS_Product
<1>4. owed \subseteq most
  BY DEF Owed, Holding
<1>5. Cardinality(owed) <= h * n
  BY <1>3, <1>4, FS_Subset
<1>6. h * n <= (Permits - 1) * n
  <2>1. \A i, j, k \in Nat : i <= j => i * k <= j * k
    OBVIOUS
  <2>. QED  BY <1>1, <1>2, <2>1, OutboundAssumption
<1>7. Cardinality(owed) \in Nat /\ h * n \in Nat
  BY <1>3, <1>4, FS_Subset, FS_CardinalityType
<1>8. (Permits - 1) * n \in Int
  BY LimitsNat DEF Others
<1>. QED  BY <1>5, <1>6, <1>7, <1>8 DEF Others

(* What a process owes when a call moves: nothing changes for the others. *)
LEMMA OwedElsewhere ==
  ASSUME NEW c \in Call, Alone(c), resolvers' = resolvers, NEW p, ServedBy[c] # p
  PROVE  Owed(p)' = Owed(p)
<1>1. \A q \in Call \X (1 .. Len(resolvers)) : q[1] \in Call
  OBVIOUS
<1>2. \A d \in Call : ServedBy[d] = p => call'[d] = call[d]
  BY DEF Alone
<1>. QED  BY <1>1, <1>2 DEF Owed

LEMMA OwedByOthers ==
  ASSUME NEW c \in Call, Alone(c), resolvers' = resolvers, NEW p, call'[c].at # "ask"
  PROVE  Owed(p)' = {q \in Owed(p) : q[1] # c}
<1>1. \A q \in Call \X (1 .. Len(resolvers)) :
        q[1] \in Call /\ (q[1] # c => call'[q[1]] = call[q[1]])
  BY DEF Alone
<1>. QED  BY <1>1 DEF Owed

(* Nothing is charged or sent, and no check owes more than it did. *)
LEMMA WireQuiet ==
  ASSUME Shape, WireInv, UNCHANGED <<resolvers, budget, sent>>, now' \in Nat, now <= now',
         \A p \in Process : free'[p] >= 0,
         \A c \in Call : call'[c].left <= Len(resolvers),
         \A p \in Process : Owed(p)' \subseteq Owed(p)
  PROVE  WireInv'
<1>1. ASSUME NEW p \in Process PROVE Covered(p)'
  <2>1. Cardinality(Owed(p)') <= Cardinality(Owed(p)) /\ Cardinality(Owed(p)') \in Nat
    BY OwedFinite, FS_Subset, FS_CardinalityType
  <2>2. Covered(p) /\ sent[p] \in Nat /\ budget[p].spent \in Nat
    BY DEF WireInv
  <2>3. QueryLimit' = QueryLimit /\ Others' = Others
    BY DEF QueryLimit, Others
  <2>4. Cardinality(Owed(p)) \in Nat /\ QueryLimit \in Nat /\ Others \in Nat
    BY OwedFinite, LimitsNat
  <2>5. /\ budget[p].spent <= QueryLimit
        /\ sent[p] + Cardinality(Owed(p)) <= budget[p].spent + Others
    BY <2>2 DEF Covered
  <2>6. sent[p] + Cardinality(Owed(p)') <= budget[p].spent + Others
    BY <2>1, <2>2, <2>4, <2>5
  <2>. QED  BY <2>3, <2>5, <2>6 DEF Covered
<1>2. ASSUME NEW p \in Process PROVE budget'[p].started <= now'
  BY DEF WireInv, Shape
<1>. QED  BY <1>1, <1>2 DEF WireInv

(* The process of a call; its budget and its window as the charge finds them. *)
LEMMA Charged ==
  ASSUME Shape, WireInv, NEW c \in Call
  PROVE  LET p == ServedBy[c]
         IN  /\ p \in Process /\ Current(p) \in [started : Nat, spent : Nat]
             /\ Current(p).started <= now /\ Current(p).spent <= QueryLimit
             /\ budget[p] \in [started : Nat, spent : Nat] /\ sent[p] \in Nat
<1>1. ServedBy[c] \in Process
  BY OutboundAssumption
<1>. QED  BY <1>1, LimitsNat DEF Current, WireInv, Covered, Shape

LEMMA LeftKept ==
  ASSUME Shape, WireInv, NEW c \in Call, Alone(c), call'[c].left <= Len(resolvers)
  PROVE  \A d \in Call : call'[d].left <= Len(resolvers)
BY DEF Alone, WireInv

LEMMA ChargeWire ==
  ASSUME Shape, PermitsKept, WireInv, NEW c \in Call, Charge(c)
  PROVE  WireInv'
<1>. DEFINE p == ServedBy[c]
            n == Len(resolvers)
            rest == {q \in Owed(p) : q[1] # c}
            own == {c} \X (1 .. n)
<1>0. /\ UNCHANGED <<now, resolvers, free>> /\ call[c].at = "charge"
      /\ Affordable(p) /\ Renew(p)
      /\ budget' = [budget EXCEPT ![p] = [Current(p) EXCEPT !.spent = @ + n]]
      /\ call'[c].at = "ask" /\ call'[c].left = n
      /\ Alone(c)
  BY DEF Charge, Shape, CallRow, Alone
<1>1. /\ p \in Process /\ Current(p) \in [started : Nat, spent : Nat]
      /\ Current(p).started <= now
      /\ budget[p] \in [started : Nat, spent : Nat] /\ sent[p] \in Nat
  BY Charged
<1>2. n \in Nat /\ QueryLimit \in Nat /\ Others \in Nat
  BY LimitsNat
<1>3. budget' \in [Process -> [started : Nat, spent : Nat]]
      /\ budget'[p] = [started |-> Current(p).started, spent |-> Current(p).spent + n]
  <2>1. [Current(p) EXCEPT !.spent = @ + n]
          = [started |-> Current(p).started, spent |-> Current(p).spent + n]
    BY <1>1
  <2>. QED  BY <1>0, <1>1, <1>2, <2>1 DEF WireInv
<1>4. sent' \in [Process -> Nat] /\ sent'[p] = IF Over(p) THEN 0 ELSE sent[p]
  BY <1>0, <1>1 DEF Renew, WireInv
<1>5. Owed(p)' = rest \cup own /\ rest \cap own = {} /\ rest = Owed(p)
  <2>1. \A q \in Call \X (1 .. n) :
          q[1] \in Call /\ q[2] \in 1 .. n /\ (q[1] # c => call'[q[1]] = call[q[1]])
    BY <1>0 DEF Alone
  <2>2. \A q \in own : q[1] = c /\ q[2] \in 1 .. n /\ q[2] <= n /\ q \in Call \X (1 .. n)
    BY <1>2
  <2>3. \A q \in Call \X (1 .. n) : q[1] = c => q \in own
    OBVIOUS
  <2>4. rest \cup own \subseteq Owed(p)'
    BY <1>0, <2>1, <2>2 DEF Owed
  <2>5. Owed(p)' \subseteq rest \cup own
    BY <1>0, <2>1, <2>3 DEF Owed
  <2>6. rest = Owed(p)
    BY <1>0 DEF Owed
  <2>. QED  BY <2>2, <2>4, <2>5, <2>6
<1>6. /\ IsFiniteSet(own) /\ Cardinality(own) = n
      /\ IsFiniteSet(rest) /\ Cardinality(rest) \in Nat
      /\ Cardinality(rest) <= Others
  <2>1. c \in Holding(p)
    BY <1>0 DEF Holding
  <2>2. Cardinality(rest) <= Others
    BY <1>1, <2>1, OthersOwe
  <2>. QED  BY <1>5, <2>2, OneOwes, OwedFinite
<1>. HIDE DEF rest, own
<1>65. Cardinality(Owed(p)') = Cardinality(rest) + n
  <2>1. Cardinality(rest \cup own)
          = Cardinality(rest) + Cardinality(own) - Cardinality(rest \cap own)
    BY <1>6, FS_Union
  <2>2. Cardinality(rest \cap own) = 0
    BY <1>5, FS_EmptySet
  <2>. QED  BY <1>2, <1>5, <1>6, <2>1, <2>2
<1>7. Covered(p)'
  <2>1. QueryLimit' = QueryLimit /\ Others' = Others
    BY <1>0 DEF QueryLimit, Others
  <2>2. Current(p).spent + n <= QueryLimit
    BY <1>0 DEF Affordable
  <2>3. CASE Over(p)
    <3>3. Current(p).spent = 0
      BY <2>3 DEF Current
    <3>4. sent'[p] = 0 /\ budget'[p].spent = n
      BY <1>2, <1>3, <1>4, <2>3, <3>3
    <3>5. n <= QueryLimit /\ 0 + Cardinality(Owed(p)') <= n + Others
      BY <1>2, <1>6, <1>65, <2>2, <3>3
    <3>. QED  BY <2>1, <3>4, <3>5 DEF Covered
  <2>4. CASE ~Over(p)
    <3>1. Current(p) = budget[p]
      BY <2>4 DEF Current
    <3>2. Covered(p)
      BY <1>1 DEF WireInv
    <3>3. sent'[p] = sent[p] /\ budget'[p].spent = budget[p].spent + n
      BY <1>3, <1>4, <2>4, <3>1
    <3>4. sent[p] + Cardinality(Owed(p)) <= budget[p].spent + Others
      BY <3>2 DEF Covered
    <3>5. /\ Cardinality(Owed(p)') = Cardinality(Owed(p)) + n
          /\ Cardinality(Owed(p)) \in Nat
      BY <1>5, <1>6, <1>65
    <3>6. budget[p].spent \in Nat /\ sent[p] \in Nat
      BY <1>1
    <3>7. sent[p] + Cardinality(Owed(p)') <= budget[p].spent + n + Others
      <4>1. \A x, y, z, o \in Nat : x + y <= z + o => x + (y + n) <= (z + n) + o
        BY <1>2
      <4>. QED  BY <1>2, <3>4, <3>5, <3>6, <4>1
    <3>. QED  BY <2>1, <2>2, <3>1, <3>3, <3>7 DEF Covered
  <2>. QED  BY <2>3, <2>4
<1>8. ASSUME NEW q \in Process, q # p PROVE Covered(q)'
  <2>1. Owed(q)' = Owed(q)
    BY <1>0, <1>8, OwedElsewhere
  <2>2. budget'[q] = budget[q] /\ sent'[q] = sent[q]
    BY <1>0, <1>8 DEF Renew, WireInv
  <2>3. QueryLimit' = QueryLimit /\ Others' = Others
    BY <1>0 DEF QueryLimit, Others
  <2>. QED  BY <2>1, <2>2, <2>3 DEF WireInv, Covered
<1>9. \A d \in Call : call'[d].left <= Len(resolvers)'
  <2>1. call'[c].left <= n
    BY <1>0, <1>2
  <2>. QED  BY <1>0, <2>1, LeftKept
<1>10. \A q \in Process : free'[q] >= 0 /\ budget'[q].started <= now'
  BY <1>0, <1>1, <1>3 DEF WireInv
<1>. QED  BY <1>3, <1>4, <1>7, <1>8, <1>9, <1>10 DEF WireInv

(* What an action of a call does to budgets and windows that are not its own. *)
LEMMA CoveredElsewhere ==
  ASSUME WireInv, NEW c \in Call, Alone(c), resolvers' = resolvers,
         NEW p \in Process, ServedBy[c] # p, budget'[p] = budget[p], sent'[p] = sent[p]
  PROVE  Covered(p)'
<1>1. Owed(p)' = Owed(p)
  BY OwedElsewhere
<1>2. QueryLimit' = QueryLimit /\ Others' = Others
  BY DEF QueryLimit, Others
<1>. QED  BY <1>1, <1>2 DEF WireInv, Covered

LEMMA OverspentWire ==
  ASSUME Shape, PermitsKept, WireInv, NEW c \in Call, Overspent(c)
  PROVE  WireInv'
<1>. DEFINE p == ServedBy[c]
            rest == {q \in Owed(p) : q[1] # c}
<1>0. /\ UNCHANGED <<now, resolvers>> /\ call[c].at = "charge" /\ Renew(p)
      /\ budget' = [budget EXCEPT ![p] = Current(p)]
      /\ free' = [free EXCEPT ![p] = @ + 1]
      /\ call'[c].at # "ask" /\ call'[c].left = 0
      /\ Alone(c)
  BY DEF Overspent, Release, End, Idle, Shape, Alone
<1>1. /\ p \in Process /\ Current(p) \in [started : Nat, spent : Nat]
      /\ Current(p).started <= now /\ Current(p).spent <= QueryLimit
      /\ budget[p] \in [started : Nat, spent : Nat] /\ sent[p] \in Nat
  BY Charged
<1>2. QueryLimit \in Nat /\ Others \in Nat /\ Len(resolvers) \in Nat
  BY LimitsNat
<1>3. /\ budget' \in [Process -> [started : Nat, spent : Nat]]
      /\ budget'[p] = Current(p)
  BY <1>0, <1>1 DEF WireInv
<1>4. sent' \in [Process -> Nat] /\ sent'[p] = IF Over(p) THEN 0 ELSE sent[p]
  BY <1>0, <1>1 DEF Renew, WireInv
<1>5. Owed(p)' = rest
  BY <1>0, OwedByOthers
<1>6. c \in Holding(p)
  BY <1>0 DEF Holding
<1>7. /\ Cardinality(Owed(p)') <= Others /\ Cardinality(Owed(p)') \in Nat
      /\ Cardinality(Owed(p)') <= Cardinality(Owed(p)) /\ Cardinality(Owed(p)) \in Nat
  <2>1. Cardinality(rest) <= Others
    BY <1>1, <1>6, OthersOwe
  <2>2. Cardinality(rest) <= Cardinality(Owed(p)) /\ IsFiniteSet(rest)
    BY OwedFinite, FS_Subset
  <2>3. Cardinality(rest) \in Nat /\ Cardinality(Owed(p)) \in Nat
    BY <2>2, OwedFinite, FS_CardinalityType
  <2>. QED  BY <1>5, <2>1, <2>2, <2>3
<1>8. Covered(p)'
  <2>1. QueryLimit' = QueryLimit /\ Others' = Others
    BY <1>0 DEF QueryLimit, Others
  <2>2. CASE Over(p)
    <3>1. sent'[p] = 0 /\ budget'[p].spent = 0
      BY <1>3, <1>4, <2>2 DEF Current
    <3>2. 0 + Cardinality(Owed(p)') <= 0 + Others
      BY <1>2, <1>7
    <3>. QED  BY <1>2, <2>1, <3>1, <3>2 DEF Covered
  <2>3. CASE ~Over(p)
    <3>1. sent'[p] = sent[p] /\ budget'[p] = budget[p]
      BY <1>3, <1>4, <2>3 DEF Current
    <3>2. /\ sent[p] + Cardinality(Owed(p)) <= budget[p].spent + Others
          /\ budget[p].spent <= QueryLimit
      BY <1>1 DEF WireInv, Covered
    <3>3. sent[p] + Cardinality(Owed(p)') <= budget[p].spent + Others
      <4>1. budget[p].spent \in Nat /\ sent[p] \in Nat
        BY <1>1
      <4>2. \A x, y, y1, z, o \in Nat :
              x + y <= z + o /\ y1 <= y => x + y1 <= z + o
        OBVIOUS
      <4>. QED  BY <1>2, <1>7, <3>2, <4>1, <4>2
    <3>. QED  BY <2>1, <3>1, <3>2, <3>3 DEF Covered
  <2>. QED  BY <2>2, <2>3
<1>9. \A q \in Process : q # p => Covered(q)'
  BY <1>0, CoveredElsewhere DEF Renew, WireInv
<1>10. \A d \in Call : call'[d].left <= Len(resolvers)'
  BY <1>0, <1>2, LeftKept
<1>11. \A q \in Process : free'[q] >= 0 /\ budget'[q].started <= now'
  BY <1>0, <1>1, <1>3 DEF WireInv, Shape
<1>. QED  BY <1>3, <1>4, <1>8, <1>9, <1>10, <1>11 DEF WireInv

(* The query that goes out is one of those owed. *)
LEMMA AskWire ==
  ASSUME Shape, WireInv, NEW c \in Call, Ask(c)
  PROVE  WireInv'
<1>. DEFINE p == ServedBy[c]
            one == <<c, call[c].left>>
<1>0. /\ UNCHANGED <<now, resolvers, free, budget>> /\ call[c].at = "ask"
      /\ sent' = [sent EXCEPT ![p] = @ + 1]
      /\ call[c].left \in 1 .. Len(resolvers)
      /\ call'[c].at = "ask" /\ call'[c].left = call[c].left - 1
      /\ Alone(c)
  <2>1. call[c].left \in Nat /\ call[c].left <= Len(resolvers) /\ Len(resolvers) \in Nat
    BY ResolversSeq DEF Shape, CallRow, WireInv
  <2>. QED  BY <2>1 DEF Ask, Askable, Shape, CallRow, Alone
<1>1. p \in Process /\ sent[p] \in Nat /\ budget[p].spent \in Nat
  BY Charged
<1>2. QueryLimit \in Nat /\ Others \in Nat /\ Len(resolvers) \in Nat
  BY LimitsNat
<1>3. sent' \in [Process -> Nat] /\ sent'[p] = sent[p] + 1
  BY <1>0, <1>1 DEF WireInv
<1>4. Owed(p)' = Owed(p) \ {one} /\ one \in Owed(p)
  <2>1. \A q \in Call \X (1 .. Len(resolvers)) :
          /\ q[1] \in Call /\ q[2] \in 1 .. Len(resolvers)
          /\ q[1] # c => call'[q[1]] = call[q[1]]
          /\ q # one <=> q[1] # c \/ q[2] # call[c].left
    BY <1>0 DEF Alone
  <2>2. one \in Owed(p)
    BY <1>0 DEF Owed
  <2>3. \A i \in 1 .. Len(resolvers) :
          i <= call[c].left - 1 <=> i <= call[c].left /\ i # call[c].left
    BY <1>0, <1>2
  <2>. QED  BY <1>0, <2>1, <2>2, <2>3 DEF Owed
<1>5. Cardinality(Owed(p)') = Cardinality(Owed(p)) - 1 /\ Cardinality(Owed(p)) \in Nat
  <2>1. IsFiniteSet(Owed(p)) /\ one \in Owed(p)
    BY <1>4, OwedFinite
  <2>. HIDE DEF one
  <2>2. Cardinality(Owed(p) \ {one}) = Cardinality(Owed(p)) - 1
    BY <2>1, FS_RemoveElement
  <2>. QED  BY <1>4, <2>2, OwedFinite
<1>6. Covered(p)'
  <2>1. QueryLimit' = QueryLimit /\ Others' = Others
    BY <1>0 DEF QueryLimit, Others
  <2>2. /\ sent[p] + Cardinality(Owed(p)) <= budget[p].spent + Others
        /\ budget[p].spent <= QueryLimit
    BY <1>1 DEF WireInv, Covered
  <2>3. (sent[p] + 1) + (Cardinality(Owed(p)) - 1) <= budget[p].spent + Others
    BY <1>1, <1>2, <1>5, <2>2
  <2>. QED  BY <1>0, <1>3, <1>5, <2>1, <2>2, <2>3 DEF Covered
<1>7. \A q \in Process : q # p => Covered(q)'
  BY <1>0, CoveredElsewhere DEF WireInv
<1>8. \A d \in Call : call'[d].left <= Len(resolvers)'
  BY <1>0, <1>2, LeftKept
<1>. QED  BY <1>0, <1>3, <1>6, <1>7, <1>8 DEF WireInv

(* What a restarted process owed is forgotten with the checks. *)
LEMMA RestartWire ==
  ASSUME Shape, WireInv, NEW p \in Process, Restart(p)
  PROVE  WireInv'
<1>0. UNCHANGED <<now, resolvers>> /\ now \in Nat
  BY DEF Restart, Shape
<1>1. QueryLimit \in Nat /\ Others \in Nat /\ Len(resolvers) \in Nat
  BY LimitsNat
<1>2. QueryLimit' = QueryLimit /\ Others' = Others
  BY <1>0 DEF QueryLimit, Others
<1>3. Covered(p)'
  <2>1. Owed(p)' = {}
    BY DEF Owed, Restart, Idle
  <2>2. Cardinality(Owed(p)') = 0
    BY <2>1, FS_EmptySet
  <2>3. budget'[p].spent = 0 /\ sent'[p] = 0
    BY DEF Restart, WireInv
  <2>4. 0 + 0 <= 0 + Others
    BY <1>1
  <2>. QED  BY <1>1, <1>2, <2>2, <2>3, <2>4 DEF Covered
<1>4. ASSUME NEW q \in Process, q # p PROVE Covered(q)'
  <2>1. budget'[q] = budget[q] /\ sent'[q] = sent[q]
    BY <1>4 DEF Restart, WireInv
  <2>2. \A e \in Call \X (1 .. Len(resolvers)) : e[1] \in Call
    OBVIOUS
  <2>3. Owed(q)' = Owed(q)
    BY <1>0, <1>4, <2>2 DEF Owed, Restart
  <2>. QED  BY <1>2, <2>1, <2>3 DEF WireInv, Covered
<1>5. \A d \in Call : call'[d].left <= Len(resolvers)'
  BY <1>0, <1>1 DEF Restart, WireInv, Idle
<1>6. budget' \in [Process -> [started : Nat, spent : Nat]] /\ sent' \in [Process -> Nat]
  BY <1>0 DEF Restart, WireInv
<1>7. \A q \in Process : free'[q] >= 0 /\ budget'[q].started <= now'
  BY <1>0, OutboundAssumption DEF Restart, WireInv, Shape
<1>. QED  BY <1>3, <1>4, <1>5, <1>6, <1>7 DEF WireInv

(* The way to a charge, and from the last query out, costs nothing. *)
LEMMA UnchargedWire ==
  ASSUME Shape, WireInv, NEW c \in Call,
         \/ Begin(c) \/ PassGate(c) \/ RefuseGate(c) \/ FailOpen(c)
         \/ Acquire(c) \/ NoAdmission(c) \/ Resolved(c)
  PROVE  WireInv'
<1>0. UNCHANGED <<now, resolvers, budget, sent>> /\ now \in Nat
  BY DEF Begin, PassGate, RefuseGate, FailOpen, Acquire, NoAdmission, Resolved, dns, Shape
<1>1. Alone(c)
  BY CallStep DEF Proceed
<1>2. ServedBy[c] \in Process /\ free[ServedBy[c]] \in Int /\ free \in [Process -> Int]
  BY OutboundAssumption DEF Shape
<1>3. \A p \in Process : free'[p] >= 0
  <2>1. CASE Acquire(c)
    <3>1. free[ServedBy[c]] > 0 /\ free' = [free EXCEPT ![ServedBy[c]] = free[ServedBy[c]] - 1]
      BY <2>1 DEF Acquire
    <3>. QED  BY <1>2, <3>1 DEF WireInv
  <2>2. CASE Resolved(c)
    <3>1. free' = [free EXCEPT ![ServedBy[c]] = free[ServedBy[c]] + 1]
      BY <2>2 DEF Resolved, Release
    <3>. QED  BY <1>2, <3>1 DEF WireInv
  <2>3. CASE Begin(c) \/ PassGate(c) \/ RefuseGate(c) \/ FailOpen(c) \/ NoAdmission(c)
    BY <2>3 DEF Begin, PassGate, RefuseGate, FailOpen, NoAdmission, dns, WireInv
  <2>. QED  BY <2>1, <2>2, <2>3
<1>4. call'[c].at # "ask" /\ call'[c].left <= Len(resolvers)
  <2>0. /\ call \in [Call -> CallRow] /\ call[c] \in CallRow /\ 0 <= Len(resolvers)
        /\ call[c].left <= Len(resolvers)
    BY LimitsNat DEF Shape, WireInv
  <2>1. CASE Begin(c)
    BY <2>0, <2>1 DEF Begin, Idle
  <2>2. CASE PassGate(c) \/ FailOpen(c)
    <3>. DEFINE rest == Tail(call[c].gates)
                at == IF rest = <<>> THEN "admit" ELSE "gate"
                q == [call[c] EXCEPT !.gates = rest, !.at = at]
    <3>1. call' = [call EXCEPT ![c] = IF rest = <<>> /\ ~call[c].checks THEN Idle ELSE q]
      BY <2>2 DEF PassGate, FailOpen, Onward
    <3>2. q.at # "ask" /\ q.left = call[c].left
      BY <2>0 DEF CallRow
    <3>3. Idle.at # "ask" /\ Idle.left = 0
      BY DEF Idle
    <3>. HIDE DEF q
    <3>. QED  BY <2>0, <3>1, <3>2, <3>3
  <2>3. CASE RefuseGate(c) \/ NoAdmission(c) \/ Resolved(c)
    BY <2>0, <2>3 DEF RefuseGate, NoAdmission, Resolved, End, Idle
  <2>4. CASE Acquire(c)
    BY <2>0, <2>4 DEF Acquire, CallRow
  <2>. QED  BY <2>1, <2>2, <2>3, <2>4
<1>5. \A p \in Process : Owed(p)' \subseteq Owed(p)
  BY <1>0, <1>1, <1>4, OwedByOthers
<1>6. \A d \in Call : call'[d].left <= Len(resolvers)
  BY <1>1, <1>4, LeftKept
<1>. QED  BY <1>0, <1>3, <1>5, <1>6, WireQuiet

LEMMA WireStep ==
  ASSUME Shape, PermitsKept, WireInv, [Next]_vars
  PROVE  WireInv'
<1>1. CASE \/ UNCHANGED vars
           \/ Tick \/ ProofOfWork \/ (RedisLost /\ UNCHANGED <<resolvers, dns, call>>)
  <2>1. UNCHANGED <<resolvers, dns, call>> /\ (now' = now \/ now' = now + 1)
    BY <1>1 DEF vars, Tick, ProofOfWork, RedisLost, IssueChallenge, VerifyAndConsume
  <2>2. \A p \in Process : Owed(p)' \subseteq Owed(p)
    BY <2>1 DEF Owed
  <2>3. now' \in Nat /\ now <= now'
    BY <2>1 DEF Shape
  <2>4. UNCHANGED <<free, budget, sent>>
    BY <2>1 DEF dns
  <2>5. \A p \in Process : free'[p] >= 0
    BY <2>4 DEF WireInv
  <2>6. \A d \in Call : call'[d].left <= Len(resolvers)
    BY <2>1 DEF WireInv
  <2>. QED  BY <2>1, <2>2, <2>3, <2>4, <2>5, <2>6, WireQuiet
<1>2. ASSUME NEW c \in Call, Begin(c) \/ Proceed(c) \/ FailOpen(c) PROVE WireInv'
  BY <1>2, UnchargedWire, ChargeWire, OverspentWire, AskWire DEF Proceed
<1>3. CASE \E p \in Process : Restart(p)
  BY <1>3, RestartWire
<1>. QED  BY <1>1, <1>2, <1>3 DEF Next, SteadyNext

LEMMA WireInit == Init => WireInv
<1>. SUFFICES ASSUME Init PROVE WireInv
  OBVIOUS
<1>0. Shape
  BY ShapeInit
<1>1. QueryLimit \in Nat /\ Others \in Nat /\ Len(resolvers) \in Nat
  BY <1>0, LimitsNat
<1>2. ASSUME NEW p \in Process PROVE Covered(p)
  <2>1. Owed(p) = {}
    BY DEF Owed, Init, Idle
  <2>2. Cardinality(Owed(p)) = 0
    BY <2>1, FS_EmptySet
  <2>3. budget[p].spent = 0 /\ sent[p] = 0
    BY DEF Init
  <2>4. 0 + 0 <= 0 + Others
    BY <1>1
  <2>. QED  BY <1>1, <2>2, <2>3, <2>4 DEF Covered
<1>3. \A c \in Call : call[c].left <= Len(resolvers)
  BY <1>1 DEF Init, Idle
<1>4. budget \in [Process -> [started : Nat, spent : Nat]] /\ sent \in [Process -> Nat]
  BY DEF Init
<1>5. \A p \in Process : free[p] >= 0 /\ budget[p].started <= now
  BY OutboundAssumption DEF Init, RateInit
<1>. QED  BY <1>2, <1>3, <1>4, <1>5 DEF WireInv

LEMMA WireAlways == Spec => []WireInv
<1>1. Init => WireInv
  BY WireInit
<1>2. Shape /\ PermitsKept /\ WireInv /\ [Next]_vars => WireInv'
  BY WireStep
<1>. QED  BY <1>1, <1>2, ShapeAlways, PermitsAlwaysKept, PTL DEF Spec

(***************************************************************************)
(* Whatever Redis does and however processes restart, a process sends in a *)
(* window of its budget at most the budget and what the checks behind its  *)
(* other permits had been charged for before (_OutboundBudget.charge).     *)
(***************************************************************************)
THEOREM WireAlwaysBounded == Spec => []WireBounded
<1>1. Shape /\ WireInv => WireBounded
  <2>. SUFFICES ASSUME Shape, WireInv, NEW p \in Process PROVE sent[p] <= QueryLimit + Others
    BY DEF WireBounded, Others
  <2>1. QueryLimit \in Nat /\ Others \in Nat /\ Cardinality(Owed(p)) \in Nat
    BY LimitsNat, OwedFinite
  <2>2. sent[p] \in Nat /\ budget[p].spent \in Nat
    BY DEF WireInv
  <2>3. /\ budget[p].spent <= QueryLimit
        /\ sent[p] + Cardinality(Owed(p)) <= budget[p].spent + Others
    BY DEF WireInv, Covered
  <2>. QED  BY <2>1, <2>2, <2>3
<1>. QED  BY <1>1, ShapeAlways, WireAlways, PTL

-----------------------------------------------------------------------------
(***************************************************************************)
(* TwiceAtMost and RefusalEarned.  The requests counted within the limit   *)
(* that are not yet a window old are those of the window that lives and    *)
(* those of one before it: each has a number of its own in its window, up  *)
(* to the limit.  The window that lives has every number it counted, and   *)
(* of the one before it the first is forgotten: it is a window old.        *)
(***************************************************************************)
Started(k) == window[k].until - Window[k]

OfWindow(k) == {e \in passes[k] : window[k].count > 0 /\ e.at >= Started(k)}
Before(k) == passes[k] \ OfWindow(k)

Numbered(S) == \A e, f \in S : e.nth = f.nth => e = f

WindowKept(k) ==
  /\ window[k].count <= Limit[k] + 1
  /\ IF window[k].count > 0 THEN now < window[k].until /\ Started(k) <= now
                            ELSE window[k].until = 0

PassesKept(k) ==
  /\ \A e \in passes[k] : /\ now - Window[k] < e.at /\ e.at <= now
                          /\ e.nth <= Limit[k] /\ (window[k].count = 0 => e.at < now)
  /\ \A e \in OfWindow(k) : e.nth <= window[k].count
  /\ Numbered(OfWindow(k)) /\ Numbered(Before(k))

(* The first request of a window started it; none before it is remembered. *)
FirstKept(k) ==
  \A e \in passes[k] : e.nth = 1 => window[k].count > 0 /\ e.at = Started(k)

CountKept(k) ==
  \A n \in 1 .. window[k].count :
    n <= Limit[k] => \E e \in passes[k] : e \in OfWindow(k) /\ e.nth = n

PassRow == [at : Nat, nth : Nat \ {0}]

WindowInv ==
  /\ now \in Nat
  /\ window \in [Key -> [count : Nat, until : Nat]]
  /\ passes \in [Key -> SUBSET PassRow]
  /\ \A k \in Key : WindowKept(k) /\ PassesKept(k) /\ FirstKept(k) /\ CountKept(k)

LEMMA KeyConstants ==
  ASSUME NEW k \in Key
  PROVE  Limit[k] \in Nat \ {0} /\ Window[k] \in Nat \ {0}
BY RateAssumption

(* Requests numbered above m are no more than what the highest is above m. *)
LEMMA NumberedAtMost ==
  ASSUME NEW S, S \subseteq PassRow, NEW m \in Nat, NEW n \in Nat, m <= n, Numbered(S),
         \A e \in S : m < e.nth /\ e.nth <= n
  PROVE  IsFiniteSet(S) /\ Cardinality(S) \in Nat /\ Cardinality(S) <= n - m
<1>. DEFINE f == [e \in S |-> e.nth - m]
<1>0. \A e \in S : e.nth \in Nat
  BY DEF PassRow
<1>1. f \in [S -> 1 .. n - m]
  BY <1>0
<1>2. f \in Injection(S, 1 .. n - m)
  <2>1. \A e, g \in S : f[e] = f[g] => e = g
    BY <1>0 DEF Numbered
  <2>. HIDE DEF f
  <2>. QED  BY <1>1, <2>1, Fun_IsInj
<1>3. n - m \in Nat /\ IsFiniteSet(1 .. n - m) /\ Cardinality(1 .. n - m) = n - m
  BY UpTo
<1>. HIDE DEF f
<1>4. IsFiniteSet(S) /\ Cardinality(S) <= Cardinality(1 .. n - m)
  BY <1>2, <1>3, FS_Injection
<1>. QED  BY <1>3, <1>4, FS_CardinalityType

(* The window that lives has at most the limit, the one before it one less. *)
LEMMA WindowParts ==
  ASSUME WindowInv, NEW k \in Key
  PROVE  /\ passes[k] = OfWindow(k) \cup Before(k)
         /\ IsFiniteSet(OfWindow(k)) /\ Cardinality(OfWindow(k)) \in Nat
         /\ Cardinality(OfWindow(k)) <= Limit[k]
         /\ IsFiniteSet(Before(k)) /\ Cardinality(Before(k)) \in Nat
         /\ Cardinality(Before(k)) <= Limit[k] - 1
         /\ IsFiniteSet(passes[k])
<1>. DEFINE new == OfWindow(k)
            old == Before(k)
<1>1. Limit[k] \in Nat \ {0} /\ 0 \in Nat /\ 1 \in Nat
  BY KeyConstants
<1>2. /\ new \subseteq PassRow /\ old \subseteq PassRow
      /\ passes[k] = new \cup old
      /\ \A e \in new \cup old : e.nth <= Limit[k]
      /\ Numbered(new) /\ Numbered(old)
  BY DEF WindowInv, PassesKept, OfWindow, Before
<1>3. \A e \in old : e.nth # 1
  <2>1. FirstKept(k) /\ Started(k) \in Int
    BY KeyConstants DEF WindowInv, Started
  <2>. QED  BY <2>1 DEF FirstKept, OfWindow, Before
<1>. HIDE DEF new, old
<1>4. /\ \A e \in new : 0 < e.nth /\ e.nth <= Limit[k]
      /\ \A e \in old : 1 < e.nth /\ e.nth <= Limit[k]
  BY <1>2, <1>3 DEF PassRow
<1>5. IsFiniteSet(new) /\ Cardinality(new) \in Nat /\ Cardinality(new) <= Limit[k] - 0
  BY <1>1, <1>2, <1>4, NumberedAtMost
<1>6. IsFiniteSet(old) /\ Cardinality(old) \in Nat /\ Cardinality(old) <= Limit[k] - 1
  BY <1>1, <1>2, <1>4, NumberedAtMost
<1>7. IsFiniteSet(passes[k])
  BY <1>2, <1>5, <1>6, FS_Union
<1>. QED  BY <1>1, <1>2, <1>5, <1>6, <1>7 DEF new, old

LEMMA TwiceBounds ==
  ASSUME WindowInv
  PROVE  TwiceAtMost
<1>. SUFFICES ASSUME NEW k \in Key PROVE Cardinality(passes[k]) <= 2 * Limit[k] - 1
  BY DEF TwiceAtMost
<1>. DEFINE new == OfWindow(k)
            old == Before(k)
<1>1. Limit[k] \in Nat
  BY KeyConstants
<1>2. /\ passes[k] = new \cup old
      /\ IsFiniteSet(new) /\ Cardinality(new) \in Nat /\ Cardinality(new) <= Limit[k]
      /\ IsFiniteSet(old) /\ Cardinality(old) \in Nat /\ Cardinality(old) <= Limit[k] - 1
  BY WindowParts
<1>. HIDE DEF new, old
<1>3. Cardinality(new \cup old)
        = Cardinality(new) + Cardinality(old) - Cardinality(new \cap old)
  BY <1>2, FS_Union
<1>4. Cardinality(new \cap old) \in Nat
  <2>1. IsFiniteSet(new \cap old)
    BY <1>2, FS_Subset
  <2>. QED  BY <2>1, FS_CardinalityType
<1>. QED  BY <1>1, <1>2, <1>3, <1>4

(* What a window that refuses has counted is all remembered. *)
LEMMA RefusalBounds ==
  ASSUME WindowInv
  PROVE  RefusalEarned
<1>. SUFFICES ASSUME NEW k \in Key, ~Allowed(k) PROVE Cardinality(passes[k]) >= Limit[k]
  BY DEF RefusalEarned
<1>. DEFINE pick(n) == CHOOSE e \in passes[k] : e.nth = n
            f == [n \in 1 .. Limit[k] |-> pick(n)]
<1>1. Limit[k] \in Nat /\ window[k].count \in Nat /\ window[k].count >= Limit[k]
  BY KeyConstants DEF WindowInv, Allowed
<1>2. ASSUME NEW n \in 1 .. Limit[k] PROVE pick(n) \in passes[k] /\ pick(n).nth = n
  <2>1. \E e \in passes[k] : e.nth = n
    BY <1>1 DEF WindowInv, CountKept
  <2>. QED  BY <2>1
<1>. HIDE DEF pick
<1>3. f \in Injection(1 .. Limit[k], passes[k])
  <2>1. f \in [1 .. Limit[k] -> passes[k]]
    BY <1>2
  <2>2. \A a, b \in 1 .. Limit[k] : f[a] = f[b] => a = b
    BY <1>2
  <2>. HIDE DEF f
  <2>. QED  BY <2>1, <2>2, Fun_IsInj
<1>4. IsFiniteSet(passes[k])
  BY WindowParts
<1>5. Cardinality(1 .. Limit[k]) <= Cardinality(passes[k])
  <2>. HIDE DEF f
  <2>. QED  BY <1>3, <1>4, FS_Injection
<1>6. Cardinality(passes[k]) \in Nat /\ Cardinality(1 .. Limit[k]) = Limit[k]
  BY <1>1, <1>4, FS_CardinalityType, UpTo
<1>. QED  BY <1>1, <1>5, <1>6

(* A request counted; whether it passes or not is decided by the count. *)
LEMMA CountedWindow ==
  ASSUME WindowInv, NEW k \in Key, Consume(k), now' = now
  PROVE  /\ window' \in [Key -> [count : Nat, until : Nat]]
         /\ \A j \in Key \ {k} : window'[j] = window[j]
         /\ window'[k].count > 0 /\ window[k].count <= window'[k].count
         /\ Allowed(k) => window'[k].count = window[k].count + 1
         /\ window'[k].until = IF window[k].count = 0 THEN now + Window[k] ELSE window[k].until
         /\ WindowKept(k)'
<1>. DEFINE w == [count |-> IF window[k].count <= Limit[k] THEN window[k].count + 1
                            ELSE window[k].count,
                  until |-> IF window[k].count = 0 THEN now + Window[k] ELSE window[k].until]
<1>1. /\ window \in [Key -> [count : Nat, until : Nat]] /\ now \in Nat
      /\ window[k] \in [count : Nat, until : Nat]
      /\ Limit[k] \in Nat \ {0} /\ Window[k] \in Nat \ {0}
  BY KeyConstants DEF WindowInv
<1>2. window' = [window EXCEPT ![k] = w]
  BY DEF Consume, Counted
<1>3. w \in [count : Nat, until : Nat]
  BY <1>1
<1>4. window'[k] = w /\ \A j \in Key \ {k} : window'[j] = window[j]
  BY <1>1, <1>2
<1>5. window' \in [Key -> [count : Nat, until : Nat]]
  BY <1>1, <1>2, <1>3
<1>6. WindowKept(k)
  BY DEF WindowInv
<1>7. WindowKept(k)'
  BY <1>1, <1>4, <1>6 DEF WindowKept, Started
<1>. QED  BY <1>1, <1>4, <1>5, <1>7 DEF Allowed

(* What was let through before the count belongs to its window, or before. *)
LEMMA WindowDivides ==
  ASSUME WindowInv, NEW k \in Key, Consume(k), now' = now
  PROVE  \A e \in passes[k] :
           /\ e \in PassRow
           /\ e \in OfWindow(k) <=> e.at >= Started(k)'
           /\ e \in Before(k) <=> ~(e.at >= Started(k)')
<1>1. /\ window'[k].until = IF window[k].count = 0 THEN now + Window[k] ELSE window[k].until
      /\ window[k] \in [count : Nat, until : Nat]
      /\ Window[k] \in Nat /\ now \in Nat /\ PassesKept(k)
  BY CountedWindow, KeyConstants DEF WindowInv
<1>2. passes[k] \subseteq PassRow
  BY DEF WindowInv
<1>3. CASE window[k].count = 0
  <2>1. Started(k)' = now
    BY <1>1, <1>3 DEF Started
  <2>2. \A e \in passes[k] : e.at < now /\ e.at \in Nat
    BY <1>1, <1>2, <1>3 DEF PassesKept, PassRow
  <2>3. OfWindow(k) = {} /\ Before(k) = passes[k]
    BY <1>3 DEF OfWindow, Before
  <2>. QED  BY <1>1, <1>2, <2>1, <2>2, <2>3
<1>4. CASE window[k].count # 0
  <2>1. Started(k)' = Started(k)
    BY <1>1, <1>4 DEF Started
  <2>. QED  BY <1>1, <1>2, <1>4, <2>1 DEF OfWindow, Before
<1>. QED  BY <1>3, <1>4

LEMMA SoFar ==
  ASSUME WindowInv, NEW k \in Key
  PROVE  \A e \in OfWindow(k) : e.nth <= window[k].count /\ e.nth \in Nat
<1>1. PassesKept(k) /\ passes[k] \subseteq PassRow
  BY DEF WindowInv
<1>2. \A e \in OfWindow(k) : e \in passes[k]
  BY DEF OfWindow
<1>3. \A e \in PassRow : e.nth \in Nat
  BY DEF PassRow
<1>. QED  BY <1>1, <1>2, <1>3 DEF PassesKept

(* A request that is refused is counted past the limit. *)
LEMMA RefuseKeeps ==
  ASSUME WindowInv, NEW k \in Key, Refuse(k), now' = now
  PROVE  WindowInv'
<1>1. /\ window' \in [Key -> [count : Nat, until : Nat]]
      /\ \A j \in Key \ {k} : window'[j] = window[j]
      /\ window'[k].count > 0 /\ window[k].count <= window'[k].count
      /\ window[k].count \in Nat /\ window'[k].count \in Nat
      /\ WindowKept(k)' /\ passes' = passes
  BY CountedWindow DEF WindowInv, Refuse, Consume
<1>2. OfWindow(k)' = OfWindow(k) /\ Before(k)' = Before(k)
  BY <1>1, WindowDivides DEF OfWindow, Before, Refuse
<1>3. PassesKept(k)'
  <2>1. \A e \in OfWindow(k) : e.nth <= window[k].count /\ e.nth \in Nat
    BY SoFar
  <2>2. \A e \in OfWindow(k) : e.nth <= window'[k].count
    BY <1>1, <2>1
  <2>. QED  BY <1>1, <1>2, <2>2 DEF WindowInv, PassesKept
<1>4. Limit[k] \in Nat \ {0} /\ window[k].count >= Limit[k] /\ window[k].count > 0
  BY <1>1, KeyConstants DEF Refuse, Allowed
<1>5. Started(k)' = Started(k)
  BY <1>4, CountedWindow DEF Started, Refuse
<1>6. FirstKept(k)' /\ CountKept(k)'
  <2>1. FirstKept(k) /\ CountKept(k)
    BY DEF WindowInv
  <2>2. FirstKept(k)'
    BY <1>1, <1>5, <2>1 DEF FirstKept
  <2>3. \A n \in 1 .. window'[k].count : n <= Limit[k] => n \in 1 .. window[k].count
    BY <1>1, <1>4
  <2>4. ASSUME NEW n \in 1 .. window'[k].count, n <= Limit[k]
        PROVE  \E e \in passes'[k] : e \in OfWindow(k)' /\ e.nth = n
    <3>1. PICK e \in passes[k] : e \in OfWindow(k) /\ e.nth = n
      BY <2>1, <2>3, <2>4 DEF CountKept
    <3>. QED  BY <1>1, <1>2, <3>1
  <2>5. CountKept(k)'
    BY <2>4 DEF CountKept
  <2>. QED  BY <2>2, <2>5
<1>7. \A j \in Key \ {k} : WindowKept(j)' /\ PassesKept(j)' /\ FirstKept(j)' /\ CountKept(j)'
  <2>. SUFFICES ASSUME NEW j \in Key \ {k}
                PROVE  WindowKept(j)' /\ PassesKept(j)' /\ FirstKept(j)' /\ CountKept(j)'
    OBVIOUS
  <2>1. WindowKept(j) /\ PassesKept(j) /\ FirstKept(j) /\ CountKept(j)
    BY DEF WindowInv
  <2>2. window'[j] = window[j] /\ passes'[j] = passes[j] /\ now' = now
    BY <1>1
  <2>3. WindowKept(j)' /\ FirstKept(j)'
    BY <2>1, <2>2 DEF WindowKept, FirstKept, Started
  <2>4. PassesKept(j)'
    BY <2>1, <2>2 DEF PassesKept, OfWindow, Before, Started
  <2>5. CountKept(j)'
    BY <2>1, <2>2 DEF CountKept, OfWindow, Started
  <2>. QED  BY <2>3, <2>4, <2>5
<1>. QED  BY <1>1, <1>3, <1>6, <1>7 DEF WindowInv

(* The number of a request let through is new to its window. *)
LEMMA PassKeeps ==
  ASSUME WindowInv, NEW k \in Key, Pass(k), now' = now
  PROVE  WindowInv'
<1>. DEFINE one == [at |-> now, nth |-> window'[k].count]
<1>1. /\ window' \in [Key -> [count : Nat, until : Nat]]
      /\ \A j \in Key \ {k} : window'[j] = window[j]
      /\ window'[k].count > 0 /\ window'[k].count = window[k].count + 1
      /\ window[k].count \in Nat /\ window'[k].count \in Nat
      /\ WindowKept(k)'
  BY CountedWindow DEF Pass, WindowInv
<1>2. /\ window'[k].count <= Limit[k] /\ now \in Nat
      /\ Window[k] \in Nat \ {0} /\ Limit[k] \in Nat
  BY <1>1, KeyConstants DEF Pass, Allowed, WindowInv
<1>3. one \in PassRow /\ one.at = now /\ one.nth = window'[k].count
  BY <1>1, <1>2 DEF PassRow
<1>4. passes' = [passes EXCEPT ![k] = passes[k] \cup {one}]
  BY DEF Pass, Consume
<1>. HIDE DEF one
<1>5. /\ passes' \in [Key -> SUBSET PassRow] /\ passes'[k] = passes[k] \cup {one}
      /\ \A j \in Key \ {k} : passes'[j] = passes[j]
  <2>1. passes \in [Key -> SUBSET PassRow]
    BY DEF WindowInv
  <2>. QED  BY <1>3, <1>4, <2>1
<1>6. one.at >= Started(k)'
  BY <1>1, <1>2, <1>3 DEF WindowKept, Started
<1>7. /\ OfWindow(k)' = OfWindow(k) \cup {one}
      /\ one \notin OfWindow(k) => Before(k)' = Before(k) \ {one}
  <2>1. \A e \in passes[k] : (e \in OfWindow(k) <=> e.at >= Started(k)')
    BY WindowDivides DEF Pass
  <2>2. OfWindow(k)' = {e \in passes[k] \cup {one} : e.at >= Started(k)'}
    BY <1>1, <1>5 DEF OfWindow
  <2>3. OfWindow(k) \subseteq passes[k]
    BY DEF OfWindow
  <2>4. OfWindow(k)' = OfWindow(k) \cup {one}
    BY <1>6, <2>1, <2>2, <2>3
  <2>. QED  BY <1>5, <2>4 DEF Before
<1>8. \A e \in OfWindow(k) : e.nth <= window[k].count /\ e.nth \in Nat
  BY SoFar
<1>9. one \notin OfWindow(k)
  BY <1>1, <1>3, <1>8
<1>10. PassesKept(k)'
  <2>1. Numbered(OfWindow(k)) /\ Numbered(Before(k))
    BY DEF WindowInv, PassesKept
  <2>2. Numbered(OfWindow(k)')
    BY <1>1, <1>3, <1>7, <1>8, <2>1 DEF Numbered
  <2>3. Numbered(Before(k)')
    BY <1>7, <1>9, <2>1 DEF Numbered
  <2>4. \A e \in OfWindow(k)' : e.nth <= window'[k].count
    BY <1>1, <1>3, <1>7, <1>8
  <2>5. \A e \in passes[k] : now - Window[k] < e.at /\ e.at <= now /\ e.nth <= Limit[k]
    BY DEF WindowInv, PassesKept
  <2>6. \A e \in passes'[k] : now - Window[k] < e.at /\ e.at <= now /\ e.nth <= Limit[k]
    BY <1>2, <1>3, <1>5, <2>5
  <2>. QED  BY <1>1, <2>2, <2>3, <2>4, <2>6 DEF PassesKept, Numbered
<1>11. FirstKept(k)'
  <2>1. FirstKept(k)
    BY DEF WindowInv
  <2>2. window'[k].until = IF window[k].count = 0 THEN now + Window[k] ELSE window[k].until
    BY CountedWindow DEF Pass
  <2>3. CASE window[k].count = 0
    <3>1. \A e \in passes[k] : e.nth # 1
      BY <2>1, <2>3 DEF FirstKept
    <3>2. Started(k)' = now
      BY <1>2, <2>2, <2>3 DEF Started
    <3>. QED  BY <1>1, <1>3, <1>5, <3>1, <3>2 DEF FirstKept
  <2>4. CASE window[k].count # 0
    <3>1. Started(k)' = Started(k) /\ one.nth # 1
      BY <1>1, <1>3, <2>2, <2>4 DEF Started
    <3>. QED  BY <1>1, <1>5, <2>1, <3>1 DEF FirstKept
  <2>. QED  BY <2>3, <2>4
<1>12. CountKept(k)'
  <2>1. CountKept(k)
    BY DEF WindowInv
  <2>2. \A n \in 1 .. window'[k].count : n = one.nth \/ n \in 1 .. window[k].count
    BY <1>1, <1>3
  <2>3. ASSUME NEW n \in 1 .. window'[k].count, n <= Limit[k]
        PROVE  \E e \in passes'[k] : e \in OfWindow(k)' /\ e.nth = n
    <3>1. CASE n = one.nth
      BY <1>5, <1>7, <3>1
    <3>2. CASE n \in 1 .. window[k].count
      <4>1. PICK e \in passes[k] : e \in OfWindow(k) /\ e.nth = n
        BY <2>1, <2>3, <3>2 DEF CountKept
      <4>. QED  BY <1>5, <1>7, <4>1
    <3>. QED  BY <2>2, <3>1, <3>2
  <2>. QED  BY <2>3 DEF CountKept
<1>13. \A j \in Key \ {k} : WindowKept(j)' /\ PassesKept(j)' /\ FirstKept(j)' /\ CountKept(j)'
  <2>. SUFFICES ASSUME NEW j \in Key \ {k}
                PROVE  WindowKept(j)' /\ PassesKept(j)' /\ FirstKept(j)' /\ CountKept(j)'
    OBVIOUS
  <2>1. WindowKept(j) /\ PassesKept(j) /\ FirstKept(j) /\ CountKept(j)
    BY DEF WindowInv
  <2>2. window'[j] = window[j] /\ passes'[j] = passes[j] /\ now' = now
    BY <1>1, <1>5
  <2>3. WindowKept(j)' /\ FirstKept(j)'
    BY <2>1, <2>2 DEF WindowKept, FirstKept, Started
  <2>4. PassesKept(j)'
    BY <2>1, <2>2 DEF PassesKept, OfWindow, Before, Started
  <2>5. CountKept(j)'
    BY <2>1, <2>2 DEF CountKept, OfWindow, Started
  <2>. QED  BY <2>3, <2>4, <2>5
<1>. QED  BY <1>1, <1>5, <1>10, <1>11, <1>12, <1>13 DEF WindowInv

(* Nothing that was let through goes uncounted: it is new to the history. *)
LEMMA PassCounted ==
  ASSUME WindowInv, NEW k \in Key, Pass(k), now' = now
  PROVE  Cardinality(passes'[k]) = Cardinality(passes[k]) + 1
<1>. DEFINE one == [at |-> now, nth |-> window'[k].count]
<1>1. passes'[k] = passes[k] \cup {one} /\ one.at = now /\ one.nth = window'[k].count
  BY DEF Pass, Consume, WindowInv
<1>. HIDE DEF one
<1>2. one \notin OfWindow(k)
  <2>1. window'[k].count = window[k].count + 1 /\ window[k].count \in Nat
    BY CountedWindow DEF Pass, WindowInv
  <2>. QED  BY <1>1, <2>1, SoFar
<1>3. one \notin passes[k]
  <2>1. now >= Started(k)'
    <3>1. WindowKept(k)' /\ window'[k].count > 0
      BY CountedWindow DEF Pass
    <3>. QED  BY <3>1 DEF WindowKept, WindowInv, Started
  <2>. QED  BY <1>1, <1>2, <2>1, WindowDivides DEF Pass
<1>4. IsFiniteSet(passes[k])
  BY WindowParts
<1>. QED  BY <1>1, <1>3, <1>4, FS_AddElement

(* With time what was let through is forgotten, and all of a window at last. *)
LEMMA ExpireKeeps ==
  ASSUME WindowInv, now' = now + 1, Expire(now')
  PROVE  WindowInv'
<1>. DEFINE t == now + 1
<1>0. now \in Nat
  BY DEF WindowInv
<1>1. /\ window' = [k \in Key |-> IF window[k].until > t THEN window[k] ELSE NoWindow]
      /\ passes' = [k \in Key |-> {e \in passes[k] : e.at > t - Window[k]}]
  BY DEF Expire, Live
<1>2. window' \in [Key -> [count : Nat, until : Nat]] /\ passes' \in [Key -> SUBSET PassRow]
  BY <1>1 DEF WindowInv, NoWindow
<1>3. ASSUME NEW k \in Key PROVE WindowKept(k)' /\ PassesKept(k)' /\ FirstKept(k)' /\ CountKept(k)'
  <2>0. /\ WindowKept(k) /\ PassesKept(k) /\ passes[k] \subseteq PassRow
        /\ FirstKept(k) /\ CountKept(k)
        /\ window[k] \in [count : Nat, until : Nat]
        /\ window'[k] = IF window[k].until > t THEN window[k] ELSE NoWindow
        /\ passes'[k] = {e \in passes[k] : e.at > t - Window[k]}
        /\ Limit[k] \in Nat \ {0} /\ Window[k] \in Nat \ {0}
    BY <1>1, KeyConstants DEF WindowInv
  <2>1. \A e \in passes'[k] :
          /\ e \in passes[k] /\ e \in PassRow /\ now' - Window[k] < e.at
          /\ e.at < now' /\ e.at <= now' /\ e.nth <= Limit[k]
    <3>1. \A e \in passes[k] : e \in PassRow /\ e.at <= now /\ e.nth <= Limit[k] /\ e.at \in Nat
      BY <2>0 DEF PassesKept, PassRow
    <3>. QED  BY <1>0, <2>0, <3>1
  <2>2. CASE window[k].until > t
    <3>1. window'[k] = window[k] /\ window[k].count > 0 /\ Started(k)' = Started(k)
      BY <1>0, <2>0, <2>2 DEF WindowKept, Started
    <3>2. WindowKept(k)'
      BY <1>0, <2>0, <2>2, <3>1 DEF WindowKept, Started
    <3>3. OfWindow(k)' \subseteq OfWindow(k)
      BY <2>1, <3>1 DEF OfWindow
    <3>4. Before(k)' \subseteq Before(k)
      BY <2>1, <3>1 DEF OfWindow, Before
    <3>5. Numbered(OfWindow(k)') /\ Numbered(Before(k)')
      BY <2>0, <3>3, <3>4 DEF PassesKept, Numbered
    <3>6. \A e \in OfWindow(k)' : e.nth <= window'[k].count
      BY <3>1, <3>3, SoFar
    <3>7. PassesKept(k)'
      BY <2>1, <3>1, <3>5, <3>6 DEF PassesKept, Numbered
    <3>8. FirstKept(k)'
      BY <2>0, <2>1, <3>1 DEF FirstKept
    <3>9. \A e \in OfWindow(k) : e \in OfWindow(k)' /\ e \in passes'[k]
      <4>1. Started(k) > t - Window[k] /\ Started(k) \in Int /\ t - Window[k] \in Int
        BY <1>0, <2>0, <2>2 DEF Started
      <4>2. \A e \in OfWindow(k) : e \in passes[k] /\ e.at >= Started(k) /\ e.at \in Nat
        BY <2>0 DEF OfWindow, PassRow
      <4>3. \A e \in OfWindow(k) : e.at > t - Window[k]
        BY <4>1, <4>2
      <4>. QED  BY <2>0, <3>1, <4>2, <4>3 DEF OfWindow
    <3>10. CountKept(k)'
      BY <2>0, <3>1, <3>9 DEF CountKept
    <3>. QED  BY <3>2, <3>7, <3>8, <3>10
  <2>3. CASE ~(window[k].until > t)
    <3>1. window'[k] = NoWindow /\ NoWindow.count = 0 /\ NoWindow.until = 0
      BY <2>0, <2>3 DEF NoWindow
    <3>2. WindowKept(k)'
      BY <2>0, <3>1 DEF WindowKept
    <3>3. OfWindow(k)' = {} /\ Before(k)' = passes'[k]
      BY <3>1 DEF OfWindow, Before
    <3>4. Numbered(passes'[k])
      <4>1. CASE window[k].count = 0
        <5>1. Before(k) = passes[k]
          BY <4>1 DEF OfWindow, Before
        <5>. QED  BY <2>0, <2>1, <5>1 DEF PassesKept, Numbered
      <4>2. CASE window[k].count > 0
        <5>1. Started(k) <= t - Window[k] /\ Started(k) \in Int
          BY <1>0, <2>0, <2>3 DEF Started
        <5>2. \A e \in passes'[k] : e.at > t - Window[k] /\ e.at \in Nat
          BY <2>0, <2>1 DEF PassRow
        <5>3. \A e \in passes'[k] : e.at >= Started(k)
          BY <1>0, <2>0, <5>1, <5>2
        <5>4. \A e \in passes'[k] : e \in OfWindow(k)
          BY <2>1, <4>2, <5>3 DEF OfWindow
        <5>. QED  BY <2>0, <5>4 DEF PassesKept, Numbered
      <4>. QED  BY <2>0, <4>1, <4>2
    <3>5. PassesKept(k)'
      BY <2>1, <3>1, <3>3, <3>4 DEF PassesKept, Numbered
    <3>6. CountKept(k)'
      BY <3>1 DEF CountKept
    <3>7. \A e \in passes'[k] : e.nth # 1
      <4>1. window[k].count > 0 => Started(k) <= t - Window[k] /\ Started(k) \in Int
        BY <1>0, <2>0, <2>3 DEF Started
      <4>2. \A e \in passes'[k] : e.at > t - Window[k] /\ e.at \in Nat /\ e \in passes[k]
        BY <2>0, <2>1 DEF PassRow
      <4>. QED  BY <1>0, <2>0, <4>1, <4>2 DEF FirstKept
    <3>8. FirstKept(k)'
      BY <3>7 DEF FirstKept
    <3>. QED  BY <3>2, <3>5, <3>6, <3>8
  <2>. QED  BY <2>2, <2>3
<1>. QED  BY <1>0, <1>2, <1>3 DEF WindowInv

Forgotten == now \in Nat /\ window = [k \in Key |-> NoWindow] /\ passes = [k \in Key |-> {}]

LEMMA EmptyKeeps == Forgotten => WindowInv
<1>. SUFFICES ASSUME Forgotten PROVE WindowInv
  OBVIOUS
<1>. USE DEF Forgotten
<1>1. window \in [Key -> [count : Nat, until : Nat]] /\ passes \in [Key -> SUBSET PassRow]
  BY DEF NoWindow
<1>2. ASSUME NEW k \in Key PROVE WindowKept(k) /\ PassesKept(k) /\ FirstKept(k) /\ CountKept(k)
  <2>1. window[k].count = 0 /\ window[k].until = 0 /\ passes[k] = {}
    BY DEF NoWindow
  <2>. QED  BY <2>1, KeyConstants
            DEF WindowKept, PassesKept, FirstKept, CountKept, OfWindow, Before, Numbered
<1>. QED  BY <1>1, <1>2 DEF WindowInv

LEMMA WindowStep ==
  ASSUME Shape, WindowInv, [Next]_vars
  PROVE  WindowInv'
<1>1. CASE UNCHANGED <<now, limits>>
  BY <1>1
  DEF limits, WindowInv, WindowKept, PassesKept, FirstKept, CountKept, OfWindow, Before, Started
<1>2. CASE Tick
  BY <1>2, ExpireKeeps DEF Tick
<1>3. CASE RedisLost
  <2>1. Forgotten'
    BY <1>3 DEF Forgotten, RedisLost, Shape
  <2>2. Forgotten' => WindowInv'
    BY EmptyKeeps, PTL
  <2>. QED  BY <2>1, <2>2
<1>4. ASSUME NEW c \in Call, PassGate(c) \/ RefuseGate(c) \/ FailOpen(c)
      PROVE  WindowInv'
  <2>1. PICK k \in Key : (Pass(k) \/ Refuse(k) \/ Unanswered(k)) /\ now' = now
    <3>1. call[c].gates \in Seq(Key) /\ call[c].gates # <<>>
      BY <1>4 DEF Shape, CallRow, PassGate, RefuseGate, FailOpen
    <3>2. Head(call[c].gates) \in Key
      BY <3>1
    <3>. QED  BY <1>4, <3>2 DEF PassGate, RefuseGate, FailOpen
  <2>2. CASE UNCHANGED limits
    BY <1>1, <2>1, <2>2
  <2>3. Consume(k) => Pass(k) \/ Refuse(k)
    BY DEF Pass, Refuse
  <2>. QED  BY <2>1, <2>2, <2>3, PassKeeps, RefuseKeeps DEF Unanswered
<1>5. CASE \/ UNCHANGED vars \/ ProofOfWork \/ \E p \in Process : Restart(p)
           \/ \E c \in Call : \/ Begin(c) \/ Acquire(c) \/ NoAdmission(c) \/ Charge(c)
                              \/ Overspent(c) \/ Ask(c) \/ Resolved(c)
  BY <1>1, <1>5
  DEF vars, ProofOfWork, IssueChallenge, VerifyAndConsume, Restart, Begin, Acquire,
      NoAdmission, Charge, Overspent, Ask, Resolved
<1>. QED  BY <1>2, <1>3, <1>4, <1>5 DEF Next, SteadyNext, Proceed

LEMMA WindowAlways == Spec => []WindowInv
<1>1. Init => WindowInv
  BY EmptyKeeps DEF Forgotten, Init, RateInit
<1>2. Shape /\ WindowInv /\ [Next]_vars => WindowInv'
  BY WindowStep
<1>. QED  BY <1>1, <1>2, ShapeAlways, PTL DEF Spec

(***************************************************************************)
(* No span as long as a window sees twice its limit of requests counted    *)
(* and let through, wherever the span meets the windows (consume,          *)
(* enforce_rate_limit).                                                    *)
(***************************************************************************)
THEOREM TwiceAtMostAlways == Spec => []TwiceAtMost
BY TwiceBounds, WindowAlways, PTL

(***************************************************************************)
(* Whoever is refused is refused for a full limit of requests counted      *)
(* within the last window, however many tried meanwhile (consume).         *)
(***************************************************************************)
THEOREM RefusalAlwaysEarned == Spec => []RefusalEarned
BY RefusalBounds, WindowAlways, PTL

-----------------------------------------------------------------------------
InTime == now \in 0 .. MaxNow

LEMMA ClockAlways == Spec => []InTime
<1>1. Init => InTime
  BY RateAssumption DEF Init, RateInit, InTime
<1>2. InTime /\ [Next]_vars => InTime'
  <2>. SUFFICES ASSUME now \in 0 .. MaxNow, [Next]_vars PROVE now' \in 0 .. MaxNow
    BY DEF InTime
  <2>1. CASE Tick
    BY <2>1, RateAssumption DEF Tick
  <2>2. CASE UNCHANGED now
    BY <2>2
  <2>3. Tick \/ UNCHANGED now
    <3>1. CASE UNCHANGED vars \/ ProofOfWork
      BY <3>1 DEF vars, ProofOfWork, IssueChallenge, VerifyAndConsume
    <3>2. CASE RedisLost \/ \E p \in Process : Restart(p)
      BY <3>2 DEF RedisLost, Restart
    <3>3. ASSUME NEW c \in Call, Begin(c) \/ Proceed(c) \/ FailOpen(c)
          PROVE  UNCHANGED now
      BY <3>3
      DEF Begin, Proceed, FailOpen, PassGate, RefuseGate, Acquire, NoAdmission, Charge,
          Overspent, Ask, Resolved
    <3>. QED  BY <3>1, <3>2, <3>3 DEF Next, SteadyNext
  <2>. QED  BY <2>1, <2>2, <2>3
<1>. QED  BY <1>1, <1>2, PTL DEF Spec

(***************************************************************************)
(* Windows, budgets and calls keep their types: no window counts past the  *)
(* first request refused or outlives its length, no process has more than  *)
(* its permits, and no check owes more queries than there are resolvers.   *)
(***************************************************************************)
THEOREM TypeCorrect == Spec => []TypeOK
<1>1. InTime /\ Shape /\ PermitsKept /\ WireInv /\ WindowInv => TypeOK
  <2>. SUFFICES ASSUME InTime, Shape, PermitsKept, WireInv, WindowInv
                PROVE  TypeOK
    OBVIOUS
  <2>1. \A k \in Key : window[k].count <= Limit[k] + 1 /\ window[k].until <= now + Window[k]
    <3>. TAKE k \in Key
    <3>1. /\ WindowKept(k) /\ window[k] \in [count : Nat, until : Nat]
          /\ Limit[k] \in Nat /\ Window[k] \in Nat /\ now \in Nat
      BY KeyConstants DEF WindowInv
    <3>. QED  BY <3>1 DEF WindowKept, Started
  <2>2. free \in [Process -> 0 .. Permits]
    <3>1. ASSUME NEW p \in Process PROVE free[p] \in 0 .. Permits
      <4>1. free[p] + Cardinality(Holding(p)) = Permits /\ free[p] \in Int /\ free[p] >= 0
        BY DEF PermitsKept, WireInv, Shape
      <4>2. Cardinality(Holding(p)) \in Nat /\ Permits \in Nat
        BY HoldingFinite, OutboundAssumption
      <4>. QED  BY <4>1, <4>2
    <3>. QED  BY <3>1 DEF Shape
  <2>3. budget \in [Process -> [started : 0 .. now, spent : Nat]]
    <3>1. ASSUME NEW p \in Process PROVE budget[p] \in [started : 0 .. now, spent : Nat]
      <4>1. budget[p] \in [started : Nat, spent : Nat] /\ budget[p].started <= now /\ now \in Nat
        BY DEF WireInv, Shape
      <4>2. budget[p].started \in 0 .. now
        BY <4>1
      <4>. QED  BY <4>1, <4>2
    <3>. QED  BY <3>1 DEF WireInv
  <2>4. ASSUME NEW c \in Call
        PROVE  call[c] \in [at : Place, gates : Seq(Key), checks : BOOLEAN,
                            left : 0 .. Len(resolvers), until : Nat]
    <3>1. call[c] \in CallRow /\ call[c].left <= Len(resolvers) /\ Len(resolvers) \in Nat
      BY LimitsNat DEF Shape, WireInv
    <3>2. call[c].left \in 0 .. Len(resolvers)
      BY <3>1 DEF CallRow
    <3>. QED  BY <3>1, <3>2 DEF CallRow
  <2>5. call \in [Call -> [at : Place, gates : Seq(Key), checks : BOOLEAN,
                           left : 0 .. Len(resolvers), until : Nat]]
    BY <2>4 DEF Shape
  <2>. QED  BY <2>1, <2>2, <2>3, <2>5 DEF TypeOK, InTime, WindowInv, WireInv, Shape
<1>. QED
  BY <1>1, ClockAlways, ShapeAlways, PermitsAlwaysKept, WireAlways, WindowAlways, PTL
=============================================================================
