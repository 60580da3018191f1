------------------------------- MODULE Outbound -------------------------------
(***************************************************************************)
(* Requests behind the anti-abuse windows, and what bounds the queries of  *)
(* a domain check when these fail open: the permits and the budget of each *)
(* API process in core/dns_utils.py.                                       *)
(*                                                                         *)
(* A call is a request on a worker thread of its process.  The windows in  *)
(* Redis are shared; permits and budget live and die with the process.     *)
(***************************************************************************)
EXTENDS RateLimits, FiniteSets

CONSTANTS
  Process, Call,
  ServedBy,        \* the process of a call
  Caller,          \* clients, each with an organization and an asset of its own
  Offered,         \* the operations called in this instance
  Configurations,  \* what VERIFICATION_RESOLVERS may be: sequences of transports
  GlobalLimit,     \* verification_global_rate_limit
  BudgetWindow,    \* verification_global_rate_window_seconds
  Permits,         \* verification_dns_max_concurrent_queries
  Deadline,        \* verification_dns_total_deadline_seconds
  None

Operation == {"login", "register", "mfa", "challenge", "check"}

ASSUME OutboundAssumption ==
  /\ ServedBy \in [Call -> Process] /\ IsFiniteSet(Call)
  /\ Offered \subseteq Operation
  /\ \A conf \in Configurations : conf \in Seq({"dot", "doh"})
  /\ GlobalLimit \in Nat \ {0} /\ BudgetWindow \in Nat \ {0}
  /\ Permits \in Nat \ {0} /\ Deadline \in Nat \ {0}

VARIABLES
  resolvers,  \* the resolvers that are configured
  free,       \* of a process: the permits that are left
  budget,     \* of a process: the start of its window, the queries charged
  sent,       \* history: the queries on the wire since that start
  call        \* where each call is, with its local variables

dns == <<free, budget, sent>>
vars == <<now, limits, challenges, resolvers, dns, call>>

(* The windows of an operation in the order in which they are consumed. *)
CheckGates(who) == <<<<"global", None>>, <<"org", who.organization>>,
                     <<"check", who.organization, who.asset>>>>

ChallengeGates(who) == <<<<"challenge", who.organization, who.asset>>>>

AnonymousGates(operation, who) == <<<<operation, who.client>>>>

GatesOf(operation, who) ==
  CASE operation = "check" -> CheckGates(who)
    [] operation = "challenge" -> ChallengeGates(who)
    [] OTHER -> AnonymousGates(operation, who)

ASSUME GatesKnown ==
  \A operation \in Offered, who \in Caller :
    \A i \in 1 .. Len(GatesOf(operation, who)) : GatesOf(operation, who)[i] \in Key

Idle == [at |-> "idle", gates |-> <<>>, checks |-> FALSE, left |-> 0, until |-> 0]

End(c) == call' = [call EXCEPT ![c] = Idle]

-----------------------------------------------------------------------------
(* The windows *)

Begin(c) ==
  /\ call[c].at = "idle"
  /\ \E operation \in Offered, who \in Caller :
       call' = [call EXCEPT ![c] = [Idle EXCEPT !.at = "gate",
                                                !.gates = GatesOf(operation, who),
                                                !.checks = operation = "check"]]
  /\ UNCHANGED <<now, limits, challenges, resolvers, dns>>

(* The next window; after the last one the handler runs, and a check resolves. *)
Onward(c) ==
  LET q == call[c]
      rest == Tail(q.gates)
  IN  call' = [call EXCEPT ![c] =
                 IF rest = <<>> /\ ~q.checks THEN Idle
                 ELSE [q EXCEPT !.gates = rest,
                                !.at = IF rest = <<>> THEN "admit" ELSE "gate"]]

PassGate(c) ==
  /\ call[c].at = "gate"
  /\ Pass(Head(call[c].gates))
  /\ Onward(c)
  /\ UNCHANGED <<now, challenges, resolvers, dns>>

RefuseGate(c) ==
  /\ call[c].at = "gate"
  /\ Refuse(Head(call[c].gates))
  /\ End(c)
  /\ UNCHANGED <<now, challenges, resolvers, dns>>

(* An unreachable Redis lets the request through. *)
FailOpen(c) ==
  /\ call[c].at = "gate"
  /\ Unanswered(Head(call[c].gates))
  /\ Onward(c)
  /\ UNCHANGED <<now, challenges, resolvers, dns>>

-----------------------------------------------------------------------------
(* resolve_txt *)

QueryLimit ==
  GlobalLimit * (IF Len(resolvers) > 0 THEN Len(resolvers) ELSE 1)

(* The permit is taken without waiting, or the check is refused. *)
Acquire(c) ==
  LET p == ServedBy[c] IN
  /\ call[c].at = "admit" /\ resolvers # <<>> /\ free[p] > 0
  /\ free' = [free EXCEPT ![p] = @ - 1]
  /\ call' = [call EXCEPT ![c].at = "charge"]
  /\ UNCHANGED <<now, limits, challenges, resolvers, budget, sent>>

NoAdmission(c) ==
  /\ call[c].at = "admit" /\ (resolvers = <<>> \/ free[ServedBy[c]] = 0)
  /\ End(c)
  /\ UNCHANGED <<now, limits, challenges, resolvers, dns>>

Release(p) == free' = [free EXCEPT ![p] = @ + 1]

(* The window of the budget as the charge finds it; one that is over starts anew. *)
Over(p) == now - budget[p].started >= BudgetWindow
Current(p) == IF Over(p) THEN [started |-> now, spent |-> 0] ELSE budget[p]

Affordable_Before(p) == Current(p).spent <= QueryLimit
Affordable(p) == Current(p).spent + Len(resolvers) <= QueryLimit

Renew(p) == sent' = IF Over(p) THEN [sent EXCEPT ![p] = 0] ELSE sent

(* The whole check is charged before its first query, at its worst case. *)
Charge(c) ==
  LET p == ServedBy[c] IN
  /\ call[c].at = "charge" /\ Affordable(p)
  /\ budget' = [budget EXCEPT ![p] =
                  [Current(p) EXCEPT !.spent = @ + Len(resolvers)]]
  /\ Renew(p)
  /\ call' = [call EXCEPT ![c].at = "ask", ![c].left = Len(resolvers),
                          ![c].until = now + Deadline]
  /\ UNCHANGED <<now, limits, challenges, resolvers, free>>

Overspent_KeepsPermit(c) ==
  LET p == ServedBy[c] IN
  /\ call[c].at = "charge" /\ ~Affordable(p)
  /\ budget' = [budget EXCEPT ![p] = Current(p)]
  /\ Renew(p)
  /\ End(c)
  /\ UNCHANGED <<now, limits, challenges, resolvers, free>>
Overspent(c) ==
  LET p == ServedBy[c] IN
  /\ call[c].at = "charge" /\ ~Affordable(p)
  /\ budget' = [budget EXCEPT ![p] = Current(p)]
  /\ Renew(p) /\ Release(p)
  /\ End(c)
  /\ UNCHANGED <<now, limits, challenges, resolvers>>

(* The resolvers are asked one by one, each with what is left of the deadline. *)
NextResolver(c) == resolvers[Len(resolvers) - call[c].left + 1]

Askable(c) == call[c].left > 0 /\ now < call[c].until /\ NextResolver(c) = "dot"

Ask(c) ==
  LET p == ServedBy[c] IN
  /\ call[c].at = "ask" /\ Askable(c)
  /\ sent' = [sent EXCEPT ![p] = @ + 1]
  /\ call' = [call EXCEPT ![c].left = @ - 1]
  /\ UNCHANGED <<now, limits, challenges, resolvers, free, budget>>

(* All were asked, or the deadline passed, or the next transport is not installed. *)
Resolved(c) ==
  /\ call[c].at = "ask" /\ ~Askable(c)
  /\ Release(ServedBy[c])
  /\ End(c)
  /\ UNCHANGED <<now, limits, challenges, resolvers, budget, sent>>

-----------------------------------------------------------------------------
(* The environment *)

Tick ==
  /\ now < MaxNow /\ now' = now + 1
  /\ Expire(now')
  /\ UNCHANGED <<resolvers, dns, call>>

Restart(p) ==
  /\ call' = [c \in Call |-> IF ServedBy[c] = p THEN Idle ELSE call[c]]
  /\ free' = [free EXCEPT ![p] = Permits]
  /\ budget' = [budget EXCEPT ![p] = [started |-> now, spent |-> 0]]
  /\ sent' = [sent EXCEPT ![p] = 0]
  /\ UNCHANGED <<now, limits, challenges, resolvers>>

Init ==
  /\ RateInit
  /\ resolvers \in Configurations
  /\ free = [p \in Process |-> Permits]
  /\ budget = [p \in Process |-> [started |-> 0, spent |-> 0]]
  /\ sent = [p \in Process |-> 0]
  /\ call = [c \in Call |-> Idle]

ProofOfWork ==
  /\ \E scope \in Scope : \/ \E n \in Nonce : IssueChallenge(scope, n)
                           \/ \E words \in Presented : VerifyAndConsume(scope, words)
  /\ UNCHANGED <<resolvers, dns, call>>

Proceed(c) ==
  \/ PassGate(c) \/ RefuseGate(c)
  \/ Acquire(c) \/ NoAdmission(c) \/ Charge(c) \/ Overspent(c) \/ Ask(c) \/ Resolved(c)

(* Redis answers every call and keeps what it has, and no process dies. *)
SteadyNext ==
  \/ Tick \/ ProofOfWork
  \/ \E c \in Call : Begin(c) \/ Proceed(c)

Next ==
  \/ SteadyNext
  \/ \E p \in Process : Restart(p)
  \/ RedisLost /\ UNCHANGED <<resolvers, dns, call>>
  \/ \E c \in Call : FailOpen(c)

Spec == Init /\ [][Next]_vars

SteadySpec == Init /\ [][SteadyNext]_vars
=============================================================================
