-------------------------- MODULE OutboundProperties --------------------------
(***************************************************************************)
(* What the windows, the permits and the budget bound.                     *)
(***************************************************************************)
EXTENDS Outbound

Place == {"idle", "gate", "admit", "charge", "ask"}

(* Windows, budgets and calls have the fields, and the values, of the code. *)
TypeOK ==
  /\ now \in 0 .. MaxNow
  /\ window \in [Key -> [count : Nat, until : Nat]]
  /\ \A k \in Key : window[k].count <= Limit[k] + 1 /\ window[k].until <= now + Window[k]
  /\ resolvers \in Configurations
  /\ free \in [Process -> 0 .. Permits]
  /\ budget \in [Process -> [started : 0 .. now, spent : Nat]]
  /\ sent \in [Process -> Nat]
  /\ call \in [Call -> [at : Place, gates : Seq(Key), checks : BOOLEAN,
                        left : 0 .. Len(resolvers), until : Nat]]

(***************************************************************************)
(* A window admits no more than its limit, and a burst across the boundary *)
(* of two less than twice that, within any span as long as a window: the   *)
(* request that opened the first of the two is a window old when it ends.  *)
(* Those counted without an answer are among them (consume,                *)
(* enforce_rate_limit).                                                    *)
(***************************************************************************)
TwiceAtMost == \A k \in Key : Cardinality(passes[k]) <= 2 * Limit[k] - 1

(***************************************************************************)
(* Nobody is refused but for a full limit of requests counted within the   *)
(* last window: asking on does not put off the end of a refusal, and no    *)
(* window outlives its time (consume: EXPIRE NX).                          *)
(***************************************************************************)
RefusalEarned == \A k \in Key : ~Allowed(k) => Cardinality(passes[k]) >= Limit[k]

(***************************************************************************)
(* Permits are neither lost nor made up: those that are not free are held  *)
(* by checks in progress, whichever way each of them ends (resolve_txt).   *)
(***************************************************************************)
Holding(p) == {c \in Call : ServedBy[c] = p /\ call[c].at \in {"charge", "ask"}}

PermitsKept == \A p \in Process : free[p] + Cardinality(Holding(p)) = Permits

(***************************************************************************)
(* Whatever Redis does, a process sends within a window of its budget no   *)
(* more than the budget and what the checks behind its other permits had   *)
(* been charged for in the window before and had not sent: the budget      *)
(* counts a check when it is charged, not when it is sent                  *)
(* (_OutboundBudget.try_spend).                                            *)
(***************************************************************************)
WireBounded ==
  \A p \in Process : sent[p] <= QueryLimit + (Permits - 1) * Len(resolvers)

(***************************************************************************)
(* "One process alone may emit no more than every check the global limiter *)
(* would admit, times the number of configured resolvers a check queries"  *)
(* (_OutboundBudget), in each window of that budget.  A check charged late *)
(* in one window sends its queries in the next.                            *)
(***************************************************************************)
WithinBudget == \A p \in Process : sent[p] <= QueryLimit

(***************************************************************************)
(* A challenge is redeemed once, and under the scope that it was issued    *)
(* for, whatever is presented as its nonce (verify_and_consume).           *)
(***************************************************************************)
RedeemedOnce ==
  \A n \in Nonce : /\ Len(redeemed[n]) <= 1
                   /\ \A i \in 1 .. Len(redeemed[n]) : redeemed[n][i].by = redeemed[n][i].of

(***************************************************************************)
(* "Per-organization share of the global budget, so one tenant cannot take *)
(* it all" (org_verification_cap): while one organization alone runs       *)
(* checks, there is room in the global window for another.  A window of    *)
(* the platform meets two of the organization's at most.                   *)
(***************************************************************************)
RoomForOthers ==
  \A o \in {who.organization : who \in Caller} :
    /\ Offered = {"check"} /\ \A who \in Caller : who.organization = o
    /\ Limit[<<"global", None>>] > 2 * Limit[<<"org", o>>]
    => Allowed(<<"global", None>>)
=============================================================================
