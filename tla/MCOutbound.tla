------------------------------ MODULE MCOutbound ------------------------------
(***************************************************************************)
(* Instances of Outbound for TLC: one process, up to three calls at once.  *)
(***************************************************************************)
EXTENDS OutboundProperties, TLC

CONSTANTS p1, i1, o1, a1

OneCaller == {[client |-> i1, organization |-> o1, asset |-> a1]}

Gates == UNION {{GatesOf(op, who)[i] : i \in 1 .. Len(GatesOf(op, who))} :
                  op \in Offered, who \in Caller}

GlobalTwo == [k \in Gates |-> IF k[1] = "global" THEN 2 ELSE 1]
GlobalThree == [k \in Gates |-> IF k[1] = "global" THEN 3 ELSE 1]
Two == [k \in Gates |-> 2]
Three == [k \in Gates |-> 3]

Served == [c \in Call |-> p1]
Words == {<<"a">>, <<"a", "b">>}
Transports == {<<>>, <<"dot", "dot">>, <<"dot", "doh">>}

NoResolver == {<<>>}

(* Redemption and lookups share nothing: they are explored apart. *)
Apart == resolvers = <<>> \/ (pow = {} /\ \A n \in Nonce : redeemed[n] = <<>>)

(* Two calls meet at the windows; up to three behind them, one more arriving. *)
Arriving == {c \in Call : call[c].at = "gate"}
Resolving == {c \in Call : call[c].at \in {"admit", "charge", "ask"}}
Crowd == Apart /\ Cardinality(Arriving) <= (IF Resolving = {} THEN 2 ELSE 1)

Alike == Permutations(Call)
=============================================================================
