----------------------------- MODULE MCSideBySide -----------------------------
(***************************************************************************)
(* The windows and budgets of Outbound and the databases of Migrations     *)
(* share nothing, so one instance explores both: while one moves, the      *)
(* other rests where it started.  The resolvers are fixed by the           *)
(* deployment: none while the databases move.                              *)
(***************************************************************************)
EXTENDS MCOutbound, MCMigrations

DatabasesStart ==
  /\ \A d \in Database : revision[d] = 0 /\ work[d] = NoCommand
  /\ \A r \in Role : role[r] = "absent"

CallsStart == RateInit /\ resolvers = <<>> /\ \A c \in Call : call[c] = Idle

SideBySideInit == Init /\ MigrationInit /\ (DatabasesStart \/ CallsStart)

DatabasesRest == DatabasesStart /\ UNCHANGED migrationVars
CallsRest == CallsStart /\ UNCHANGED vars

CallsMove ==
  \/ DatabasesRest /\ Tick
  \/ DatabasesRest /\ ProofOfWork
  \/ DatabasesRest /\ RedisLost /\ UNCHANGED <<resolvers, dns, call>>
  \/ \E p \in Process : DatabasesRest /\ Restart(p)
  \/ \E c \in Call :
       \/ DatabasesRest /\ Begin(c)
       \/ DatabasesRest /\ PassGate(c)
       \/ DatabasesRest /\ RefuseGate(c)
       \/ DatabasesRest /\ FailOpen(c)
       \/ DatabasesRest /\ Acquire(c)
       \/ DatabasesRest /\ NoAdmission(c)
       \/ DatabasesRest /\ Charge(c)
       \/ DatabasesRest /\ Overspent(c)
       \/ DatabasesRest /\ Ask(c)
       \/ DatabasesRest /\ Resolved(c)

DatabasesMove ==
  \/ \E d \in Database :
       \/ \E target \in Targets : CallsRest /\ BeginCommand(d, target)
       \/ CallsRest /\ StepUp(d)
       \/ CallsRest /\ StepDown(d)
       \/ CallsRest /\ Wait(d)
       \/ CallsRest /\ Deadlocked(d)
       \/ CallsRest /\ Commit(d)
       \/ CallsRest /\ Die(d)
       \/ CallsRest /\ Register(d)
       \/ CallsRest /\ Offend(d)
       \/ CallsRest /\ Mend(d)
       \/ CallsRest /\ GrantPublic(d)
       \/ CallsRest /\ RevokePublic(d)
  \/ \E r \in Members : \/ CallsRest /\ Join(r)
                        \/ CallsRest /\ Leave(r)

SideBySideSpec == SideBySideInit /\ [][CallsMove \/ DatabasesMove]_<<vars, migrationVars>>

SideBySideBound == Crowd /\ OneOddity
SideBySideAlike == Alike \cup Symmetry
=============================================================================
