---------------------------- MODULE Migrations -----------------------------
(***************************************************************************)
(* alembic over the databases of one PostgreSQL cluster.  A command takes  *)
(* a database from its revision to another, one revision at a time, inside *)
(* one transaction (migrations/env.py); roles belong to the cluster, so    *)
(* two commands on two databases meet at them.  Around the commands, the   *)
(* operator grants to PUBLIC and hands out memberships, registrations      *)
(* record consent receipts, and rows are written that a later revision     *)
(* refuses.                                                                *)
(***************************************************************************)
EXTENDS Schema, Integers

CONSTANTS
  Database,    \* the databases of the cluster
  Targets,     \* the revisions a command may be given
  OutOfBand,   \* what the operator may grant to PUBLIC, by <<table, verb>>
  Offended,    \* the constraints of later revisions that rows may break
  Members      \* the roles the operator may make members of another

ASSUME MigrationsAssumption ==
  /\ Targets \subseteq 0 .. Revisions
  /\ \A privilege \in OutOfBand : Len(privilege) = 2
  /\ Offended \subseteq Validated
  /\ Members \subseteq Role

VARIABLES
  revision,    \* alembic_version of each database
  image,       \* what each database holds of the schema
  public,      \* what PUBLIC was granted there
  receipts,    \* the keys of the statements that receipts there attest to
  unfit,       \* the constraints not yet there that rows there break
  role,        \* each role of the cluster: "absent", "lax" or "hardened"
  member,      \* the roles that are members of another
  work         \* the command that runs on each database, or NoCommand

migrationVars == <<revision, image, public, receipts, unfit, role, member, work>>

NoCommand == [at |-> -1]
Running(d) == work[d] # NoCommand

MigrationInit ==
  /\ revision = [d \in Database |-> 0]
  /\ image = [d \in Database |-> Blank]
  /\ public = [d \in Database |-> {}]
  /\ receipts = [d \in Database |-> {}]
  /\ unfit = [d \in Database |-> {}]
  /\ role \in [Role -> {"absent", "lax"}]
  /\ \A r \in Role \ {"nc3_app"} : role[r] = "absent"
  /\ member = {}
  /\ work = [d \in Database |-> NoCommand]

BeginCommand(d, target) ==
  /\ ~Running(d)
  /\ target # revision[d]
  /\ work' = [work EXCEPT ![d] =
       [at |-> revision[d], to |-> target, image |-> image[d], public |-> public[d],
        roles |-> <<>>, waits |-> {}]]
  /\ UNCHANGED <<revision, image, public, receipts, unfit, role, member>>

-----------------------------------------------------------------------------
(* One revision of a running command.                                       *)

Up(d) == work[d].at < work[d].to
Due(d) == IF Up(d) THEN work[d].at + 1 ELSE work[d].at

(* The roles a command has created, altered or dropped and not committed.   *)
Touched(d) == IF Running(d) THEN DOMAIN work[d].roles ELSE {}

(* The databases whose commands hold a role the next revision needs.        *)
Ahead(d) == {e \in Database \ {d} : RolesOf(Due(d)) \cap Touched(e) # {}}

(* A privilege goes with the table it is on.                                *)
Fits(image1, privileges) ==
  {p \in privileges : p[1] \in image1.tables \cup {"public", "alembic_version"}}

Moved(d, image1, roles1) ==
  work' = [work EXCEPT ![d].at = IF Up(d) THEN Due(d) ELSE Due(d) - 1,
                       ![d].image = image1,
                       ![d].public = Fits(image1, @),
                       ![d].waits = {},
                       ![d].roles = roles1]

(* A command that fails leaves no trace: nothing but its rollback.          *)
Aborted(d) ==
  work' = [e \in Database |->
    IF e = d THEN NoCommand
    ELSE IF Running(e) THEN [work[e] EXCEPT !.waits = @ \ {d}] ELSE NoCommand]

(* CREATE ROLE with duplicate_object trapped, then ALTER ROLE.              *)
RolesCreated(d) ==
  [r \in RolesOf(Due(d)) \cup Touched(d) |->
     IF r \in RolesOf(Due(d)) THEN "hardened" ELSE work[d].roles[r]]

(* DROP ROLE IF EXISTS.                                                     *)
RolesDropped(d) ==
  [r \in RolesOf(Due(d)) \cup Touched(d) |->
     IF r \in RolesOf(Due(d)) THEN "absent" ELSE work[d].roles[r]]

(* A membership outlives the ALTER ROLE; a role this command created, or    *)
(* that is absent, has none.                                                *)
MembershipGate(d) == RolesOf(Due(d)) \cap member # {}

(* dependent_objects_still_exist: in this database or in another.           *)
RoleNeeded(d, image1) ==
  \E r \in RolesOf(Due(d)) :
    \/ NamesRole(image1, r)
    \/ \E e \in Database \ {d} : NamesRole(image[e], r)

StepUp(d) ==
  /\ Running(d) /\ Up(d) /\ Ahead(d) = {}
  /\ IF MembershipGate(d) \/ UpgradeRefused(Due(d), work[d].image, work[d].public, unfit[d])
     THEN Aborted(d)
     ELSE Moved(d, Upgraded(Due(d), work[d].image), RolesCreated(d))
  /\ UNCHANGED <<revision, image, public, receipts, unfit, role, member>>

StepDown(d) ==
  LET image1 == Downgraded(Due(d), work[d].image)
  IN  /\ Running(d) /\ work[d].at > work[d].to /\ Ahead(d) = {}
      /\ IF \/ DowngradeRefused(Due(d), work[d].image, receipts[d])
            \/ RoleNeeded(d, image1)
         THEN Aborted(d)
         ELSE Moved(d, image1, RolesDropped(d))
      /\ UNCHANGED <<revision, image, public, receipts, unfit, role, member>>

(* The next statement meets a role another command holds: it waits for the  *)
(* end of that transaction.                                                 *)
Wait(d) ==
  /\ Running(d) /\ work[d].at # work[d].to
  /\ Ahead(d) \notin {{}, work[d].waits}
  /\ work' = [work EXCEPT ![d].waits = Ahead(d)]
  /\ UNCHANGED <<revision, image, public, receipts, unfit, role, member>>

(* Two commands wait for each other: PostgreSQL fails one.                  *)
Deadlocked(d) ==
  /\ Running(d)
  /\ \E e \in work[d].waits : Running(e) /\ d \in work[e].waits
  /\ Aborted(d)
  /\ UNCHANGED <<revision, image, public, receipts, unfit, role, member>>

(* A commit fails whoever waited for it: its CREATE ROLE violates the       *)
(* unique index, or its ALTER ROLE or DROP ROLE finds the row changed.      *)
Commit(d) ==
  LET late == {e \in Database \ {d} : Running(e) /\ d \in work[e].waits}
      changed == Touched(d)
  IN  /\ Running(d) /\ work[d].at = work[d].to
      /\ revision' = [revision EXCEPT ![d] = work[d].at]
      /\ image' = [image EXCEPT ![d] = work[d].image]
      /\ public' = [public EXCEPT ![d] = work[d].public]
      /\ receipts' = [receipts EXCEPT
           ![d] = IF "statement_response" \in work[d].image.tables THEN @ ELSE {}]
      /\ unfit' = [unfit EXCEPT ![d] = IF work[d].at > 0 THEN @ ELSE {}]
      /\ role' = [r \in Role |-> IF r \in changed THEN work[d].roles[r] ELSE role[r]]
      /\ member' = {r \in member : role'[r] # "absent"}
      /\ work' = [e \in Database |-> IF e = d \/ e \in late THEN NoCommand ELSE work[e]]

(* The process of a command ends; its transaction rolls back.               *)
Die(d) ==
  /\ Running(d)
  /\ Aborted(d)
  /\ UNCHANGED <<revision, image, public, receipts, unfit, role, member>>

-----------------------------------------------------------------------------
(* What happens around the commands.                                        *)

(* A registration answers every active acceptance statement.  Every         *)
(* revision that touches a database which has them locks a table of the     *)
(* registration, until its command ends.                                    *)
Unlocked(d) == Running(d) => work[d].at = revision[d]

Register(d) ==
  /\ "user_credential" \in image[d].tables
  /\ Keyed(image[d], {Terms, Privacy}) # {}
  /\ Unlocked(d)
  /\ receipts' = [receipts EXCEPT
       ![d] = @ \cup {text.key : text \in Keyed(image[d], {Terms, Privacy})}]
  /\ UNCHANGED <<revision, image, public, unfit, role, member, work>>

(* Rows that a later revision will not accept: two addresses that differ in *)
(* case, a domain two organizations have proved, a job without modules.  A  *)
(* command keeps others from the tables the revision is about once it has   *)
(* run that revision, or the one that secures every table.                  *)
Ran(d) ==
  IF ~Running(d) THEN {}
  ELSE work[d].at + 1 .. revision[d] \cup revision[d] + 1 .. work[d].at

Writable(d, constraint) ==
  /\ revision[d] > 0 /\ constraint \notin image[d].added
  /\ Ran(d) \cap {4, RevisionOf(constraint)} = {}

Offend(d) ==
  /\ \E constraint \in Offended \ unfit[d] :
       /\ Writable(d, constraint)
       /\ unfit' = [unfit EXCEPT ![d] = @ \cup {constraint}]
  /\ UNCHANGED <<revision, image, public, receipts, role, member, work>>

Mend(d) ==
  /\ \E constraint \in unfit[d] :
       /\ Writable(d, constraint)
       /\ unfit' = [unfit EXCEPT ![d] = @ \ {constraint}]
  /\ UNCHANGED <<revision, image, public, receipts, role, member, work>>

(* The operator grants a privilege to PUBLIC, or takes it back.             *)
GrantPublic(d) ==
  /\ ~Running(d)
  /\ \E privilege \in Fits(image[d], OutOfBand) \ public[d] :
       public' = [public EXCEPT ![d] = @ \cup {privilege}]
  /\ UNCHANGED <<revision, image, receipts, unfit, role, member, work>>

RevokePublic(d) ==
  /\ ~Running(d)
  /\ \E privilege \in public[d] : public' = [public EXCEPT ![d] = @ \ {privilege}]
  /\ UNCHANGED <<revision, image, receipts, unfit, role, member, work>>

(* The operator makes a role a member of another, or takes it out.          *)
Join(r) ==
  /\ role[r] # "absent" /\ r \notin member
  /\ \A d \in Database : r \notin Touched(d)
  /\ member' = member \cup {r}
  /\ UNCHANGED <<revision, image, public, receipts, unfit, role, work>>

Leave(r) ==
  /\ r \in member
  /\ member' = member \ {r}
  /\ UNCHANGED <<revision, image, public, receipts, unfit, role, work>>

MigrationNext ==
  \/ \E d \in Database :
       \/ \E target \in Targets : BeginCommand(d, target)
       \/ StepUp(d) \/ StepDown(d) \/ Wait(d) \/ Deadlocked(d) \/ Commit(d) \/ Die(d)
       \/ Register(d) \/ Offend(d) \/ Mend(d) \/ GrantPublic(d) \/ RevokePublic(d)
  \/ \E r \in Members : Join(r) \/ Leave(r)

MigrationSpec == MigrationInit /\ [][MigrationNext]_migrationVars
=============================================================================
