------------------------ MODULE MigrationProperties -------------------------
(* What the migrations must keep, whatever commands run on the databases.  *)
EXTENDS Migrations

Reference[n \in 0 .. Revisions] ==
  IF n = 0 THEN Blank ELSE Upgraded(n, Reference[n - 1])

(* A database at a revision holds exactly what an empty one upgraded to it  *)
(* holds, whatever upgrades, downgrades, refusals and crashes led there: a  *)
(* downgrade leaves nothing behind and takes nothing else along             *)
(* (docs/database-migrations.md: the round trip).                           *)
RoundTrip == \A d \in Database : image[d] = Reference[revision[d]]

-----------------------------------------------------------------------------
(* The arms through which a role of the cluster reaches rows of a table, by *)
(* the policies that name it.                                               *)
Admitted(d, r) == {policy \in image[d].policies : r \in policy.to}

Reach(d, r, opened, table, verb) ==
  IF ~Held(image[d], public[d], r, <<table, verb>>) THEN {}
  ELSE IF role[r] = "lax" \/ table \notin image[d].enabled THEN {"any"}
  ELSE UNION {policy.arms : policy \in {p \in opened : p.on = table /\ verb \in p.verbs}}

(* Row classes of docs/database-roles.md.                                   *)
Credentials == {"user_credential", "user_session", "user_mfa", "mfa_recovery_code"}
UserRows == {"api_key", "notification"}
JobRows == {"scan_job", "scan_task", "scan_result", "finding", "file_upload"}

AppReach(table, verb) ==
  CASE table \in Credentials -> {}
    [] table = "statement" -> IF verb = "SELECT" THEN {"any"} ELSE {}
    [] table = "audit_event" -> IF verb = "INSERT" THEN {"org", "orgless"} ELSE {}
    [] table = "statement_response" -> IF verb \in {"SELECT", "INSERT"} THEN {"org"} ELSE {}
    [] table \in UserRows -> {"user"}
    [] table = "app_user" -> {"org", "user"}
    [] table = "key_envelope" -> {"org", "user", "job"}
    [] table \in JobRows -> {"org", "job"}
    [] OTHER -> {"org"}

PlatformReach(table, verb) ==
  IF \/ table \in {"scan_job", "scan_task"} /\ verb # "DELETE"
     \/ table = "audit_event" /\ verb = "INSERT"
  THEN {"any"} ELSE {}

AuthReach(table, verb) ==
  IF table \in Credentials /\ verb # "DELETE" THEN {"user"}
  ELSE IF table = "statement" /\ verb = "SELECT" THEN {"any"}
  ELSE IF table \in {"organization", "app_user", "key_envelope", "statement_response"}
          /\ verb \in {"SELECT", "INSERT"} THEN AppReach(table, verb)
  ELSE {}

DefinerReach(table, verb) ==
  IF table \in {"app_user", "user_credential", "user_session"} /\ verb = "SELECT"
  THEN {"any"} ELSE {}

Documented(r, table, verb) ==
  CASE r = "nc3_app" -> AppReach(table, verb)
    [] r = "app_platform" -> PlatformReach(table, verb)
    [] r = "nc3_auth" -> AuthReach(table, verb)
    [] r = "nc3_auth_definer" -> DefinerReach(table, verb)

(* From the revision that brings row security on, each role that exists     *)
(* reaches the rows docs/database-roles.md gives it, by grant and policy    *)
(* together, and no other; and what an operator grants to PUBLIC never      *)
(* opens credentials to another role, nor lets anyone read or change an     *)
(* audit event.                                                             *)
ReachAsDocumented ==
  \A d \in Database, r \in Role :
    revision[d] >= 4 /\ (r \in RolesOf(5) => revision[d] >= 5) =>
      LET opened == Admitted(d, r) IN
      \A table \in image[d].tables, verb \in Verb :
        LET reach == Reach(d, r, opened, table, verb)
        IN  /\ Documented(r, table, verb) \subseteq reach
            /\ public[d] = {} => reach \subseteq Documented(r, table, verb)
            /\ table \in Credentials /\ r # "nc3_auth" => reach \subseteq DefinerReach(table, verb)
            /\ table = "audit_event" /\ verb # "INSERT" => reach = {}

-----------------------------------------------------------------------------
GatedRevisions == {3, 4, 5, 8}
AttestedRevisions == {6, 7}

UpgradeReason(d) ==
  \/ public[d] # {} /\ Due(d) \in GatedRevisions
  \/ RolesOf(Due(d)) \cap member # {}
  \/ \E constraint \in unfit[d] : RevisionOf(constraint) = Due(d)

DowngradeReason(d) ==
  \/ receipts[d] # {} /\ Due(d) \in AttestedRevisions
  \/ \E e \in Database \ {d} : RolesOf(Due(d)) \cap image[e].usage # {}

(* A revision refuses for a reason the revisions did not make themselves:   *)
(* on the way up a grant to PUBLIC where a gate looks for it, a membership  *)
(* of a role it hardens, or rows that break a constraint it adds; on the    *)
(* way down a receipt for its texts, or another database that uses its      *)
(* role.  Without one it goes through, however the database came to where   *)
(* it is (the gates of the upgrades, dependent_objects_still_exist, and     *)
(* docs/database-migrations.md: the wipe rules).                            *)
RefusalExplained ==
  [][\A d \in Database : work'[d] = NoCommand =>
       /\ StepUp(d) => UpgradeReason(d)
       /\ StepDown(d) => DowngradeReason(d)]_migrationVars
=============================================================================
