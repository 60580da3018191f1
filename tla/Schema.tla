------------------------------ MODULE Schema -------------------------------
(***************************************************************************)
(* The migrations of migrations/versions as functions on what they change: *)
(* tables and their foreign keys, enum types, row security, policies,      *)
(* grants, functions, named constraints and columns, and the legal texts.  *)
(* Columns, their types and indexes are left out, except those a later     *)
(* revision adds to a table that exists.  A step of a revision refuses     *)
(* when PostgreSQL or one of the revision's own gates would raise.         *)
(***************************************************************************)
EXTENDS Naturals, FiniteSets, Sequences

Verb == {"SELECT", "INSERT", "UPDATE", "DELETE"}
Role == {"nc3_app", "app_platform", "nc3_auth", "nc3_auth_definer"}
Revisions == 9

-----------------------------------------------------------------------------
(* e7a2637c2e20: the tables in the order of their creation, each with the  *)
(* tables its foreign keys name.                                           *)

AccountTables == <<
  <<"organization", {}>>, <<"statement", {}>>, <<"app_user", {"organization"}>>,
  <<"audit_event", {"organization"}>>,
  <<"statement_response", {"organization", "statement"}>>,
  <<"api_key", {"organization", "app_user"}>>,
  <<"asset", {"organization", "app_user", "asset"}>> >>

AssetTables == <<
  <<"file_upload", {"organization", "app_user"}>>, <<"notification", {"app_user"}>>,
  <<"organization_invitation", {"organization", "app_user"}>>,
  <<"organization_webhook", {"organization", "app_user"}>>,
  <<"report", {"organization", "app_user"}>>,
  <<"asset_feed", {"organization", "app_user", "asset"}>>,
  <<"domain_verification", {"organization", "asset"}>>,
  <<"domain_verification_challenge", {"organization", "app_user", "asset"}>> >>

JobTables == <<
  <<"schedule", {"organization", "app_user", "asset"}>>,
  <<"scan_job", {"organization", "app_user", "asset", "api_key", "file_upload", "schedule"}>>,
  <<"key_envelope", {"organization", "app_user", "scan_job"}>> >>

ScanTables == <<
  <<"scan_task", {"organization", "asset", "file_upload", "scan_job", "scan_task"}>>,
  <<"scan_result", {"organization", "scan_task"}>>,
  <<"finding", {"organization", "scan_result"}>> >>

InitialTables == AccountTables \o AssetTables \o JobTables \o ScanTables

InitialEnums ==
  {"organization_role", "key_scope", "asset_type", "asset_origin", "verification_scope",
   "dns_record_type", "statement_response_kind", "scan_source", "scan_job_status",
   "scan_module", "scan_classification", "scan_task_status", "scan_grade",
   "finding_severity", "finding_status", "api_key_scope", "report_tier",
   "technical_report_view", "report_format", "report_language", "feed_format"}

Names(tables) == {tables[i][1] : i \in DOMAIN tables}
Keys(tables) == UNION {{tables[i][1]} \X tables[i][2] : i \in DOMAIN tables}

Reversed(tables) == [i \in DOMAIN tables |-> tables[Len(tables) + 1 - i]]

(* What one database holds of the schema.  A policy opens the rows of its   *)
(* table to its roles, for its verbs, through its arms: the identities of   *)
(* the transaction's context it compares a row with, or "any".              *)
Blank ==
  [tables |-> {}, keys |-> {}, enums |-> {}, enabled |-> {}, forced |-> {},
   policies |-> {}, usage |-> {}, grants |-> {}, execute |-> {},
   added |-> {}, texts |-> {}]

(* CREATE TABLE one after the other: each must be new, and what its keys    *)
(* name must be there.                                                      *)
Creatable(image, tables) ==
  \A i \in DOMAIN tables :
    /\ tables[i][1] \notin image.tables
    /\ tables[i][2] \subseteq image.tables \cup {tables[j][1] : j \in 1 .. i}

Created(image, tables) ==
  [image EXCEPT !.tables = @ \cup Names(tables), !.keys = @ \cup Keys(tables)]

(* DROP TABLE one after the other, without CASCADE: each must be there, and *)
(* no other table may still name it.                                        *)
Droppable(image, tables) ==
  \A i \in DOMAIN tables :
    /\ tables[i][1] \in image.tables
    /\ \A key \in image.keys :
         key[2] = tables[i][1] => key[1] \in {tables[j][1] : j \in 1 .. i}

(* A table takes its keys, policies, row security and grants with it.       *)
Dropped(image, tables) ==
  LET gone == Names(tables)
  IN  [image EXCEPT !.tables = @ \ gone,
                    !.keys = {key \in @ : key[1] \notin gone},
                    !.enabled = @ \ gone,
                    !.forced = @ \ gone,
                    !.policies = {policy \in @ : policy.on \notin gone},
                    !.grants = {grant \in @ : grant[2] \notin gone}]

InitialUp(image) ==
  [Created(image, InitialTables) EXCEPT !.enums = @ \cup InitialEnums]
InitialUpRefused(image) ==
  ~Creatable(image, InitialTables) \/ InitialEnums \cap image.enums # {}

InitialDown(image) ==
  [Dropped(image, Reversed(InitialTables)) EXCEPT !.enums = @ \ InitialEnums]
InitialDownRefused(image) == ~Droppable(image, Reversed(InitialTables))

-----------------------------------------------------------------------------
(* eb34e144eb97: four checks.  A constraint on a table with rows validates  *)
(* every one of them: unfit are the constraints that rows there now break.  *)

RowChecks ==
  {"ck_audit_event_retention_not_before_occurrence",
   "ck_file_upload_purge_not_before_upload",
   "ck_scan_job_modules_not_empty", "ck_schedule_modules_not_empty"}

ChecksUp(image) == [image EXCEPT !.added = @ \cup RowChecks]
ChecksUpRefused(image, unfit) ==
  RowChecks \cap image.added # {} \/ RowChecks \cap unfit # {}
ChecksDown(image) == [image EXCEPT !.added = @ \ RowChecks]
ChecksDownRefused(image) == ~(RowChecks \subseteq image.added)

-----------------------------------------------------------------------------
(* Grants, policies and the gates that close a revision.                    *)

On(tables, verbs) == tables \X verbs
To(roles, privileges) == {<<role, p[1], p[2]>> : role \in roles, p \in privileges}

VersionTable == On({"alembic_version"}, Verb)
CreateInSchema == <<"public", "CREATE">>

(* has_table_privilege: what PUBLIC was granted reaches every role.         *)
Held(image, public, role, privilege) ==
  <<role, privilege[1], privilege[2]>> \in image.grants \/ privilege \in public

HoldsAny(image, public, role, privileges) ==
  \E privilege \in privileges : Held(image, public, role, privilege)

(* Tables that lack ENABLE, FORCE or a policy.                              *)
Unclassified(image) ==
  {table \in image.tables :
     \/ table \notin image.enabled \cap image.forced
     \/ \A policy \in image.policies : policy.on # table}

Policy(name, table, roles, verbs, arms) ==
  [name |-> name, on |-> table, to |-> roles, verbs |-> verbs, arms |-> arms]

Secured(image, tables) ==
  [image EXCEPT !.enabled = @ \cup tables, !.forced = @ \cup tables]

(* ALTER POLICY ... TO replaces the roles of a policy.                      *)
Addressed(image, name, tables, roles) ==
  [image EXCEPT !.policies =
     {IF policy.name = name /\ policy.on \in tables
      THEN [policy EXCEPT !.to = roles] ELSE policy : policy \in @}]

HasPolicy(image, name, tables) ==
  \A table \in tables : \E policy \in image.policies :
    policy.name = name /\ policy.on = table

(* REVOKE ALL ON ALL TABLES and REVOKE USAGE, as a downgrade issues them.   *)
Stripped(image, role) ==
  [image EXCEPT !.grants = {grant \in @ : grant[1] # role}, !.usage = @ \ {role}]

(* What pg_shdepend keeps a role for.                                       *)
NamesRole(image, role) ==
  \/ role \in image.usage
  \/ \E grant \in image.grants : grant[1] = role
  \/ \E policy \in image.policies : role \in policy.to
  \/ \E lookup \in image.execute : role \in {lookup.owner, lookup.caller}

-----------------------------------------------------------------------------
(* fa547b13b972: nc3_app.                                                   *)

AppendOnly == On({"statement_response", "audit_event"}, {"UPDATE", "DELETE"})

AppUp(image) ==
  [image EXCEPT
     !.usage = @ \cup {"nc3_app"},
     !.grants = @ \cup To({"nc3_app"}, On(image.tables, Verb) \ AppendOnly)]

AppGate(image, public) ==
  HoldsAny(image, public, "nc3_app", AppendOnly \cup VersionTable \cup {CreateInSchema})

AppUpRefused(image, public) == AppGate(AppUp(image), public)
AppDown(image) == Stripped(image, "nc3_app")

-----------------------------------------------------------------------------
(* 0d5679b5500d: row security, its policies, and app_platform.              *)

RowTables_Forgotten == Names(InitialTables) \ {"asset_feed"}
RowTables ==
  {"organization", "statement", "app_user", "audit_event", "statement_response",
   "api_key", "asset", "file_upload", "notification", "organization_invitation",
   "organization_webhook", "report", "asset_feed", "domain_verification",
   "domain_verification_challenge", "schedule", "scan_job", "key_envelope",
   "scan_task", "scan_result", "finding"}

TenantArms ==
  [table \in RowTables \ {"statement", "audit_event"} |->
     CASE table = "app_user" -> {"user", "org"}
       [] table \in {"api_key", "notification"} -> {"user"}
       [] table = "key_envelope" -> {"org", "user", "job"}
       [] table \in {"scan_job", "scan_task", "scan_result", "finding", "file_upload"} ->
            {"org", "job"}
       [] OTHER -> {"org"}]

DutyTables == {"scan_job", "scan_task"}

TenantPolicies ==
  {Policy("tenant_rows", table, {"nc3_app"}, Verb, TenantArms[table]) :
     table \in DOMAIN TenantArms}

DutyPolicies ==
  {Policy(duty[1], table, {"app_platform"}, {duty[2]}, {"any"}) :
     duty \in {<<"platform_duty_select", "SELECT">>, <<"platform_duty_update", "UPDATE">>,
               <<"platform_duty_insert", "INSERT">>},
     table \in DutyTables}

OtherPolicies ==
  {Policy("reference_read", "statement", {"nc3_app"}, {"SELECT"}, {"any"}),
   Policy("audit_append_app", "audit_event", {"nc3_app"}, {"INSERT"}, {"orgless", "org"}),
   Policy("audit_append_platform", "audit_event", {"app_platform"}, {"INSERT"}, {"any"})}

PoliciesUp(image) ==
  [Secured(image, RowTables) EXCEPT
     !.usage = @ \cup {"app_platform"},
     !.grants = @ \cup To({"app_platform"}, On(DutyTables, Verb \ {"DELETE"}))
                  \cup {<<"app_platform", "audit_event", "INSERT">>},
     !.policies = @ \cup TenantPolicies \cup OtherPolicies \cup DutyPolicies]

PlatformGate(image, public) ==
  HoldsAny(image, public, "app_platform",
     On({"organization", "key_envelope"}, Verb \ {"SELECT"}) \cup On({"api_key"}, Verb)
     \cup On(DutyTables, {"DELETE"}) \cup On({"audit_event"}, {"UPDATE", "DELETE"})
     \cup VersionTable \cup {CreateInSchema})

PoliciesUpRefused(image, public) ==
  \/ ~(RowTables \subseteq image.tables)
  \/ Unclassified(PoliciesUp(image)) # {}
  \/ PlatformGate(PoliciesUp(image), public)

PoliciesDown_KeepsForce(image) ==
  LET own == {<<policy.name, policy.on>> :
                policy \in TenantPolicies \cup OtherPolicies \cup DutyPolicies}
  IN  [Stripped(image, "app_platform") EXCEPT
         !.policies = {policy \in @ : <<policy.name, policy.on>> \notin own},
         !.enabled = @ \ RowTables]
PoliciesDown(image) ==
  LET own == {<<policy.name, policy.on>> :
                policy \in TenantPolicies \cup OtherPolicies \cup DutyPolicies}
  IN  [Stripped(image, "app_platform") EXCEPT
         !.policies = {policy \in @ : <<policy.name, policy.on>> \notin own},
         !.enabled = @ \ RowTables,
         !.forced = @ \ RowTables]

-----------------------------------------------------------------------------
(* b3c7a9e2f4d1: the credential tables, nc3_auth, and the two lookups that  *)
(* run as nc3_auth_definer.                                                 *)

AuthTables == << <<"user_credential", {"app_user"}>>, <<"user_session", {"app_user"}>> >>
RegistrationRoles_Replaced == {"nc3_auth"}
RegistrationRoles == {"nc3_app", "nc3_auth"}
RegistrationTables == {"organization", "app_user", "key_envelope", "statement_response"}
LookupTables == {"app_user", "user_credential", "user_session"}
EmailIndex == "uq_app_user_email_lower"

AuthGrants ==
  To({"nc3_auth"}, On(Names(AuthTables), Verb \ {"DELETE"})
                   \cup On(RegistrationTables, {"SELECT", "INSERT"})
                   \cup On({"statement"}, {"SELECT"}))
  \cup To({"nc3_auth_definer"}, On(LookupTables, {"SELECT"}))

OwnRows(tables) ==
  {Policy("tenant_rows", table, {"nc3_auth"}, Verb, {"user"}) : table \in tables}

AuthPolicies ==
  OwnRows(Names(AuthTables))
  \cup {Policy("definer_lookup", table, {"nc3_auth_definer"}, {"SELECT"}, {"any"}) :
          table \in LookupTables}

Lookups ==
  {[name |-> name, owner |-> "nc3_auth_definer", caller |-> "nc3_auth"] :
     name \in {"auth_login_lookup", "auth_session_bootstrap"}}

(* The arms of the registration transaction, opened to these roles.         *)
Registration(image, roles) ==
  Addressed(Addressed(image, "tenant_rows", RegistrationTables, roles),
            "reference_read", {"statement"}, roles)

AuthUp(image) ==
  LET secured == Secured(Created(image, AuthTables), Names(AuthTables))
      opened == Registration(secured, RegistrationRoles)
  IN  [opened EXCEPT
         !.added = @ \cup {EmailIndex},
         !.usage = @ \cup {"nc3_auth", "nc3_auth_definer"},
         !.grants = @ \cup AuthGrants,
         !.policies = @ \cup AuthPolicies,
         !.execute = @ \cup Lookups]

AuthGate(image, public) ==
  HoldsAny(image, public, "nc3_auth",
     On({"scan_job", "asset", "api_key", "audit_event"}, Verb)
     \cup On(Names(AuthTables), {"DELETE"})
     \cup On({"organization", "app_user"}, {"UPDATE", "DELETE"})
     \cup On({"statement"}, Verb \ {"SELECT"})
     \cup VersionTable \cup {CreateInSchema})

DefinerGate(image, public) ==
  HoldsAny(image, public, "nc3_auth_definer",
     On(LookupTables, Verb \ {"SELECT"}) \cup On({"key_envelope"}, Verb)
     \cup VersionTable \cup {CreateInSchema})

AuthUpRefused(image, public, unfit) ==
  \/ ~Creatable(image, AuthTables)
  \/ EmailIndex \in image.added \cup unfit
  \/ ~HasPolicy(image, "tenant_rows", RegistrationTables)
  \/ ~HasPolicy(image, "reference_read", {"statement"})
  \/ Lookups \cap image.execute # {}
  \/ Unclassified(AuthUp(image)) # {}
  \/ AuthGate(AuthUp(image), public)
  \/ DefinerGate(AuthUp(image), public)

AuthDown(image) ==
  LET closed == Registration(image, {"nc3_app"})
      stripped == Stripped(Stripped(closed, "nc3_auth"), "nc3_auth_definer")
      dropped == Dropped(stripped, Reversed(AuthTables))
  IN  [dropped EXCEPT
         !.execute = @ \ Lookups,
         !.policies = {policy \in @ : <<policy.name, policy.on>> # <<"definer_lookup", "app_user">>},
         !.added = @ \ {EmailIndex}]

AuthDownRefused(image) ==
  \/ ~Droppable(image, Reversed(AuthTables))
  \/ EmailIndex \notin image.added

-----------------------------------------------------------------------------
(* a9f2c4e6b8d0 and d7e3f1a2b4c6: the statements.  A receipt names a        *)
(* statement through a foreign key.                                         *)

Terms == "terms_and_conditions"
Privacy == "privacy_policy"
Attestation == "scan_target_permission"
Text(key, version) == [key |-> key, version |-> version]

SeedTexts == {Text(Terms, "2026-01-15"), Text(Attestation, "2026-01-15")}
LegalTexts == {Text(Terms, "2026-08-18"), Text(Privacy, "2026-08-18")}

Keyed(image, keys) == {text \in image.texts : text.key \in keys}

SeedUp(image) == [image EXCEPT !.texts = @ \cup SeedTexts]
SeedUpRefused(image) == Keyed(image, {Terms, Attestation}) # {}
SeedDown(image) == [image EXCEPT !.texts = @ \ Keyed(image, {Terms, Attestation})]
SeedDownRefused(receipts) == receipts \cap {Terms, Attestation} # {}

(* The terms are corrected in place, the privacy statement is new.          *)
LegalUp(image) == [image EXCEPT !.texts = (@ \ Keyed(image, {Terms})) \cup LegalTexts]
LegalUpRefused(image) == Keyed(image, {Privacy}) # {}
LegalDown(image) ==
  [image EXCEPT !.texts = (@ \ Keyed(image, {Terms, Privacy})) \cup {Text(Terms, "2026-01-15")}]
LegalDownRefused(receipts) == receipts \cap {Terms, Privacy} # {}

-----------------------------------------------------------------------------
(* e5a1c3d7f9b2: the tables of the second factor.                           *)

MfaTables == << <<"user_mfa", {"app_user"}>>, <<"mfa_recovery_code", {"app_user"}>> >>
AssuranceColumn == "user_session.mfa_verified_at"

MfaUp(image) ==
  [Secured(Created(image, MfaTables), Names(MfaTables)) EXCEPT
     !.added = @ \cup {AssuranceColumn},
     !.grants = @ \cup To({"nc3_auth"}, On(Names(MfaTables), Verb \ {"DELETE"})),
     !.policies = @ \cup OwnRows(Names(MfaTables))]

MfaGate(image, public) ==
  \/ HoldsAny(image, public, "nc3_auth", On(Names(MfaTables), {"DELETE"}))
  \/ \E role \in Role \ {"nc3_auth"} :
       HoldsAny(image, public, role, On(Names(MfaTables), Verb))

MfaUpRefused(image, public) ==
  \/ ~Creatable(image, MfaTables)
  \/ AssuranceColumn \in image.added \/ "user_session" \notin image.tables
  \/ Unclassified(MfaUp(image)) # {}
  \/ MfaGate(MfaUp(image), public)

MfaDown(image) ==
  [Dropped(image, Reversed(MfaTables)) EXCEPT !.added = @ \ {AssuranceColumn}]
MfaDownRefused(image) ==
  AssuranceColumn \notin image.added \/ ~Droppable(image, Reversed(MfaTables))

-----------------------------------------------------------------------------
(* c4d8e6f1a3b7: the proof of a domain and its claim.  The composite key    *)
(* needs the constraint it points at, on the way up and on the way down.    *)

ProofTarget == "uq_asset_id_value"
ProofKey == "fk_domain_verification_asset_value"
ProofParts ==
  {"domain_verification.value", "domain_verification.verified_by_user_id",
   "domain_verification.dnssec_validated", "domain_verification.resolvers",
   "domain_verification.corroborating_answers", "domain_verification.last_reverified_at",
   "uq_domain_verification_value", "organization.named_at"}

(* What rows may break: a value the backfill leaves null, or one twice.     *)
ProofValidated == {"domain_verification.value", "uq_domain_verification_value"}

ProofUp(image) ==
  [image EXCEPT !.added = @ \cup ProofParts \cup {ProofTarget, ProofKey},
                !.keys = @ \cup {<<"domain_verification", "app_user">>}]
ProofUpRefused(image, unfit) ==
  \/ (ProofParts \cup {ProofTarget, ProofKey}) \cap image.added # {}
  \/ ProofValidated \cap unfit # {}

ProofDown(image) ==
  [image EXCEPT !.added = @ \ (ProofParts \cup {ProofTarget, ProofKey}),
                !.keys = @ \ {<<"domain_verification", "app_user">>}]
ProofDownRefused(image) == ~(ProofParts \cup {ProofTarget, ProofKey} \subseteq image.added)

-----------------------------------------------------------------------------
(* The chain of revisions: each step, and when it raises.                   *)

Upgraded(revision, image) ==
  CASE revision = 1 -> InitialUp(image)  [] revision = 2 -> ChecksUp(image)
    [] revision = 3 -> AppUp(image)      [] revision = 4 -> PoliciesUp(image)
    [] revision = 5 -> AuthUp(image)     [] revision = 6 -> SeedUp(image)
    [] revision = 7 -> LegalUp(image)    [] revision = 8 -> MfaUp(image)
    [] revision = 9 -> ProofUp(image)

UpgradeRefused(revision, image, public, unfit) ==
  CASE revision = 1 -> InitialUpRefused(image)
    [] revision = 2 -> ChecksUpRefused(image, unfit)
    [] revision = 3 -> AppUpRefused(image, public)
    [] revision = 4 -> PoliciesUpRefused(image, public)
    [] revision = 5 -> AuthUpRefused(image, public, unfit)
    [] revision = 6 -> SeedUpRefused(image)
    [] revision = 7 -> LegalUpRefused(image)
    [] revision = 8 -> MfaUpRefused(image, public)
    [] revision = 9 -> ProofUpRefused(image, unfit)

Downgraded(revision, image) ==
  CASE revision = 1 -> InitialDown(image)  [] revision = 2 -> ChecksDown(image)
    [] revision = 3 -> AppDown(image)      [] revision = 4 -> PoliciesDown(image)
    [] revision = 5 -> AuthDown(image)     [] revision = 6 -> SeedDown(image)
    [] revision = 7 -> LegalDown(image)    [] revision = 8 -> MfaDown(image)
    [] revision = 9 -> ProofDown(image)

DowngradeRefused(revision, image, receipts) ==
  CASE revision = 1 -> InitialDownRefused(image)
    [] revision = 2 -> ChecksDownRefused(image)
    [] revision = 5 -> AuthDownRefused(image)
    [] revision = 6 -> SeedDownRefused(receipts)
    [] revision = 7 -> LegalDownRefused(receipts)
    [] revision = 8 -> MfaDownRefused(image)
    [] revision = 9 -> ProofDownRefused(image)
    [] OTHER -> FALSE

(* The revision that adds a constraint which rows may break.                *)
Validated == RowChecks \cup {EmailIndex} \cup ProofValidated
RevisionOf(constraint) ==
  CASE constraint \in RowChecks -> 2 [] constraint = EmailIndex -> 5 [] OTHER -> 9

(* The roles a revision creates on the way up and drops on the way down.    *)
RolesOf(revision) ==
  CASE revision = 3 -> {"nc3_app"} [] revision = 4 -> {"app_platform"}
    [] revision = 5 -> {"nc3_auth", "nc3_auth_definer"} [] OTHER -> {}
=============================================================================
