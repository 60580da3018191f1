--------------------------- MODULE MigrationProofs ---------------------------
(***************************************************************************)
(* What each revision holds, in closed form; that every downgrade takes    *)
(* back what its upgrade did and that neither raises by itself; and what   *)
(* follows for the databases of a cluster, whatever commands run on them,  *)
(* for every set of databases: the round trip, the state of the roles and  *)
(* what they reach, and why a command may be refused.                      *)
(***************************************************************************)
EXTENDS MigrationProperties, TLAPS

-----------------------------------------------------------------------------
(* The revisions in closed form.                                            *)

AuthNames == {"user_credential", "user_session"}
MfaNames == {"user_mfa", "mfa_recovery_code"}

TablesAt(n) ==
  (IF n >= 1 THEN RowTables ELSE {}) \cup (IF n >= 5 THEN AuthNames ELSE {})
  \cup (IF n >= 8 THEN MfaNames ELSE {})

KeysAt(n) ==
  (IF n >= 1 THEN Keys(InitialTables) ELSE {}) \cup (IF n >= 5 THEN Keys(AuthTables) ELSE {})
  \cup (IF n >= 8 THEN Keys(MfaTables) ELSE {})
  \cup (IF n >= 9 THEN {<<"domain_verification", "app_user">>} ELSE {})

(* The policies of 0d5679b5500d, with the arms of the registration open to  *)
(* these roles.                                                             *)
TenantRows(opened) ==
  {Policy("tenant_rows", table, IF table \in RegistrationTables THEN opened ELSE {"nc3_app"},
          Verb, TenantArms[table]) : table \in DOMAIN TenantArms}

ReferenceRead(opened) == Policy("reference_read", "statement", opened, {"SELECT"}, {"any"})

AuditAppends ==
  {Policy("audit_append_app", "audit_event", {"nc3_app"}, {"INSERT"}, {"orgless", "org"}),
   Policy("audit_append_platform", "audit_event", {"app_platform"}, {"INSERT"}, {"any"})}

RowPolicies(opened) ==
  TenantRows(opened) \cup {ReferenceRead(opened)} \cup AuditAppends \cup DutyPolicies

PoliciesAt(n) ==
  (IF n >= 4 THEN RowPolicies(IF n >= 5 THEN RegistrationRoles ELSE {"nc3_app"}) ELSE {})
  \cup (IF n >= 5 THEN AuthPolicies ELSE {})
  \cup (IF n >= 8 THEN OwnRows(MfaNames) ELSE {})

UsageAt(n) ==
  (IF n >= 3 THEN {"nc3_app"} ELSE {}) \cup (IF n >= 4 THEN {"app_platform"} ELSE {})
  \cup (IF n >= 5 THEN {"nc3_auth", "nc3_auth_definer"} ELSE {})

PlatformGrants ==
  To({"app_platform"}, On(DutyTables, Verb \ {"DELETE"}))
  \cup {<<"app_platform", "audit_event", "INSERT">>}

GrantsAt(n) ==
  (IF n >= 3 THEN To({"nc3_app"}, On(RowTables, Verb) \ AppendOnly) ELSE {})
  \cup (IF n >= 4 THEN PlatformGrants ELSE {})
  \cup (IF n >= 5 THEN AuthGrants ELSE {})
  \cup (IF n >= 8 THEN To({"nc3_auth"}, On(MfaNames, Verb \ {"DELETE"})) ELSE {})

AddedAt(n) ==
  (IF n >= 2 THEN RowChecks ELSE {}) \cup (IF n >= 5 THEN {EmailIndex} ELSE {})
  \cup (IF n >= 8 THEN {AssuranceColumn} ELSE {})
  \cup (IF n >= 9 THEN ProofParts \cup {ProofTarget, ProofKey} ELSE {})

TextsAt(n) ==
  IF n >= 7 THEN LegalTexts \cup {Text(Attestation, "2026-01-15")}
  ELSE IF n = 6 THEN SeedTexts ELSE {}

Stage(n) ==
  [tables |-> TablesAt(n), keys |-> KeysAt(n),
   enums |-> IF n >= 1 THEN InitialEnums ELSE {},
   enabled |-> IF n >= 4 THEN TablesAt(n) ELSE {},
   forced |-> IF n >= 4 THEN TablesAt(n) ELSE {},
   policies |-> PoliciesAt(n), usage |-> UsageAt(n), grants |-> GrantsAt(n),
   execute |-> IF n >= 5 THEN Lookups ELSE {},
   added |-> AddedAt(n), texts |-> TextsAt(n)]

-----------------------------------------------------------------------------
(* The names and the keys of lists of tables.                               *)

LEMMA NamesJoined ==
  ASSUME NEW S, NEW s \in Seq(S), NEW t \in Seq(S)
  PROVE  Names(s \o t) = Names(s) \cup Names(t)
<1>1. \A i \in DOMAIN (s \o t) : IF i \in DOMAIN s THEN (s \o t)[i] = s[i]
                               ELSE i - Len(s) \in DOMAIN t /\ (s \o t)[i] = t[i - Len(s)]
  OBVIOUS
<1>2. \A i \in DOMAIN s : i \in DOMAIN (s \o t) /\ (s \o t)[i] = s[i]
  OBVIOUS
<1>3. \A i \in DOMAIN t : i + Len(s) \in DOMAIN (s \o t) /\ (s \o t)[i + Len(s)] = t[i]
  OBVIOUS
<1>4. \A x : x \in Names(s \o t) => x \in Names(s) \cup Names(t)
  BY <1>1 DEF Names
<1>5. \A x : x \in Names(s) => x \in Names(s \o t)
  BY <1>2 DEF Names
<1>6. \A i \in DOMAIN t : t[i][1] \in Names(s \o t)
  BY <1>3 DEF Names
<1>. QED  BY <1>4, <1>5, <1>6 DEF Names

LEMMA NamesReversed ==
  ASSUME NEW S, NEW t \in Seq(S)
  PROVE  Names(Reversed(t)) = Names(t)
<1>1. DOMAIN Reversed(t) = DOMAIN t /\ DOMAIN t = 1 .. Len(t)
  BY DEF Reversed
<1>2. \A i \in DOMAIN t : Reversed(t)[i] = t[Len(t) + 1 - i] /\ Len(t) + 1 - i \in DOMAIN t
  BY <1>1 DEF Reversed
<1>3. \A i \in DOMAIN t : Len(t) + 1 - (Len(t) + 1 - i) = i
  BY <1>1
<1>4. \A i \in DOMAIN t : t[i] = Reversed(t)[Len(t) + 1 - i]
  BY <1>2, <1>3
<1>. QED  BY <1>1, <1>2, <1>4 DEF Names

LEMMA AccountNames ==
  Names(AccountTables) = {"organization", "statement", "app_user", "audit_event",
                          "statement_response", "api_key", "asset"}
BY DEF Names, AccountTables

LEMMA AssetNames ==
  Names(AssetTables) = {"file_upload", "notification", "organization_invitation",
                        "organization_webhook", "report", "asset_feed",
                        "domain_verification", "domain_verification_challenge"}
BY DEF Names, AssetTables

LEMMA JobNames == Names(JobTables) = {"schedule", "scan_job", "key_envelope"}
BY DEF Names, JobTables

LEMMA ScanNames == Names(ScanTables) = {"scan_task", "scan_result", "finding"}
BY DEF Names, ScanTables

Rows == RowTables \X SUBSET RowTables
LaterRows == (AuthNames \cup MfaNames) \X SUBSET RowTables

LEMMA TablesTyped ==
  /\ AccountTables \in Seq(Rows) /\ AssetTables \in Seq(Rows) /\ JobTables \in Seq(Rows)
  /\ ScanTables \in Seq(Rows) /\ InitialTables \in Seq(Rows)
  /\ AuthTables \in Seq(LaterRows) /\ MfaTables \in Seq(LaterRows)
<1>. DEFINE R == RowTables
<1>1. /\ {} \in SUBSET R /\ {"organization"} \in SUBSET R
      /\ {"organization", "statement"} \in SUBSET R /\ {"organization", "app_user"} \in SUBSET R
      /\ {"organization", "app_user", "asset"} \in SUBSET R
      /\ {"app_user"} \in SUBSET R /\ {"organization", "asset"} \in SUBSET R
      /\ {"organization", "app_user", "asset", "api_key", "file_upload", "schedule"} \in SUBSET R
      /\ {"organization", "app_user", "scan_job"} \in SUBSET R
      /\ {"organization", "asset", "file_upload", "scan_job", "scan_task"} \in SUBSET R
      /\ {"organization", "scan_task"} \in SUBSET R /\ {"organization", "scan_result"} \in SUBSET R
  BY DEF RowTables
<1>2. \A name \in R, refs \in SUBSET R : <<name, refs>> \in Rows
  BY DEF Rows
<1>3. AccountTables \in Seq(Rows)
  <2>1. \A i \in 1 .. 7 : AccountTables[i] \in Rows
    BY <1>1, <1>2 DEF AccountTables, RowTables
  <2>. QED  BY <2>1 DEF AccountTables
<1>4. AssetTables \in Seq(Rows)
  <2>1. \A i \in 1 .. 8 : AssetTables[i] \in Rows
    BY <1>1, <1>2 DEF AssetTables, RowTables
  <2>. QED  BY <2>1 DEF AssetTables
<1>5. JobTables \in Seq(Rows) /\ ScanTables \in Seq(Rows)
  <2>1. \A i \in 1 .. 3 : JobTables[i] \in Rows /\ ScanTables[i] \in Rows
    BY <1>1, <1>2 DEF JobTables, ScanTables, RowTables
  <2>. QED  BY <2>1 DEF JobTables, ScanTables
<1>6. AuthTables \in Seq(LaterRows) /\ MfaTables \in Seq(LaterRows)
  <2>1. \A i \in 1 .. 2 : AuthTables[i] \in LaterRows /\ MfaTables[i] \in LaterRows
    BY <1>1 DEF AuthTables, MfaTables, LaterRows, AuthNames, MfaNames
  <2>. QED  BY <2>1 DEF AuthTables, MfaTables
<1>. QED  BY <1>3, <1>4, <1>5, <1>6 DEF InitialTables

LEMMA InitialNames == Names(InitialTables) = RowTables
<1>. DEFINE two == AccountTables \o AssetTables
            three == two \o JobTables
<1>1. two \in Seq(Rows) /\ three \in Seq(Rows)
  BY TablesTyped
<1>2. Names(two) = Names(AccountTables) \cup Names(AssetTables)
  BY TablesTyped, NamesJoined
<1>3. InitialTables = three \o ScanTables
  BY DEF InitialTables
<1>. HIDE DEF two, three
<1>4. Names(two \o JobTables) = Names(two) \cup Names(JobTables)
  BY TablesTyped, NamesJoined, <1>1
<1>5. Names(three \o ScanTables) = Names(three) \cup Names(ScanTables)
  BY TablesTyped, NamesJoined, <1>1
<1>6. three = two \o JobTables
  BY DEF three
<1>. QED  BY <1>2, <1>3, <1>4, <1>5, <1>6, AccountNames, AssetNames, JobNames, ScanNames DEF RowTables

LEMMA LaterNames == Names(AuthTables) = AuthNames /\ Names(MfaTables) = MfaNames
BY DEF Names, AuthTables, MfaTables, AuthNames, MfaNames

LEMMA KeysOfNames ==
  ASSUME NEW t, NEW key \in Keys(t)
  PROVE  key[1] \in Names(t) /\ \E i \in DOMAIN t : key[1] = t[i][1] /\ key[2] \in t[i][2]
BY DEF Keys, Names

LEMMA KeysJoined ==
  ASSUME NEW S, NEW s \in Seq(S), NEW t \in Seq(S)
  PROVE  Keys(s \o t) = Keys(s) \cup Keys(t)
<1>1. \A i \in DOMAIN (s \o t) : IF i \in DOMAIN s THEN (s \o t)[i] = s[i]
                               ELSE i - Len(s) \in DOMAIN t /\ (s \o t)[i] = t[i - Len(s)]
  OBVIOUS
<1>2. \A i \in DOMAIN s : i \in DOMAIN (s \o t) /\ (s \o t)[i] = s[i]
  OBVIOUS
<1>3. \A i \in DOMAIN t : i + Len(s) \in DOMAIN (s \o t) /\ (s \o t)[i + Len(s)] = t[i]
  OBVIOUS
<1>4. \A x : x \in Keys(s \o t) => x \in Keys(s) \cup Keys(t)
  BY <1>1 DEF Keys
<1>5. \A x : x \in Keys(s) => x \in Keys(s \o t)
  BY <1>2 DEF Keys
<1>6. \A i \in DOMAIN t : \A x \in {t[i][1]} \X t[i][2] : x \in Keys(s \o t)
  BY <1>3 DEF Keys
<1>7. \A x : x \in Keys(t) => x \in Keys(s \o t)
  BY <1>6 DEF Keys
<1>. QED  BY <1>4, <1>5, <1>7

LEMMA InitialKeys ==
  Keys(InitialTables) = Keys(AccountTables) \cup Keys(AssetTables) \cup Keys(JobTables)
                          \cup Keys(ScanTables)
<1>. DEFINE two == AccountTables \o AssetTables
            three == two \o JobTables
<1>1. two \in Seq(Rows) /\ three \in Seq(Rows)
  BY TablesTyped
<1>2. Keys(two) = Keys(AccountTables) \cup Keys(AssetTables)
  BY TablesTyped, KeysJoined
<1>3. InitialTables = three \o ScanTables
  BY DEF InitialTables
<1>. HIDE DEF two, three
<1>4. Keys(two \o JobTables) = Keys(two) \cup Keys(JobTables)
  BY TablesTyped, KeysJoined, <1>1
<1>5. Keys(three \o ScanTables) = Keys(three) \cup Keys(ScanTables)
  BY TablesTyped, KeysJoined, <1>1
<1>6. three = two \o JobTables
  BY DEF three
<1>. QED  BY <1>2, <1>3, <1>4, <1>5, <1>6

LEMMA KeyAbsent ==
  <<"domain_verification", "app_user">>
    \notin Keys(InitialTables) \cup Keys(AuthTables) \cup Keys(MfaTables)
<1>. DEFINE key == <<"domain_verification", "app_user">>
<1>1. key \notin Keys(AccountTables)
  BY KeysOfNames, AccountNames
<1>2. key \notin Keys(AssetTables)
  <2>1. \A i \in 1 .. 8 : AssetTables[i][1] = "domain_verification" => "app_user" \notin AssetTables[i][2]
    BY DEF AssetTables
  <2>2. DOMAIN AssetTables = 1 .. 8
    BY DEF AssetTables
  <2>. QED  BY <2>1, <2>2, KeysOfNames
<1>3. key \notin Keys(JobTables) /\ key \notin Keys(ScanTables)
  BY KeysOfNames, JobNames, ScanNames
<1>4. key \notin Keys(AuthTables) /\ key \notin Keys(MfaTables)
  BY KeysOfNames, LaterNames DEF AuthNames, MfaNames
<1>. QED  BY <1>1, <1>2, <1>3, <1>4, InitialKeys

LEMMA ApartNames == RowTables \cap AuthNames = {} /\ (RowTables \cup AuthNames) \cap MfaNames = {}
BY DEF RowTables, AuthNames, MfaNames

-----------------------------------------------------------------------------
(* Each upgrade takes the closed form of a revision to that of the next,    *)
(* and its downgrade takes it back.                                         *)

LEMMA StageBlank == Stage(0) = Blank
BY DEF Stage, TablesAt, KeysAt, PoliciesAt, UsageAt, GrantsAt, AddedAt, TextsAt, Blank

(* Images, and what an operation leaves alone in one.                       *)
IsImage(i) ==
  i = [tables |-> i.tables, keys |-> i.keys, enums |-> i.enums, enabled |-> i.enabled,
       forced |-> i.forced, policies |-> i.policies, usage |-> i.usage, grants |-> i.grants,
       execute |-> i.execute, added |-> i.added, texts |-> i.texts]

Outside(fields, i, o) ==
  /\ IsImage(o)
  /\ "tables" \notin fields => o.tables = i.tables
  /\ "keys" \notin fields => o.keys = i.keys
  /\ "enums" \notin fields => o.enums = i.enums
  /\ "enabled" \notin fields => o.enabled = i.enabled
  /\ "forced" \notin fields => o.forced = i.forced
  /\ "policies" \notin fields => o.policies = i.policies
  /\ "usage" \notin fields => o.usage = i.usage
  /\ "grants" \notin fields => o.grants = i.grants
  /\ "execute" \notin fields => o.execute = i.execute
  /\ "added" \notin fields => o.added = i.added
  /\ "texts" \notin fields => o.texts = i.texts

LEMMA ImageEqual ==
  ASSUME NEW i, NEW o, IsImage(i), Outside({}, i, o)
  PROVE  o = i
BY DEF IsImage, Outside

LEMMA OutsideBoth ==
  ASSUME NEW i, NEW c, NEW o, NEW A, NEW B, Outside(A, i, c), Outside(B, c, o)
  PROVE  Outside(A \cup B, i, o)
BY DEF Outside

LEMMA StageImage == \A n : IsImage(Stage(n))
BY DEF IsImage, Stage

LEMMA CreatedFields ==
  ASSUME NEW i, IsImage(i), NEW t, NEW o, o = Created(i, t)
  PROVE  /\ Outside({"tables", "keys"}, i, o)
         /\ o.tables = i.tables \cup Names(t) /\ o.keys = i.keys \cup Keys(t)
BY DEF IsImage, Outside, Created

LEMMA DroppedFields ==
  ASSUME NEW i, IsImage(i), NEW t, NEW o, o = Dropped(i, t)
  PROVE  /\ Outside({"tables", "keys", "enabled", "forced", "policies", "grants"}, i, o)
         /\ o.tables = i.tables \ Names(t)
         /\ o.keys = {key \in i.keys : key[1] \notin Names(t)}
         /\ o.enabled = i.enabled \ Names(t) /\ o.forced = i.forced \ Names(t)
         /\ o.policies = {policy \in i.policies : policy.on \notin Names(t)}
         /\ o.grants = {grant \in i.grants : grant[2] \notin Names(t)}
BY DEF IsImage, Outside, Dropped

LEMMA SecuredFields ==
  ASSUME NEW i, IsImage(i), NEW t, NEW o, o = Secured(i, t)
  PROVE  /\ Outside({"enabled", "forced"}, i, o)
         /\ o.enabled = i.enabled \cup t /\ o.forced = i.forced \cup t
BY DEF IsImage, Outside, Secured

LEMMA StrippedFields ==
  ASSUME NEW i, IsImage(i), NEW r, NEW o, o = Stripped(i, r)
  PROVE  /\ Outside({"grants", "usage"}, i, o)
         /\ o.grants = {grant \in i.grants : grant[1] # r} /\ o.usage = i.usage \ {r}
BY DEF IsImage, Outside, Stripped

LEMMA TablesOf ==
  /\ TablesAt(0) = {}
  /\ \A n \in 1 .. 4 : TablesAt(n) = RowTables
  /\ \A n \in 5 .. 7 : TablesAt(n) = RowTables \cup AuthNames
  /\ \A n \in 8 .. 9 : TablesAt(n) = RowTables \cup AuthNames \cup MfaNames
BY DEF TablesAt

LEMMA KeysOf ==
  /\ KeysAt(0) = {}
  /\ \A n \in 1 .. 4 : KeysAt(n) = Keys(InitialTables)
  /\ \A n \in 5 .. 7 : KeysAt(n) = Keys(InitialTables) \cup Keys(AuthTables)
  /\ KeysAt(8) = Keys(InitialTables) \cup Keys(AuthTables) \cup Keys(MfaTables)
  /\ KeysAt(9) = KeysAt(8) \cup {<<"domain_verification", "app_user">>}
BY DEF KeysAt

LEMMA PoliciesOf ==
  /\ \A n \in 0 .. 3 : PoliciesAt(n) = {}
  /\ PoliciesAt(4) = RowPolicies({"nc3_app"})
  /\ \A n \in 5 .. 7 : PoliciesAt(n) = RowPolicies(RegistrationRoles) \cup AuthPolicies
  /\ \A n \in 8 .. 9 : PoliciesAt(n) = RowPolicies(RegistrationRoles) \cup AuthPolicies
                                         \cup OwnRows(MfaNames)
BY DEF PoliciesAt

LEMMA UsageOf ==
  /\ \A n \in 0 .. 2 : UsageAt(n) = {}
  /\ UsageAt(3) = {"nc3_app"}
  /\ UsageAt(4) = {"nc3_app", "app_platform"}
  /\ \A n \in 5 .. 9 : UsageAt(n) = {"nc3_app", "app_platform", "nc3_auth", "nc3_auth_definer"}
BY DEF UsageAt

AppGrants == To({"nc3_app"}, On(RowTables, Verb) \ AppendOnly)
MfaGrants == To({"nc3_auth"}, On(MfaNames, Verb \ {"DELETE"}))

LEMMA GrantsOf ==
  /\ \A n \in 0 .. 2 : GrantsAt(n) = {}
  /\ GrantsAt(3) = AppGrants
  /\ GrantsAt(4) = AppGrants \cup PlatformGrants
  /\ \A n \in 5 .. 7 : GrantsAt(n) = AppGrants \cup PlatformGrants \cup AuthGrants
  /\ \A n \in 8 .. 9 : GrantsAt(n) = AppGrants \cup PlatformGrants \cup AuthGrants \cup MfaGrants
BY DEF GrantsAt, AppGrants, MfaGrants

LEMMA AddedOf ==
  /\ \A n \in 0 .. 1 : AddedAt(n) = {}
  /\ \A n \in 2 .. 4 : AddedAt(n) = RowChecks
  /\ \A n \in 5 .. 7 : AddedAt(n) = RowChecks \cup {EmailIndex}
  /\ AddedAt(8) = RowChecks \cup {EmailIndex, AssuranceColumn}
  /\ AddedAt(9) = RowChecks \cup {EmailIndex, AssuranceColumn} \cup ProofParts \cup {ProofTarget, ProofKey}
BY DEF AddedAt

LEMMA TextsOf ==
  /\ \A n \in 0 .. 5 : TextsAt(n) = {}
  /\ TextsAt(6) = SeedTexts
  /\ \A n \in 7 .. 9 : TextsAt(n) = LegalTexts \cup {Text(Attestation, "2026-01-15")}
BY DEF TextsAt

LEMMA Stage0 ==
  /\ Stage(0).tables = {} /\ Stage(0).keys = {} /\ Stage(0).enums = {} /\ Stage(0).enabled = {}
  /\ Stage(0).forced = {} /\ Stage(0).policies = {} /\ Stage(0).usage = {}
  /\ Stage(0).grants = {} /\ Stage(0).execute = {} /\ Stage(0).added = {} /\ Stage(0).texts = {}
BY TablesOf, KeysOf, PoliciesOf, UsageOf, GrantsOf, AddedOf, TextsOf DEF Stage

LEMMA Stage1 ==
  /\ Stage(1).tables = RowTables /\ Stage(1).keys = Keys(InitialTables)
  /\ Stage(1).enums = InitialEnums /\ Stage(1).enabled = {} /\ Stage(1).forced = {}
  /\ Stage(1).policies = {} /\ Stage(1).usage = {} /\ Stage(1).grants = {}
  /\ Stage(1).execute = {} /\ Stage(1).added = {} /\ Stage(1).texts = {}
BY TablesOf, KeysOf, PoliciesOf, UsageOf, GrantsOf, AddedOf, TextsOf DEF Stage

LEMMA Stage2 ==
  /\ Stage(2).tables = RowTables /\ Stage(2).keys = Keys(InitialTables)
  /\ Stage(2).enums = InitialEnums /\ Stage(2).enabled = {} /\ Stage(2).forced = {}
  /\ Stage(2).policies = {} /\ Stage(2).usage = {} /\ Stage(2).grants = {}
  /\ Stage(2).execute = {} /\ Stage(2).added = RowChecks /\ Stage(2).texts = {}
BY TablesOf, KeysOf, PoliciesOf, UsageOf, GrantsOf, AddedOf, TextsOf DEF Stage

LEMMA Stage3 ==
  /\ Stage(3).tables = RowTables /\ Stage(3).keys = Keys(InitialTables)
  /\ Stage(3).enums = InitialEnums /\ Stage(3).enabled = {} /\ Stage(3).forced = {}
  /\ Stage(3).policies = {} /\ Stage(3).usage = {"nc3_app"} /\ Stage(3).grants = AppGrants
  /\ Stage(3).execute = {} /\ Stage(3).added = RowChecks /\ Stage(3).texts = {}
BY TablesOf, KeysOf, PoliciesOf, UsageOf, GrantsOf, AddedOf, TextsOf DEF Stage

LEMMA Stage4 ==
  /\ Stage(4).tables = RowTables /\ Stage(4).keys = Keys(InitialTables)
  /\ Stage(4).enums = InitialEnums /\ Stage(4).enabled = RowTables /\ Stage(4).forced = RowTables
  /\ Stage(4).policies = RowPolicies({"nc3_app"}) /\ Stage(4).usage = {"nc3_app", "app_platform"}
  /\ Stage(4).grants = AppGrants \cup PlatformGrants /\ Stage(4).execute = {}
  /\ Stage(4).added = RowChecks /\ Stage(4).texts = {}
BY TablesOf, KeysOf, PoliciesOf, UsageOf, GrantsOf, AddedOf, TextsOf DEF Stage

LEMMA Stage5 ==
  /\ Stage(5).tables = RowTables \cup AuthNames
  /\ Stage(5).keys = Keys(InitialTables) \cup Keys(AuthTables) /\ Stage(5).enums = InitialEnums
  /\ Stage(5).enabled = RowTables \cup AuthNames /\ Stage(5).forced = RowTables \cup AuthNames
  /\ Stage(5).policies = RowPolicies(RegistrationRoles) \cup AuthPolicies
  /\ Stage(5).usage = {"nc3_app", "app_platform", "nc3_auth", "nc3_auth_definer"}
  /\ Stage(5).grants = AppGrants \cup PlatformGrants \cup AuthGrants
  /\ Stage(5).execute = Lookups /\ Stage(5).added = RowChecks \cup {EmailIndex}
  /\ Stage(5).texts = {}
BY TablesOf, KeysOf, PoliciesOf, UsageOf, GrantsOf, AddedOf, TextsOf DEF Stage

LEMMA Stage6 ==
  /\ Stage(6).tables = RowTables \cup AuthNames
  /\ Stage(6).keys = Keys(InitialTables) \cup Keys(AuthTables) /\ Stage(6).enums = InitialEnums
  /\ Stage(6).enabled = RowTables \cup AuthNames /\ Stage(6).forced = RowTables \cup AuthNames
  /\ Stage(6).policies = RowPolicies(RegistrationRoles) \cup AuthPolicies
  /\ Stage(6).usage = {"nc3_app", "app_platform", "nc3_auth", "nc3_auth_definer"}
  /\ Stage(6).grants = AppGrants \cup PlatformGrants \cup AuthGrants
  /\ Stage(6).execute = Lookups /\ Stage(6).added = RowChecks \cup {EmailIndex}
  /\ Stage(6).texts = SeedTexts
BY TablesOf, KeysOf, PoliciesOf, UsageOf, GrantsOf, AddedOf, TextsOf DEF Stage

LEMMA Stage7 ==
  /\ Stage(7).tables = RowTables \cup AuthNames
  /\ Stage(7).keys = Keys(InitialTables) \cup Keys(AuthTables) /\ Stage(7).enums = InitialEnums
  /\ Stage(7).enabled = RowTables \cup AuthNames /\ Stage(7).forced = RowTables \cup AuthNames
  /\ Stage(7).policies = RowPolicies(RegistrationRoles) \cup AuthPolicies
  /\ Stage(7).usage = {"nc3_app", "app_platform", "nc3_auth", "nc3_auth_definer"}
  /\ Stage(7).grants = AppGrants \cup PlatformGrants \cup AuthGrants
  /\ Stage(7).execute = Lookups /\ Stage(7).added = RowChecks \cup {EmailIndex}
  /\ Stage(7).texts = LegalTexts \cup {Text(Attestation, "2026-01-15")}
BY TablesOf, KeysOf, PoliciesOf, UsageOf, GrantsOf, AddedOf, TextsOf DEF Stage

LEMMA Stage8 ==
  /\ Stage(8).tables = RowTables \cup AuthNames \cup MfaNames
  /\ Stage(8).keys = Keys(InitialTables) \cup Keys(AuthTables) \cup Keys(MfaTables)
  /\ Stage(8).enums = InitialEnums /\ Stage(8).enabled = RowTables \cup AuthNames \cup MfaNames
  /\ Stage(8).forced = RowTables \cup AuthNames \cup MfaNames
  /\ Stage(8).policies = RowPolicies(RegistrationRoles) \cup AuthPolicies \cup OwnRows(MfaNames)
  /\ Stage(8).usage = {"nc3_app", "app_platform", "nc3_auth", "nc3_auth_definer"}
  /\ Stage(8).grants = AppGrants \cup PlatformGrants \cup AuthGrants \cup MfaGrants
  /\ Stage(8).execute = Lookups /\ Stage(8).added = RowChecks \cup {EmailIndex, AssuranceColumn}
  /\ Stage(8).texts = LegalTexts \cup {Text(Attestation, "2026-01-15")}
BY TablesOf, KeysOf, PoliciesOf, UsageOf, GrantsOf, AddedOf, TextsOf DEF Stage

LEMMA Stage9 ==
  /\ Stage(9).tables = RowTables \cup AuthNames \cup MfaNames
  /\ Stage(9).keys = Keys(InitialTables) \cup Keys(AuthTables) \cup Keys(MfaTables) \cup {<<"domain_verification", "app_user">>}
  /\ Stage(9).enums = InitialEnums /\ Stage(9).enabled = RowTables \cup AuthNames \cup MfaNames
  /\ Stage(9).forced = RowTables \cup AuthNames \cup MfaNames
  /\ Stage(9).policies = RowPolicies(RegistrationRoles) \cup AuthPolicies \cup OwnRows(MfaNames)
  /\ Stage(9).usage = {"nc3_app", "app_platform", "nc3_auth", "nc3_auth_definer"}
  /\ Stage(9).grants = AppGrants \cup PlatformGrants \cup AuthGrants \cup MfaGrants
  /\ Stage(9).execute = Lookups
  /\ Stage(9).added = RowChecks \cup {EmailIndex, AssuranceColumn} \cup ProofParts \cup {ProofTarget, ProofKey}
  /\ Stage(9).texts = LegalTexts \cup {Text(Attestation, "2026-01-15")}
BY TablesOf, KeysOf, PoliciesOf, UsageOf, GrantsOf, AddedOf, TextsOf DEF Stage

LEMMA InitialRound == InitialUp(Stage(0)) = Stage(1) /\ InitialDown(Stage(1)) = Stage(0)
<1>1. Names(InitialTables) = RowTables /\ Names(Reversed(InitialTables)) = RowTables
  BY InitialNames, TablesTyped, NamesReversed
<1>2. \A key \in Keys(InitialTables) : key[1] \in RowTables
  BY InitialNames, KeysOfNames
<1>3. InitialUp(Stage(0)) = Stage(1)
  <2>. DEFINE i == Stage(0)
              c == Created(i, InitialTables)
              o == InitialUp(i)
  <2>1. Outside({"tables", "keys"}, i, c) /\ c.tables = i.tables \cup RowTables
        /\ c.keys = i.keys \cup Keys(InitialTables)
    BY StageImage, CreatedFields, <1>1
  <2>2. o = [c EXCEPT !.enums = @ \cup InitialEnums]
    BY DEF InitialUp
  <2>. HIDE DEF i, c, o
  <2>3. Outside({"enums"}, c, o) /\ o.enums = c.enums \cup InitialEnums
    BY <2>1, <2>2 DEF Outside, IsImage
  <2>4. c.tables = RowTables /\ c.keys = Keys(InitialTables) /\ o.enums = InitialEnums
    BY <2>1, <2>3, Stage0 DEF Outside, i
  <2>5. Outside({"tables", "keys", "enums"}, i, o)
    BY <2>1, <2>3, OutsideBoth
  <2>6. o.tables = c.tables /\ o.keys = c.keys
    BY <2>3 DEF Outside
  <2>7. Outside({}, Stage(1), o)
    BY <2>4, <2>5, <2>6, Stage0, Stage1 DEF Outside, i
  <2>. QED  BY <2>7, StageImage, ImageEqual DEF o, i
<1>4. InitialDown(Stage(1)) = Stage(0)
  <2>. DEFINE i == Stage(1)
              c == Dropped(i, Reversed(InitialTables))
              o == InitialDown(i)
  <2>1. /\ Outside({"tables", "keys", "enabled", "forced", "policies", "grants"}, i, c)
        /\ c.tables = i.tables \ RowTables
        /\ c.keys = {key \in i.keys : key[1] \notin RowTables}
        /\ c.enabled = i.enabled \ RowTables /\ c.forced = i.forced \ RowTables
        /\ c.policies = {policy \in i.policies : policy.on \notin RowTables}
        /\ c.grants = {grant \in i.grants : grant[2] \notin RowTables}
    BY StageImage, DroppedFields, <1>1
  <2>2. o = [c EXCEPT !.enums = @ \ InitialEnums]
    BY DEF InitialDown
  <2>. HIDE DEF i, c, o
  <2>3. Outside({"enums"}, c, o) /\ o.enums = c.enums \ InitialEnums
    BY <2>1, <2>2 DEF Outside, IsImage
  <2>4. Outside({}, Stage(0), o)
    BY <2>1, <2>3, <1>2, Stage0, Stage1 DEF Outside, i
  <2>. QED  BY <2>4, StageImage, ImageEqual DEF o, i
<1>. QED  BY <1>3, <1>4

LEMMA ChecksRound == ChecksUp(Stage(1)) = Stage(2) /\ ChecksDown(Stage(2)) = Stage(1)
<1>1. ChecksUp(Stage(1)) = Stage(2)
  <2>. DEFINE i == Stage(1)
              o == ChecksUp(i)
  <2>1. o = [i EXCEPT !.added = @ \cup RowChecks]
    BY DEF ChecksUp
  <2>. HIDE DEF i, o
  <2>2. Outside({"added"}, i, o) /\ o.added = i.added \cup RowChecks
    BY <2>1, StageImage DEF Outside, IsImage, i
  <2>3. Outside({}, Stage(2), o)
    BY <2>2, Stage1, Stage2 DEF Outside, i
  <2>. QED  BY <2>3, StageImage, ImageEqual DEF o, i
<1>2. ChecksDown(Stage(2)) = Stage(1)
  <2>. DEFINE i == Stage(2)
              o == ChecksDown(i)
  <2>1. o = [i EXCEPT !.added = @ \ RowChecks]
    BY DEF ChecksDown
  <2>. HIDE DEF i, o
  <2>2. Outside({"added"}, i, o) /\ o.added = i.added \ RowChecks
    BY <2>1, StageImage DEF Outside, IsImage, i
  <2>3. Outside({}, Stage(1), o)
    BY <2>2, Stage1, Stage2 DEF Outside, i
  <2>. QED  BY <2>3, StageImage, ImageEqual DEF o, i
<1>. QED  BY <1>1, <1>2

(* The roles that hold a grant, in each group of grants.                     *)
LEMMA GrantRoles ==
  /\ \A grant \in AppGrants : grant[1] = "nc3_app" /\ grant[2] \in RowTables
  /\ \A grant \in PlatformGrants : grant[1] = "app_platform" /\ grant[2] \in RowTables
  /\ \A grant \in AuthGrants :
       grant[1] \in {"nc3_auth", "nc3_auth_definer"} /\ grant[2] \in RowTables \cup AuthNames
  /\ \A grant \in MfaGrants : grant[1] = "nc3_auth" /\ grant[2] \in MfaNames
<1>1. \A grant \in AppGrants : grant[1] = "nc3_app" /\ grant[2] \in RowTables
  BY DEF AppGrants, To, On
<1>2. \A grant \in PlatformGrants : grant[1] = "app_platform" /\ grant[2] \in RowTables
  BY DEF PlatformGrants, To, On, DutyTables, RowTables
<1>3. \A grant \in AuthGrants :
        grant[1] \in {"nc3_auth", "nc3_auth_definer"} /\ grant[2] \in RowTables \cup AuthNames
  BY LaterNames DEF AuthGrants, To, On, LookupTables, RegistrationTables, RowTables, AuthNames
<1>4. \A grant \in MfaGrants : grant[1] = "nc3_auth" /\ grant[2] \in MfaNames
  BY DEF MfaGrants, To, On
<1>. QED  BY <1>1, <1>2, <1>3, <1>4

LEMMA AppRound == AppUp(Stage(2)) = Stage(3) /\ AppDown(Stage(3)) = Stage(2)
<1>1. AppUp(Stage(2)) = Stage(3)
  <2>. DEFINE i == Stage(2)
              o == AppUp(i)
  <2>1. o = [i EXCEPT !.usage = @ \cup {"nc3_app"}, !.grants = @ \cup AppGrants]
    <3>1. i.tables = RowTables
      BY Stage2
    <3>. QED  BY <3>1 DEF AppUp, AppGrants
  <2>. HIDE DEF i, o
  <2>2. /\ Outside({"usage", "grants"}, i, o)
        /\ o.usage = i.usage \cup {"nc3_app"} /\ o.grants = i.grants \cup AppGrants
    <3>1. IsImage(i)
      BY StageImage DEF i
    <3>. QED  BY <2>1, <3>1 DEF Outside, IsImage
  <2>3. o.usage = {"nc3_app"} /\ o.grants = AppGrants
    BY <2>2, Stage2 DEF i
  <2>4. Outside({}, Stage(3), o)
    BY <2>2, <2>3, Stage2, Stage3 DEF Outside, i
  <2>. QED  BY <2>4, StageImage, ImageEqual DEF o, i
<1>2. AppDown(Stage(3)) = Stage(2)
  <2>. DEFINE i == Stage(3)
              o == AppDown(i)
  <2>1. /\ Outside({"grants", "usage"}, i, o)
        /\ o.grants = {grant \in i.grants : grant[1] # "nc3_app"}
        /\ o.usage = i.usage \ {"nc3_app"}
    BY StageImage, StrippedFields DEF AppDown
  <2>. HIDE DEF i, o
  <2>2. o.grants = {} /\ o.usage = {}
    BY <2>1, Stage3, GrantRoles DEF i
  <2>3. Outside({}, Stage(2), o)
    BY <2>1, <2>2, Stage2, Stage3 DEF Outside, i
  <2>. QED  BY <2>3, StageImage, ImageEqual DEF o, i
<1>. QED  BY <1>1, <1>2

(* The policies of 0d5679b5500d, as it writes them.                          *)
LEMMA RowPoliciesWritten ==
  TenantPolicies \cup OtherPolicies \cup DutyPolicies = RowPolicies({"nc3_app"})
<1>1. TenantPolicies = TenantRows({"nc3_app"})
  BY DEF TenantPolicies, TenantRows
<1>2. OtherPolicies = {ReferenceRead({"nc3_app"})} \cup AuditAppends
  BY DEF OtherPolicies, ReferenceRead, AuditAppends
<1>. QED  BY <1>1, <1>2 DEF RowPolicies

LEMMA PoliciesRound == PoliciesUp(Stage(3)) = Stage(4) /\ PoliciesDown(Stage(4)) = Stage(3)
<1>1. PoliciesUp(Stage(3)) = Stage(4)
  <2>. DEFINE i == Stage(3)
              c == Secured(i, RowTables)
              o == PoliciesUp(i)
  <2>1. /\ Outside({"enabled", "forced"}, i, c)
        /\ c.enabled = i.enabled \cup RowTables /\ c.forced = i.forced \cup RowTables
    BY StageImage, SecuredFields
  <2>2. o = [c EXCEPT !.usage = @ \cup {"app_platform"},
                      !.grants = @ \cup To({"app_platform"}, On(DutyTables, Verb \ {"DELETE"}))
                                   \cup {<<"app_platform", "audit_event", "INSERT">>},
                      !.policies = @ \cup TenantPolicies \cup OtherPolicies \cup DutyPolicies]
    BY DEF PoliciesUp
  <2>. HIDE DEF i, c, o
  <2>3. /\ Outside({"usage", "grants", "policies"}, c, o)
        /\ o.usage = c.usage \cup {"app_platform"}
        /\ o.grants = c.grants \cup To({"app_platform"}, On(DutyTables, Verb \ {"DELETE"}))
                                   \cup {<<"app_platform", "audit_event", "INSERT">>}
        /\ o.policies = c.policies \cup TenantPolicies \cup OtherPolicies \cup DutyPolicies
    BY <2>1, <2>2 DEF Outside, IsImage
  <2>4. Outside({"enabled", "forced", "usage", "grants", "policies"}, i, o)
    <3>1. Outside({"enabled", "forced"} \cup {"usage", "grants", "policies"}, i, o)
      BY <2>1, <2>3, OutsideBoth
    <3>2. {"enabled", "forced"} \cup {"usage", "grants", "policies"}
            = {"enabled", "forced", "usage", "grants", "policies"}
      OBVIOUS
    <3>. QED  BY <3>1, <3>2
  <2>5. o.enabled = RowTables /\ o.forced = RowTables
    BY <2>1, <2>3, Stage3 DEF Outside, i
  <2>6. c.usage = {"nc3_app"} /\ c.grants = AppGrants /\ c.policies = {}
    BY <2>1, Stage3 DEF Outside, i
  <2>7. o.usage = {"nc3_app", "app_platform"}
    BY <2>3, <2>6
  <2>8. o.grants = AppGrants \cup PlatformGrants
    BY <2>3, <2>6 DEF PlatformGrants
  <2>9. o.policies = RowPolicies({"nc3_app"})
    BY <2>3, <2>6, RowPoliciesWritten
  <2>10. Outside({}, Stage(4), o)
    BY <2>4, <2>5, <2>7, <2>8, <2>9, Stage3, Stage4 DEF Outside, i
  <2>. QED  BY <2>10, StageImage, ImageEqual DEF o, i
<1>2. PoliciesDown(Stage(4)) = Stage(3)
  <2>. DEFINE i == Stage(4)
              c == Stripped(i, "app_platform")
              own == {<<policy.name, policy.on>> :
                        policy \in TenantPolicies \cup OtherPolicies \cup DutyPolicies}
              o == PoliciesDown(i)
  <2>1. /\ Outside({"grants", "usage"}, i, c)
        /\ c.grants = {grant \in i.grants : grant[1] # "app_platform"}
        /\ c.usage = i.usage \ {"app_platform"}
    BY StageImage, StrippedFields
  <2>2. o = [c EXCEPT !.policies = {policy \in @ : <<policy.name, policy.on>> \notin own},
                      !.enabled = @ \ RowTables, !.forced = @ \ RowTables]
    BY DEF PoliciesDown
  <2>. HIDE DEF i, c, o, own
  <2>3. /\ Outside({"policies", "enabled", "forced"}, c, o)
        /\ o.policies = {policy \in c.policies : <<policy.name, policy.on>> \notin own}
        /\ o.enabled = c.enabled \ RowTables /\ o.forced = c.forced \ RowTables
    BY <2>1, <2>2 DEF Outside, IsImage
  <2>4. Outside({"grants", "usage", "policies", "enabled", "forced"}, i, o)
    <3>1. Outside({"grants", "usage"} \cup {"policies", "enabled", "forced"}, i, o)
      BY <2>1, <2>3, OutsideBoth
    <3>2. {"grants", "usage"} \cup {"policies", "enabled", "forced"}
            = {"grants", "usage", "policies", "enabled", "forced"}
      OBVIOUS
    <3>. QED  BY <3>1, <3>2
  <2>5. o.grants = AppGrants
    <3>1. o.grants = {grant \in AppGrants \cup PlatformGrants : grant[1] # "app_platform"}
      BY <2>1, <2>3, Stage4 DEF Outside, i
    <3>. QED  BY <3>1, GrantRoles
  <2>6. o.usage = {"nc3_app"}
    <3>1. o.usage = {"nc3_app", "app_platform"} \ {"app_platform"}
      BY <2>1, <2>3, Stage4 DEF Outside, i
    <3>. QED  BY <3>1
  <2>7. o.enabled = {} /\ o.forced = {}
    BY <2>1, <2>3, Stage4 DEF Outside, i
  <2>8. o.policies = {}
    <3>1. c.policies = RowPolicies({"nc3_app"})
      BY <2>1, Stage4 DEF Outside, i
    <3>2. \A policy \in c.policies : <<policy.name, policy.on>> \in own
      BY <3>1, RowPoliciesWritten DEF own
    <3>. QED  BY <2>3, <3>2
  <2>9. Outside({}, Stage(3), o)
    BY <2>4, <2>5, <2>6, <2>7, <2>8, Stage3, Stage4 DEF Outside, i
  <2>. QED  BY <2>9, StageImage, ImageEqual DEF o, i
<1>. QED  BY <1>1, <1>2

(* A policy is its five parts; the ones of each group name these tables.     *)
IsPolicy(p) ==
  p = [name |-> p.name, on |-> p.on, to |-> p.to, verbs |-> p.verbs, arms |-> p.arms]

LEMMA PolicyParts ==
  ASSUME NEW name, NEW table, NEW roles, NEW verbs, NEW arms, NEW p,
         p = Policy(name, table, roles, verbs, arms)
  PROVE  /\ IsPolicy(p) /\ p.name = name /\ p.on = table /\ p.to = roles
         /\ p.verbs = verbs /\ p.arms = arms
BY DEF Policy, IsPolicy

LEMMA TenantRowsParts ==
  ASSUME NEW opened, NEW p \in TenantRows(opened)
  PROVE  /\ IsPolicy(p) /\ p.name = "tenant_rows" /\ p.on \in RowTables
         /\ p.on \notin {"statement", "audit_event"}
         /\ p.to = (IF p.on \in RegistrationTables THEN opened ELSE {"nc3_app"})
         /\ p.verbs = Verb /\ p.arms = TenantArms[p.on]
<1>1. PICK table \in DOMAIN TenantArms :
        p = Policy("tenant_rows", table, IF table \in RegistrationTables THEN opened ELSE {"nc3_app"},
                   Verb, TenantArms[table])
  BY DEF TenantRows
<1>2. table \in RowTables \ {"statement", "audit_event"}
  BY DEF TenantArms
<1>. QED  BY <1>1, <1>2, PolicyParts

LEMMA OtherParts ==
  ASSUME NEW p \in AuditAppends \cup DutyPolicies
  PROVE  /\ IsPolicy(p) /\ p.name \notin {"tenant_rows", "reference_read", "definer_lookup"}
         /\ p.on \in {"audit_event", "scan_job", "scan_task"}
         /\ p.to \subseteq {"nc3_app", "app_platform"}
<1>1. CASE p \in AuditAppends
  BY <1>1, PolicyParts DEF AuditAppends
<1>2. CASE p \in DutyPolicies
  <2>1. PICK duty \in {<<"platform_duty_select", "SELECT">>, <<"platform_duty_update", "UPDATE">>,
                       <<"platform_duty_insert", "INSERT">>}, table \in DutyTables :
          p = Policy(duty[1], table, {"app_platform"}, {duty[2]}, {"any"})
    BY <1>2 DEF DutyPolicies
  <2>2. duty[1] \notin {"tenant_rows", "reference_read", "definer_lookup"}
    OBVIOUS
  <2>. QED  BY <2>1, <2>2, PolicyParts DEF DutyTables
<1>. QED  BY <1>1, <1>2

LEMMA AuthParts ==
  ASSUME NEW p \in AuthPolicies
  PROVE  \/ p.on \in AuthNames
         \/ p.on = "app_user" /\ p.name = "definer_lookup"
<1>1. CASE p \in OwnRows(AuthNames)
  <2>1. PICK table \in AuthNames : p = Policy("tenant_rows", table, {"nc3_auth"}, Verb, {"user"})
    BY <1>1 DEF OwnRows
  <2>. QED  BY <2>1, PolicyParts
<1>2. CASE p \in {Policy("definer_lookup", table, {"nc3_auth_definer"}, {"SELECT"}, {"any"}) :
                    table \in LookupTables}
  <2>1. PICK table \in LookupTables :
          p = Policy("definer_lookup", table, {"nc3_auth_definer"}, {"SELECT"}, {"any"})
    BY <1>2
  <2>. QED  BY <2>1, PolicyParts DEF LookupTables, AuthNames
<1>. QED  BY <1>1, <1>2, LaterNames DEF AuthPolicies

(* ALTER POLICY ... TO, on one policy.                                       *)
Turned(p, name, tables, roles) ==
  IF p.name = name /\ p.on \in tables THEN [p EXCEPT !.to = roles] ELSE p

Opened(p, roles) ==
  Turned(Turned(p, "tenant_rows", RegistrationTables, roles), "reference_read", {"statement"}, roles)

LEMMA AddressedFields ==
  ASSUME NEW i, IsImage(i), NEW name, NEW tables, NEW roles, NEW o,
         o = Addressed(i, name, tables, roles)
  PROVE  /\ Outside({"policies"}, i, o)
         /\ o.policies = {Turned(p, name, tables, roles) : p \in i.policies}
BY DEF IsImage, Outside, Addressed, Turned

LEMMA RegistrationFields ==
  ASSUME NEW i, IsImage(i), NEW roles, NEW o, o = Registration(i, roles)
  PROVE  /\ Outside({"policies"}, i, o)
         /\ o.policies = {Opened(p, roles) : p \in i.policies}
<1>. DEFINE c == Addressed(i, "tenant_rows", RegistrationTables, roles)
<1>1. /\ Outside({"policies"}, i, c)
      /\ c.policies = {Turned(p, "tenant_rows", RegistrationTables, roles) : p \in i.policies}
  BY AddressedFields
<1>2. o = Addressed(c, "reference_read", {"statement"}, roles)
  BY DEF Registration
<1>. HIDE DEF c
<1>3. /\ Outside({"policies"}, c, o)
      /\ o.policies = {Turned(p, "reference_read", {"statement"}, roles) : p \in c.policies}
  BY <1>1, <1>2, AddressedFields DEF Outside
<1>4. Outside({"policies"}, i, o)
  BY <1>1, <1>3 DEF Outside
<1>5. o.policies = {Opened(p, roles) : p \in i.policies}
  <2>1. \A q : q \in o.policies <=> \E p \in i.policies : q = Opened(p, roles)
    BY <1>1, <1>3 DEF Opened
  <2>. QED  BY <2>1
<1>. QED  BY <1>4, <1>5

LEMMA OpenedTenant ==
  ASSUME NEW roles, NEW table \in DOMAIN TenantArms, NEW A, NEW B
  PROVE  Opened(Policy("tenant_rows", table, IF table \in RegistrationTables THEN A ELSE B,
                       Verb, TenantArms[table]), roles)
         = Policy("tenant_rows", table, IF table \in RegistrationTables THEN roles ELSE B,
                  Verb, TenantArms[table])
<1>1. CASE table \in RegistrationTables
  BY <1>1 DEF Opened, Turned, Policy
<1>2. CASE table \notin RegistrationTables
  BY <1>2 DEF Opened, Turned, Policy
<1>. QED  BY <1>1, <1>2

LEMMA OpenedReference ==
  ASSUME NEW A, NEW roles
  PROVE  Opened(ReferenceRead(A), roles) = ReferenceRead(roles)
BY DEF Opened, Turned, Policy, ReferenceRead

LEMMA OpenedOther ==
  ASSUME NEW p, p.name \notin {"tenant_rows", "reference_read"} \/ p.on \notin RegistrationTables \cup {"statement"},
         NEW roles
  PROVE  Opened(p, roles) = p
BY DEF Opened, Turned

LEMMA OpenedRows ==
  ASSUME NEW A, NEW roles
  PROVE  {Opened(p, roles) : p \in RowPolicies(A)} = RowPolicies(roles)
<1>. DEFINE Row(table, opened) ==
              Policy("tenant_rows", table, IF table \in RegistrationTables THEN opened ELSE {"nc3_app"},
                     Verb, TenantArms[table])
<1>0. /\ \A opened : TenantRows(opened) = {Row(table, opened) : table \in DOMAIN TenantArms}
      /\ \A table \in DOMAIN TenantArms : Opened(Row(table, A), roles) = Row(table, roles)
  BY OpenedTenant DEF TenantRows
<1>. HIDE DEF Row
<1>1. \A p \in TenantRows(A) : Opened(p, roles) \in TenantRows(roles)
  BY <1>0
<1>2. \A q \in TenantRows(roles) : \E p \in TenantRows(A) : q = Opened(p, roles)
  BY <1>0
<1>3. \A p \in AuditAppends \cup DutyPolicies : Opened(p, roles) = p
  BY OtherParts, OpenedOther
<1>. QED  BY <1>1, <1>2, <1>3, OpenedReference DEF RowPolicies

LEMMA OpenedAuth ==
  ASSUME NEW p \in AuthPolicies, NEW roles
  PROVE  Opened(p, roles) = p
<1>1. p.name \notin {"tenant_rows", "reference_read"} \/ p.on \notin RegistrationTables \cup {"statement"}
  BY AuthParts DEF AuthNames, RegistrationTables
<1>. QED  BY <1>1, OpenedOther

LEMMA RowPoliciesOn ==
  ASSUME NEW A, NEW p \in RowPolicies(A)
  PROVE  p.on \in RowTables /\ p.name # "definer_lookup"
<1>1. CASE p \in TenantRows(A)
  BY <1>1, TenantRowsParts
<1>2. CASE p = ReferenceRead(A)
  BY <1>2, PolicyParts DEF ReferenceRead, RowTables
<1>3. CASE p \in AuditAppends \cup DutyPolicies
  BY <1>3, OtherParts DEF RowTables
<1>. QED  BY <1>1, <1>2, <1>3 DEF RowPolicies

LEMMA AuthUpRound == AuthUp(Stage(4)) = Stage(5)
<1>. DEFINE i == Stage(4)
            c == Created(i, AuthTables)
            s == Secured(c, Names(AuthTables))
            r == Registration(s, RegistrationRoles)
            o == AuthUp(i)
<1>1. /\ Outside({"tables", "keys"}, i, c)
      /\ c.tables = i.tables \cup AuthNames /\ c.keys = i.keys \cup Keys(AuthTables)
  BY StageImage, CreatedFields, LaterNames
<1>2. /\ Outside({"enabled", "forced"}, c, s)
      /\ s.enabled = c.enabled \cup AuthNames /\ s.forced = c.forced \cup AuthNames
  BY <1>1, SecuredFields, LaterNames DEF Outside
<1>3. /\ Outside({"policies"}, s, r)
      /\ r.policies = {Opened(p, RegistrationRoles) : p \in s.policies}
  BY <1>2, RegistrationFields DEF Outside
<1>4. o = [r EXCEPT !.added = @ \cup {EmailIndex},
                    !.usage = @ \cup {"nc3_auth", "nc3_auth_definer"},
                    !.grants = @ \cup AuthGrants,
                    !.policies = @ \cup AuthPolicies,
                    !.execute = @ \cup Lookups]
  BY DEF AuthUp
<1>. HIDE DEF i, c, s, r, o
<1>5. /\ Outside({"added", "usage", "grants", "policies", "execute"}, r, o)
      /\ o.added = r.added \cup {EmailIndex}
      /\ o.usage = r.usage \cup {"nc3_auth", "nc3_auth_definer"}
      /\ o.grants = r.grants \cup AuthGrants /\ o.policies = r.policies \cup AuthPolicies
      /\ o.execute = r.execute \cup Lookups
  BY <1>3, <1>4 DEF Outside, IsImage
<1>6. c.tables = RowTables \cup AuthNames /\ c.keys = Keys(InitialTables) \cup Keys(AuthTables)
  BY <1>1, Stage4 DEF i
<1>7. s.enabled = RowTables \cup AuthNames /\ s.forced = RowTables \cup AuthNames
  BY <1>1, <1>2, Stage4 DEF i, Outside
<1>8. r.policies = RowPolicies(RegistrationRoles)
  <2>1. s.policies = RowPolicies({"nc3_app"})
    BY <1>1, <1>2, Stage4 DEF i, Outside
  <2>. QED  BY <1>3, <2>1, OpenedRows
<1>9. r.tables = c.tables /\ r.keys = c.keys /\ r.enabled = s.enabled /\ r.forced = s.forced
  BY <1>2, <1>3 DEF Outside
<1>10. /\ r.enums = i.enums /\ r.usage = i.usage /\ r.grants = i.grants /\ r.execute = i.execute
       /\ r.added = i.added /\ r.texts = i.texts
  BY <1>1, <1>2, <1>3 DEF Outside
<1>11. o.added = RowChecks \cup {EmailIndex}
  BY <1>5, <1>10, Stage4 DEF i
<1>12. o.usage = {"nc3_app", "app_platform", "nc3_auth", "nc3_auth_definer"}
  BY <1>5, <1>10, Stage4 DEF i
<1>13. o.grants = AppGrants \cup PlatformGrants \cup AuthGrants
  BY <1>5, <1>10, Stage4 DEF i
<1>14. o.policies = RowPolicies(RegistrationRoles) \cup AuthPolicies
  BY <1>5, <1>8
<1>15. o.execute = Lookups
  BY <1>5, <1>10, Stage4 DEF i
<1>16. /\ o.tables = r.tables /\ o.keys = r.keys /\ o.enabled = r.enabled /\ o.forced = r.forced
       /\ o.enums = r.enums /\ o.texts = r.texts /\ IsImage(o)
  BY <1>5 DEF Outside
<1>17. Outside({}, Stage(5), o)
  <2>1. o.enums = InitialEnums /\ o.texts = {}
    BY <1>10, <1>16, Stage4 DEF i
  <2>. QED  BY <2>1, <1>6, <1>7, <1>9, <1>11, <1>12, <1>13, <1>14, <1>15, <1>16, Stage5 DEF Outside
<1>. QED  BY <1>17, StageImage, ImageEqual DEF o, i

LEMMA AuthDownRound == AuthDown(Stage(5)) = Stage(4)
<1>. DEFINE i == Stage(5)
            c == Registration(i, {"nc3_app"})
            a == Stripped(c, "nc3_auth")
            b == Stripped(a, "nc3_auth_definer")
            r == Dropped(b, Reversed(AuthTables))
            o == AuthDown(i)
<1>1. Names(Reversed(AuthTables)) = AuthNames
  BY LaterNames, TablesTyped, NamesReversed
<1>2. /\ Outside({"policies"}, i, c)
      /\ c.policies = {Opened(p, {"nc3_app"}) : p \in i.policies}
  BY StageImage, RegistrationFields
<1>3. /\ Outside({"grants", "usage"}, c, a)
      /\ a.grants = {grant \in c.grants : grant[1] # "nc3_auth"}
      /\ a.usage = c.usage \ {"nc3_auth"}
  BY <1>2, StrippedFields DEF Outside
<1>4. /\ Outside({"grants", "usage"}, a, b)
      /\ b.grants = {grant \in a.grants : grant[1] # "nc3_auth_definer"}
      /\ b.usage = a.usage \ {"nc3_auth_definer"}
  BY <1>3, StrippedFields DEF Outside
<1>5. /\ Outside({"tables", "keys", "enabled", "forced", "policies", "grants"}, b, r)
      /\ r.tables = b.tables \ AuthNames
      /\ r.keys = {key \in b.keys : key[1] \notin AuthNames}
      /\ r.enabled = b.enabled \ AuthNames /\ r.forced = b.forced \ AuthNames
      /\ r.policies = {policy \in b.policies : policy.on \notin AuthNames}
      /\ r.grants = {grant \in b.grants : grant[2] \notin AuthNames}
  BY <1>1, <1>4, DroppedFields DEF Outside
<1>6. o = [r EXCEPT
             !.execute = @ \ Lookups,
             !.policies = {policy \in @ : <<policy.name, policy.on>> # <<"definer_lookup", "app_user">>},
             !.added = @ \ {EmailIndex}]
  BY DEF AuthDown
<1>. HIDE DEF i, c, a, b, r, o
<1>7. /\ Outside({"execute", "policies", "added"}, r, o)
      /\ o.execute = r.execute \ Lookups
      /\ o.policies = {policy \in r.policies :
                         <<policy.name, policy.on>> # <<"definer_lookup", "app_user">>}
      /\ o.added = r.added \ {EmailIndex}
  BY <1>5, <1>6 DEF Outside, IsImage
<1>8. /\ b.tables = i.tables /\ b.keys = i.keys /\ b.enums = i.enums /\ b.enabled = i.enabled
      /\ b.forced = i.forced /\ b.policies = c.policies /\ b.execute = i.execute
      /\ b.added = i.added /\ b.texts = i.texts /\ c.grants = i.grants /\ c.usage = i.usage
  BY <1>2, <1>3, <1>4 DEF Outside
<1>9. /\ IsImage(o) /\ o.tables = r.tables /\ o.keys = r.keys /\ o.enums = b.enums
      /\ o.enabled = r.enabled /\ o.forced = r.forced /\ o.usage = b.usage
      /\ o.grants = r.grants /\ o.texts = b.texts /\ r.execute = b.execute /\ r.added = b.added
  BY <1>5, <1>7 DEF Outside
<1>10. o.tables = RowTables /\ o.enabled = RowTables /\ o.forced = RowTables
  <2>1. (RowTables \cup AuthNames) \ AuthNames = RowTables
    BY ApartNames
  <2>. QED  BY <1>5, <1>8, <1>9, <2>1, Stage5 DEF i
<1>11. o.keys = Keys(InitialTables)
  <2>1. o.keys = {key \in Keys(InitialTables) \cup Keys(AuthTables) : key[1] \notin AuthNames}
    BY <1>5, <1>8, <1>9, Stage5 DEF i
  <2>2. \A key \in Keys(InitialTables) : key[1] \in RowTables
    BY InitialNames, KeysOfNames
  <2>3. \A key \in Keys(AuthTables) : key[1] \in AuthNames
    BY LaterNames, KeysOfNames
  <2>. QED  BY <2>1, <2>2, <2>3, ApartNames
<1>12. o.grants = AppGrants \cup PlatformGrants
  <2>1. o.grants = {grant \in AppGrants \cup PlatformGrants \cup AuthGrants :
                      grant[1] \notin {"nc3_auth", "nc3_auth_definer"} /\ grant[2] \notin AuthNames}
    BY <1>3, <1>4, <1>5, <1>8, <1>9, Stage5 DEF i
  <2>. QED  BY <2>1, GrantRoles, ApartNames
<1>13. o.usage = {"nc3_app", "app_platform"}
  BY <1>3, <1>4, <1>8, <1>9, Stage5 DEF i
<1>14. o.policies = RowPolicies({"nc3_app"})
  <2>1. i.policies = RowPolicies(RegistrationRoles) \cup AuthPolicies
    BY Stage5 DEF i
  <2>2. c.policies = RowPolicies({"nc3_app"}) \cup AuthPolicies
    <3>1. {Opened(p, {"nc3_app"}) : p \in RowPolicies(RegistrationRoles)} = RowPolicies({"nc3_app"})
      BY OpenedRows
    <3>2. {Opened(p, {"nc3_app"}) : p \in AuthPolicies} = AuthPolicies
      BY OpenedAuth
    <3>. QED  BY <1>2, <2>1, <3>1, <3>2
  <2>3. \A p \in AuthPolicies : p.on \in AuthNames \/ <<p.name, p.on>> = <<"definer_lookup", "app_user">>
    BY AuthParts
  <2>4. \A p \in RowPolicies({"nc3_app"}) :
          p.on \notin AuthNames /\ <<p.name, p.on>> # <<"definer_lookup", "app_user">>
    BY RowPoliciesOn, ApartNames
  <2>. QED  BY <1>5, <1>7, <1>8, <2>2, <2>3, <2>4
<1>15. o.execute = {} /\ o.added = RowChecks
  <2>1. EmailIndex \notin RowChecks
    BY DEF EmailIndex, RowChecks
  <2>. QED  BY <1>7, <1>8, <1>9, <2>1, Stage5 DEF i
<1>16. Outside({}, Stage(4), o)
  <2>1. o.enums = InitialEnums /\ o.texts = {}
    BY <1>8, <1>9, Stage5 DEF i
  <2>. QED  BY <2>1, <1>9, <1>10, <1>11, <1>12, <1>13, <1>14, <1>15, Stage4 DEF Outside
<1>. QED  BY <1>16, StageImage, ImageEqual DEF o, i

LEMMA SeedRound == SeedUp(Stage(5)) = Stage(6) /\ SeedDown(Stage(6)) = Stage(5)
<1>1. SeedUp(Stage(5)) = Stage(6)
  <2>. DEFINE i == Stage(5)
              o == SeedUp(i)
  <2>1. o = [i EXCEPT !.texts = @ \cup SeedTexts]
    BY DEF SeedUp
  <2>. HIDE DEF i, o
  <2>2. Outside({"texts"}, i, o) /\ o.texts = i.texts \cup SeedTexts
    BY <2>1, StageImage DEF Outside, IsImage, i
  <2>3. o.texts = SeedTexts
    BY <2>2, Stage5 DEF i
  <2>4. Outside({}, Stage(6), o)
    BY <2>2, <2>3, Stage5, Stage6 DEF Outside, i
  <2>. QED  BY <2>4, StageImage, ImageEqual DEF o, i
<1>2. SeedDown(Stage(6)) = Stage(5)
  <2>. DEFINE i == Stage(6)
              o == SeedDown(i)
  <2>1. o = [i EXCEPT !.texts = @ \ Keyed(i, {Terms, Attestation})]
    BY DEF SeedDown
  <2>. HIDE DEF i, o
  <2>2. Outside({"texts"}, i, o) /\ o.texts = i.texts \ Keyed(i, {Terms, Attestation})
    BY <2>1, StageImage DEF Outside, IsImage, i
  <2>3. o.texts = {}
    <3>1. i.texts = SeedTexts
      BY Stage6 DEF i
    <3>2. \A text \in SeedTexts : text.key \in {Terms, Attestation}
      BY DEF SeedTexts, Text
    <3>. QED  BY <2>2, <3>1, <3>2 DEF Keyed
  <2>4. Outside({}, Stage(5), o)
    BY <2>2, <2>3, Stage5, Stage6 DEF Outside, i
  <2>. QED  BY <2>4, StageImage, ImageEqual DEF o, i
<1>. QED  BY <1>1, <1>2

LEMMA LegalRound == LegalUp(Stage(6)) = Stage(7) /\ LegalDown(Stage(7)) = Stage(6)
<1>1. LegalUp(Stage(6)) = Stage(7)
  <2>. DEFINE i == Stage(6)
              o == LegalUp(i)
  <2>1. o = [i EXCEPT !.texts = (@ \ Keyed(i, {Terms})) \cup LegalTexts]
    BY DEF LegalUp
  <2>. HIDE DEF i, o
  <2>2. Outside({"texts"}, i, o) /\ o.texts = (i.texts \ Keyed(i, {Terms})) \cup LegalTexts
    BY <2>1, StageImage DEF Outside, IsImage, i
  <2>3. o.texts = LegalTexts \cup {Text(Attestation, "2026-01-15")}
    <3>1. i.texts = SeedTexts
      BY Stage6 DEF i
    <3>2. SeedTexts \ Keyed(i, {Terms}) = {Text(Attestation, "2026-01-15")}
      BY <3>1 DEF SeedTexts, Text, Keyed, Terms, Attestation
    <3>. QED  BY <2>2, <3>1, <3>2
  <2>4. Outside({}, Stage(7), o)
    BY <2>2, <2>3, Stage6, Stage7 DEF Outside, i
  <2>. QED  BY <2>4, StageImage, ImageEqual DEF o, i
<1>2. LegalDown(Stage(7)) = Stage(6)
  <2>. DEFINE i == Stage(7)
              o == LegalDown(i)
  <2>1. o = [i EXCEPT !.texts = (@ \ Keyed(i, {Terms, Privacy})) \cup {Text(Terms, "2026-01-15")}]
    BY DEF LegalDown
  <2>. HIDE DEF i, o
  <2>2. /\ Outside({"texts"}, i, o)
        /\ o.texts = (i.texts \ Keyed(i, {Terms, Privacy})) \cup {Text(Terms, "2026-01-15")}
    BY <2>1, StageImage DEF Outside, IsImage, i
  <2>3. o.texts = SeedTexts
    <3>1. i.texts = LegalTexts \cup {Text(Attestation, "2026-01-15")}
      BY Stage7 DEF i
    <3>2. i.texts \ Keyed(i, {Terms, Privacy}) = {Text(Attestation, "2026-01-15")}
      BY <3>1 DEF LegalTexts, Text, Keyed, Terms, Privacy, Attestation
    <3>. QED  BY <2>2, <3>2 DEF SeedTexts
  <2>4. Outside({}, Stage(6), o)
    BY <2>2, <2>3, Stage6, Stage7 DEF Outside, i
  <2>. QED  BY <2>4, StageImage, ImageEqual DEF o, i
<1>. QED  BY <1>1, <1>2

LEMMA OwnRowsOn ==
  ASSUME NEW tables, NEW p \in OwnRows(tables)
  PROVE  p.on \in tables
<1>1. PICK table \in tables : p = Policy("tenant_rows", table, {"nc3_auth"}, Verb, {"user"})
  BY DEF OwnRows
<1>. QED  BY <1>1, PolicyParts

LEMMA MfaUpRound == MfaUp(Stage(7)) = Stage(8)
<1>. DEFINE i == Stage(7)
            c == Created(i, MfaTables)
            s == Secured(c, Names(MfaTables))
            o == MfaUp(i)
<1>1. /\ Outside({"tables", "keys"}, i, c)
      /\ c.tables = i.tables \cup MfaNames /\ c.keys = i.keys \cup Keys(MfaTables)
  BY StageImage, CreatedFields, LaterNames
<1>2. /\ Outside({"enabled", "forced"}, c, s)
      /\ s.enabled = c.enabled \cup MfaNames /\ s.forced = c.forced \cup MfaNames
  BY <1>1, SecuredFields, LaterNames DEF Outside
<1>3. o = [s EXCEPT !.added = @ \cup {AssuranceColumn}, !.grants = @ \cup MfaGrants,
                    !.policies = @ \cup OwnRows(MfaNames)]
  BY LaterNames DEF MfaUp, MfaGrants
<1>. HIDE DEF i, c, s, o
<1>4. /\ Outside({"added", "grants", "policies"}, s, o)
      /\ o.added = s.added \cup {AssuranceColumn} /\ o.grants = s.grants \cup MfaGrants
      /\ o.policies = s.policies \cup OwnRows(MfaNames)
  BY <1>2, <1>3 DEF Outside, IsImage
<1>5. /\ s.tables = c.tables /\ s.keys = c.keys /\ s.enums = i.enums /\ s.usage = i.usage
      /\ s.grants = i.grants /\ s.policies = i.policies /\ s.execute = i.execute
      /\ s.added = i.added /\ s.texts = i.texts /\ c.enabled = i.enabled /\ c.forced = i.forced
  BY <1>1, <1>2 DEF Outside
<1>6. /\ IsImage(o) /\ o.tables = s.tables /\ o.keys = s.keys /\ o.enums = s.enums
      /\ o.enabled = s.enabled /\ o.forced = s.forced /\ o.usage = s.usage
      /\ o.execute = s.execute /\ o.texts = s.texts
  BY <1>4 DEF Outside
<1>7. /\ o.tables = RowTables \cup AuthNames \cup MfaNames
      /\ o.enabled = RowTables \cup AuthNames \cup MfaNames
      /\ o.forced = RowTables \cup AuthNames \cup MfaNames
  BY <1>1, <1>2, <1>5, <1>6, Stage7 DEF i
<1>8. o.keys = Keys(InitialTables) \cup Keys(AuthTables) \cup Keys(MfaTables)
  BY <1>1, <1>5, <1>6, Stage7 DEF i
<1>9. o.added = RowChecks \cup {EmailIndex, AssuranceColumn}
  BY <1>4, <1>5, Stage7 DEF i
<1>10. o.grants = AppGrants \cup PlatformGrants \cup AuthGrants \cup MfaGrants
  BY <1>4, <1>5, Stage7 DEF i
<1>11. o.policies = RowPolicies(RegistrationRoles) \cup AuthPolicies \cup OwnRows(MfaNames)
  BY <1>4, <1>5, Stage7 DEF i
<1>12. Outside({}, Stage(8), o)
  BY <1>5, <1>6, <1>7, <1>8, <1>9, <1>10, <1>11, Stage7, Stage8 DEF Outside, i
<1>. QED  BY <1>12, StageImage, ImageEqual DEF o, i

LEMMA MfaDownRound == MfaDown(Stage(8)) = Stage(7)
<1>. DEFINE i == Stage(8)
            r == Dropped(i, Reversed(MfaTables))
            o == MfaDown(i)
<1>1. Names(Reversed(MfaTables)) = MfaNames
  BY LaterNames, TablesTyped, NamesReversed
<1>2. /\ Outside({"tables", "keys", "enabled", "forced", "policies", "grants"}, i, r)
      /\ r.tables = i.tables \ MfaNames
      /\ r.keys = {key \in i.keys : key[1] \notin MfaNames}
      /\ r.enabled = i.enabled \ MfaNames /\ r.forced = i.forced \ MfaNames
      /\ r.policies = {policy \in i.policies : policy.on \notin MfaNames}
      /\ r.grants = {grant \in i.grants : grant[2] \notin MfaNames}
  BY StageImage, <1>1, DroppedFields
<1>3. o = [r EXCEPT !.added = @ \ {AssuranceColumn}]
  BY DEF MfaDown
<1>. HIDE DEF i, r, o
<1>4. Outside({"added"}, r, o) /\ o.added = r.added \ {AssuranceColumn}
  BY <1>2, <1>3 DEF Outside, IsImage
<1>5. /\ IsImage(o) /\ o.tables = r.tables /\ o.keys = r.keys /\ o.enums = i.enums
      /\ o.enabled = r.enabled /\ o.forced = r.forced /\ o.policies = r.policies
      /\ o.usage = i.usage /\ o.grants = r.grants /\ o.execute = i.execute
      /\ o.texts = i.texts /\ r.added = i.added
  BY <1>2, <1>4 DEF Outside
<1>6. /\ o.tables = RowTables \cup AuthNames /\ o.enabled = RowTables \cup AuthNames
      /\ o.forced = RowTables \cup AuthNames
  <2>1. (RowTables \cup AuthNames \cup MfaNames) \ MfaNames = RowTables \cup AuthNames
    BY ApartNames
  <2>. QED  BY <1>2, <1>5, <2>1, Stage8 DEF i
<1>7. o.keys = Keys(InitialTables) \cup Keys(AuthTables)
  <2>1. o.keys = {key \in Keys(InitialTables) \cup Keys(AuthTables) \cup Keys(MfaTables) :
                    key[1] \notin MfaNames}
    BY <1>2, <1>5, Stage8 DEF i
  <2>2. \A key \in Keys(InitialTables) \cup Keys(AuthTables) : key[1] \in RowTables \cup AuthNames
    BY InitialNames, LaterNames, KeysOfNames
  <2>3. \A key \in Keys(MfaTables) : key[1] \in MfaNames
    BY LaterNames, KeysOfNames
  <2>. QED  BY <2>1, <2>2, <2>3, ApartNames
<1>8. o.grants = AppGrants \cup PlatformGrants \cup AuthGrants
  <2>1. o.grants = {grant \in AppGrants \cup PlatformGrants \cup AuthGrants \cup MfaGrants :
                      grant[2] \notin MfaNames}
    BY <1>2, <1>5, Stage8 DEF i
  <2>. QED  BY <2>1, GrantRoles, ApartNames
<1>9. o.policies = RowPolicies(RegistrationRoles) \cup AuthPolicies
  <2>1. o.policies = {p \in RowPolicies(RegistrationRoles) \cup AuthPolicies \cup OwnRows(MfaNames) :
                        p.on \notin MfaNames}
    BY <1>2, <1>5, Stage8 DEF i
  <2>2. \A p \in RowPolicies(RegistrationRoles) \cup AuthPolicies : p.on \notin MfaNames
    <3>1. "app_user" \in RowTables
      BY DEF RowTables
    <3>. QED  BY <3>1, RowPoliciesOn, AuthParts, ApartNames
  <2>. QED  BY <2>1, <2>2, OwnRowsOn
<1>10. o.added = RowChecks \cup {EmailIndex}
  <2>1. AssuranceColumn \notin RowChecks \cup {EmailIndex}
    BY DEF AssuranceColumn, RowChecks, EmailIndex
  <2>. QED  BY <1>4, <1>5, <2>1, Stage8 DEF i
<1>11. Outside({}, Stage(7), o)
  BY <1>5, <1>6, <1>7, <1>8, <1>9, <1>10, Stage7, Stage8 DEF Outside, i
<1>. QED  BY <1>11, StageImage, ImageEqual DEF o, i

LEMMA ProofRound == ProofUp(Stage(8)) = Stage(9) /\ ProofDown(Stage(9)) = Stage(8)
<1>. DEFINE new == ProofParts \cup {ProofTarget, ProofKey}
            key == <<"domain_verification", "app_user">>
<1>1. ProofUp(Stage(8)) = Stage(9)
  <2>. DEFINE i == Stage(8)
              o == ProofUp(i)
  <2>1. o = [i EXCEPT !.added = @ \cup new, !.keys = @ \cup {key}]
    BY DEF ProofUp
  <2>. HIDE DEF i, o, new, key
  <2>2. IsImage(i)
    BY StageImage DEF i
  <2>3. Outside({"added", "keys"}, i, o) /\ o.added = i.added \cup new /\ o.keys = i.keys \cup {key}
    BY <2>1, <2>2 DEF Outside, IsImage
  <2>4. o.added = RowChecks \cup {EmailIndex, AssuranceColumn} \cup ProofParts \cup {ProofTarget, ProofKey}
    BY <2>3, Stage8 DEF i, new
  <2>5. o.keys = Keys(InitialTables) \cup Keys(AuthTables) \cup Keys(MfaTables)
                   \cup {<<"domain_verification", "app_user">>}
    BY <2>3, Stage8 DEF i, key
  <2>6. Outside({}, Stage(9), o)
    BY <2>3, <2>4, <2>5, Stage8, Stage9 DEF Outside, i
  <2>. QED  BY <2>6, StageImage, ImageEqual DEF o, i
<1>2. ProofDown(Stage(9)) = Stage(8)
  <2>. DEFINE i == Stage(9)
              o == ProofDown(i)
  <2>1. o = [i EXCEPT !.added = @ \ new, !.keys = @ \ {key}]
    BY DEF ProofDown
  <2>. HIDE DEF i, o, new, key
  <2>2. IsImage(i)
    BY StageImage DEF i
  <2>3. Outside({"added", "keys"}, i, o) /\ o.added = i.added \ new /\ o.keys = i.keys \ {key}
    BY <2>1, <2>2 DEF Outside, IsImage
  <2>4. o.added = RowChecks \cup {EmailIndex, AssuranceColumn}
    <3>1. \A x \in RowChecks \cup {EmailIndex, AssuranceColumn} : x \notin new
      BY DEF RowChecks, EmailIndex, AssuranceColumn, ProofParts, ProofTarget, ProofKey, new
    <3>. QED  BY <2>3, <3>1, Stage9 DEF i, new
  <2>5. o.keys = Keys(InitialTables) \cup Keys(AuthTables) \cup Keys(MfaTables)
    BY <2>3, Stage9, KeyAbsent DEF i, key
  <2>6. Outside({}, Stage(8), o)
    BY <2>3, <2>4, <2>5, Stage8, Stage9 DEF Outside, i
  <2>. QED  BY <2>6, StageImage, ImageEqual DEF o, i
<1>. QED  BY <1>1, <1>2

(* Every revision is as its closed form says, and every downgrade of one     *)
(* takes back exactly what its upgrade did.                                  *)
LEMMA StagesStep ==
  ASSUME NEW n \in 1 .. 9
  PROVE  Upgraded(n, Stage(n - 1)) = Stage(n) /\ Downgraded(n, Stage(n)) = Stage(n - 1)
<1>1. CASE n = 1  BY <1>1, InitialRound DEF Upgraded, Downgraded
<1>2. CASE n = 2  BY <1>2, ChecksRound DEF Upgraded, Downgraded
<1>3. CASE n = 3  BY <1>3, AppRound DEF Upgraded, Downgraded
<1>4. CASE n = 4  BY <1>4, PoliciesRound DEF Upgraded, Downgraded
<1>5. CASE n = 5  BY <1>5, AuthUpRound, AuthDownRound DEF Upgraded, Downgraded
<1>6. CASE n = 6  BY <1>6, SeedRound DEF Upgraded, Downgraded
<1>7. CASE n = 7  BY <1>7, LegalRound DEF Upgraded, Downgraded
<1>8. CASE n = 8  BY <1>8, MfaUpRound, MfaDownRound DEF Upgraded, Downgraded
<1>9. CASE n = 9  BY <1>9, ProofRound DEF Upgraded, Downgraded
<1>. QED  BY <1>1, <1>2, <1>3, <1>4, <1>5, <1>6, <1>7, <1>8, <1>9

LEMMA ReferenceStages == \A n \in 0 .. 9 : Reference[n] = Stage(n)
<1>. DEFINE F(g) == [n \in 0 .. Revisions |-> IF n = 0 THEN Blank ELSE Upgraded(n, g[n - 1])]
            w == [n \in 0 .. Revisions |-> Stage(n)]
<1>1. w = F(w)
  <2>1. \A n \in 0 .. 9 : n # 0 => n - 1 \in 0 .. 9 /\ n \in 1 .. 9
    OBVIOUS
  <2>2. \A n \in 0 .. 9 : Stage(n) = IF n = 0 THEN Blank ELSE Upgraded(n, w[n - 1])
    BY <2>1, StageBlank, StagesStep DEF Revisions
  <2>. QED  BY <2>2 DEF Revisions
<1>2. Reference = CHOOSE g : g = F(g)
  BY DEF Reference
<1>3. Reference = F(Reference)
  BY <1>1, <1>2
<1>4. /\ Reference[0] = Blank
      /\ \A n \in 1 .. 9 : Reference[n] = Upgraded(n, Reference[n - 1])
  BY <1>3 DEF Revisions
<1>5. Reference[0] = Stage(0) /\ Reference[1] = Stage(1)
  BY <1>4, StageBlank, StagesStep
<1>6. Reference[2] = Stage(2) /\ Reference[3] = Stage(3)
  BY <1>4, <1>5, StagesStep
<1>7. Reference[4] = Stage(4) /\ Reference[5] = Stage(5)
  BY <1>4, <1>6, StagesStep
<1>8. Reference[6] = Stage(6) /\ Reference[7] = Stage(7)
  BY <1>4, <1>7, StagesStep
<1>9. Reference[8] = Stage(8) /\ Reference[9] = Stage(9)
  BY <1>4, <1>8, StagesStep
<1>. QED  BY <1>5, <1>6, <1>7, <1>8, <1>9

-----------------------------------------------------------------------------
(* What the commands keep.                                                  *)

(* A command stands at a revision and holds its image.                      *)
IsCommand(w) ==
  /\ w = [at |-> w.at, to |-> w.to, image |-> w.image, public |-> w.public,
          roles |-> w.roles, waits |-> w.waits]
  /\ w.at \in 0 .. 9 /\ w.to \in 0 .. 9 /\ w.image = Stage(w.at)

Versioned ==
  /\ revision \in [Database -> 0 .. 9]
  /\ image = [d \in Database |-> Stage(revision[d])]
  /\ work = [d \in Database |-> work[d]]
  /\ \A d \in Database : Running(d) => IsCommand(work[d])

(* PUBLIC holds nothing in a command's database that it does not hold now.  *)
PublicHeld ==
  /\ public = [d \in Database |-> public[d]]
  /\ \A d \in Database : Running(d) => work[d].public \subseteq public[d]

(* Which roles the databases need, and what the commands do to them: no two *)
(* commands hold one role, a role that is being dropped is needed nowhere,  *)
(* and a role that a committed revision uses is hardened.                   *)
RolesTyped ==
  /\ role \in [Role -> {"absent", "lax", "hardened"}]
  /\ \A d \in Database : Running(d) =>
       /\ Touched(d) \subseteq Role
       /\ \A r \in Touched(d) : work[d].roles[r] \in {"hardened", "absent"}

Hardened ==
  \A d \in Database : \A r \in UsageAt(revision[d]) : role[r] = "hardened"

Needed(d) ==
  \A r \in UsageAt(work[d].at) :
    \/ r \in Touched(d) /\ work[d].roles[r] = "hardened"
    \/ r \notin Touched(d) /\ r \in UsageAt(revision[d])

Exclusive(d) == \A e \in Database \ {d} : Touched(d) \cap Touched(e) = {}

Dropping(d) ==
  \A r \in Touched(d) : work[d].roles[r] = "absent" =>
    \A e \in Database \ {d} : r \notin UsageAt(revision[e])

RolesHeld ==
  /\ RolesTyped /\ Hardened
  /\ \A d \in Database : Running(d) => Needed(d) /\ Exclusive(d) /\ Dropping(d)

MigrInv == Versioned /\ PublicHeld /\ RolesHeld

(* A command that stays what it is, or that has ended.                      *)
Same(w, w1) ==
  /\ w1 # NoCommand /\ IsCommand(w1)
  /\ w1.at = w.at /\ w1.to = w.to /\ w1.image = w.image /\ w1.public = w.public
  /\ w1.roles = w.roles

Kept(d) == work'[d] = NoCommand \/ (Running(d) /\ Same(work[d], work'[d]))

Shaped == work' = [d \in Database |-> work'[d]]

LEMMA CommandNotIdle ==
  ASSUME NEW w, IsCommand(w)
  PROVE  w # NoCommand
BY DEF IsCommand, NoCommand

LEMMA WaitsOnly ==
  ASSUME NEW w, IsCommand(w), NEW x, NEW w1, w1 = [w EXCEPT !.waits = x]
  PROVE  Same(w, w1)
<1>1. IsCommand(w1) /\ w1.at = w.at /\ w1.to = w.to /\ w1.image = w.image /\ w1.public = w.public
      /\ w1.roles = w.roles
  BY DEF IsCommand
<1>. QED  BY <1>1, CommandNotIdle DEF Same

LEMMA UnchangedKept ==
  ASSUME Versioned, NEW d \in Database, work'[d] = work[d]
  PROVE  Kept(d)
BY DEF Versioned, Kept, Same, Running

LEMMA AbortedKept ==
  ASSUME Versioned, NEW d \in Database, Aborted(d)
  PROVE  Shaped /\ work'[d] = NoCommand /\ \A e \in Database : Kept(e)
<1>1. Shaped /\ work'[d] = NoCommand
  BY DEF Aborted, Shaped
<1>2. ASSUME NEW e \in Database, e # d
      PROVE  Kept(e)
  <2>1. CASE Running(e)
    <3>1. work'[e] = [work[e] EXCEPT !.waits = @ \ {d}]
      BY <1>2, <2>1 DEF Aborted
    <3>2. IsCommand(work[e])
      BY <2>1 DEF Versioned
    <3>. QED  BY <2>1, <3>1, <3>2, WaitsOnly DEF Kept
  <2>2. CASE ~Running(e)
    BY <1>2, <2>2 DEF Aborted, Kept
  <2>. QED  BY <2>1, <2>2
<1>. QED  BY <1>1, <1>2 DEF Kept

(* What a command does when its next revision goes through.                 *)
Advanced(d, n, image1, roles1) ==
  /\ IsCommand(work'[d])
  /\ work'[d].at = n /\ work'[d].image = image1 /\ work'[d].roles = roles1
  /\ work'[d].public \subseteq work[d].public
  /\ \A e \in Database \ {d} : work'[e] = work[e]

LEMMA StepUpEffect ==
  ASSUME Versioned, NEW d \in Database, StepUp(d)
  PROVE  /\ UNCHANGED <<revision, image, public, receipts, unfit, role, member>>
         /\ Running(d) /\ Up(d) /\ Ahead(d) = {} /\ Due(d) = work[d].at + 1 /\ Due(d) \in 1 .. 9
         /\ Shaped
         /\ \/ /\ MembershipGate(d) \/ UpgradeRefused(Due(d), Stage(work[d].at), work[d].public, unfit[d])
               /\ work'[d] = NoCommand /\ \A e \in Database : Kept(e)
            \/ Advanced(d, Due(d), Stage(Due(d)), RolesCreated(d)) /\ work'[d] # NoCommand
<1>1. Running(d) /\ Up(d) /\ Ahead(d) = {} /\ UNCHANGED <<revision, image, public, receipts, unfit, role, member>>
  BY DEF StepUp
<1>2. IsCommand(work[d])
  BY <1>1 DEF Versioned
<1>3. Due(d) = work[d].at + 1 /\ Due(d) \in 1 .. 9
  BY <1>1, <1>2 DEF Up, Due, IsCommand
<1>4. work[d].image = Stage(work[d].at)
  BY <1>2 DEF IsCommand
<1>5. Upgraded(Due(d), work[d].image) = Stage(Due(d))
  <2>1. Due(d) - 1 = work[d].at
    BY <1>2, <1>3 DEF IsCommand
  <2>. QED  BY <1>3, <1>4, <2>1, StagesStep
<1>6. CASE Aborted(d) /\ (MembershipGate(d) \/ UpgradeRefused(Due(d), work[d].image, work[d].public, unfit[d]))
  BY <1>1, <1>3, <1>4, <1>6, AbortedKept
<1>7. CASE Moved(d, Upgraded(Due(d), work[d].image), RolesCreated(d))
  <2>. DEFINE w == work[d]
              w1 == work'[d]
              i1 == Stage(Due(d))
              r1 == RolesCreated(d)
              n == Due(d)
  <2>1. work' = [work EXCEPT ![d] = [w EXCEPT !.at = n, !.image = i1, !.public = Fits(i1, @),
                                              !.waits = {}, !.roles = r1]]
    BY <1>1, <1>5, <1>7 DEF Moved
  <2>2. w1 = [w EXCEPT !.at = n, !.image = i1, !.public = Fits(i1, @), !.waits = {}, !.roles = r1]
    BY <2>1 DEF Versioned
  <2>3. Shaped /\ \A e \in Database \ {d} : work'[e] = work[e]
    BY <2>1 DEF Versioned, Shaped
  <2>4. i1 = Stage(n) /\ n \in 0 .. 9
    BY <1>3
  <2>. HIDE DEF i1, r1, n
  <2>5. Fits(i1, w.public) \subseteq w.public
    BY DEF Fits
  <2>6. /\ w1.at = n /\ w1.image = i1 /\ w1.roles = r1 /\ w1.public = Fits(i1, w.public)
        /\ w1.to = w.to
        /\ w1 = [at |-> w1.at, to |-> w1.to, image |-> w1.image, public |-> w1.public,
                 roles |-> w1.roles, waits |-> w1.waits]
    BY <1>2, <2>2 DEF IsCommand
  <2>7. IsCommand(w1)
    BY <1>2, <2>4, <2>6 DEF IsCommand
  <2>. QED  BY <1>1, <1>3, <2>3, <2>5, <2>6, <2>7, CommandNotIdle DEF Advanced, i1, r1, n
<1>. QED  BY <1>1, <1>6, <1>7 DEF StepUp

LEMMA StepDownEffect ==
  ASSUME Versioned, NEW d \in Database, StepDown(d)
  PROVE  /\ UNCHANGED <<revision, image, public, receipts, unfit, role, member>>
         /\ Running(d) /\ ~Up(d) /\ Ahead(d) = {} /\ Due(d) = work[d].at /\ Due(d) \in 1 .. 9
         /\ Shaped
         /\ \/ /\ \/ DowngradeRefused(Due(d), Stage(work[d].at), receipts[d])
                  \/ RoleNeeded(d, Stage(Due(d) - 1))
               /\ work'[d] = NoCommand /\ \A e \in Database : Kept(e)
            \/ /\ ~RoleNeeded(d, Stage(Due(d) - 1))
               /\ Advanced(d, Due(d) - 1, Stage(Due(d) - 1), RolesDropped(d)) /\ work'[d] # NoCommand
<1>1. Running(d) /\ work[d].at > work[d].to /\ Ahead(d) = {}
      /\ UNCHANGED <<revision, image, public, receipts, unfit, role, member>>
  BY DEF StepDown
<1>2. IsCommand(work[d])
  BY <1>1 DEF Versioned
<1>3. ~Up(d) /\ Due(d) = work[d].at /\ Due(d) \in 1 .. 9
  BY <1>1, <1>2 DEF Up, Due, IsCommand
<1>4. work[d].image = Stage(work[d].at)
  BY <1>2 DEF IsCommand
<1>5. Downgraded(Due(d), work[d].image) = Stage(Due(d) - 1)
  BY <1>3, <1>4, StagesStep
<1>6. CASE /\ Aborted(d)
           /\ \/ DowngradeRefused(Due(d), work[d].image, receipts[d])
              \/ RoleNeeded(d, Downgraded(Due(d), work[d].image))
  BY <1>1, <1>3, <1>4, <1>5, <1>6, AbortedKept
<1>7. CASE /\ ~RoleNeeded(d, Downgraded(Due(d), work[d].image))
           /\ Moved(d, Downgraded(Due(d), work[d].image), RolesDropped(d))
  <2>. DEFINE w == work[d]
              w1 == work'[d]
              n == Due(d) - 1
              i1 == Stage(n)
              r1 == RolesDropped(d)
  <2>1. work' = [work EXCEPT ![d] = [w EXCEPT !.at = n, !.image = i1, !.public = Fits(i1, @),
                                              !.waits = {}, !.roles = r1]]
    BY <1>3, <1>5, <1>7 DEF Moved
  <2>2. w1 = [w EXCEPT !.at = n, !.image = i1, !.public = Fits(i1, @), !.waits = {}, !.roles = r1]
    BY <2>1 DEF Versioned
  <2>3. Shaped /\ \A e \in Database \ {d} : work'[e] = work[e]
    BY <2>1 DEF Versioned, Shaped
  <2>4. i1 = Stage(n) /\ n \in 0 .. 9
    BY <1>3
  <2>. HIDE DEF i1, r1, n
  <2>5. Fits(i1, w.public) \subseteq w.public
    BY DEF Fits
  <2>6. /\ w1.at = n /\ w1.image = i1 /\ w1.roles = r1 /\ w1.public = Fits(i1, w.public)
        /\ w1.to = w.to
        /\ w1 = [at |-> w1.at, to |-> w1.to, image |-> w1.image, public |-> w1.public,
                 roles |-> w1.roles, waits |-> w1.waits]
    BY <1>2, <2>2 DEF IsCommand
  <2>7. IsCommand(w1)
    BY <1>2, <2>4, <2>6 DEF IsCommand
  <2>. QED  BY <1>1, <1>3, <1>5, <1>7, <2>3, <2>5, <2>6, <2>7, CommandNotIdle DEF Advanced, i1, r1, n
<1>. QED  BY <1>1, <1>6, <1>7 DEF StepDown

(* The steps that change no revision, image or role, and no command beyond   *)
(* what it waits for or its end.                                             *)
Quiet ==
  /\ Shaped /\ UNCHANGED <<revision, image, role>>
  /\ \A e \in Database : Kept(e)
  /\ public' = [e \in Database |-> public'[e]]
  /\ \A e \in Database : Running(e) => public'[e] = public[e]

LEMMA AbortedQuiet ==
  ASSUME Versioned, PublicHeld, NEW d \in Database, Aborted(d),
         UNCHANGED <<revision, image, public, receipts, unfit, role, member>>
  PROVE  Quiet
BY AbortedKept DEF Quiet, PublicHeld

LEMMA IdleQuiet ==
  ASSUME Versioned, UNCHANGED <<revision, image, role, work>>,
         public' = [e \in Database |-> public'[e]],
         \A e \in Database : Running(e) => public'[e] = public[e]
  PROVE  Quiet
BY UnchangedKept DEF Quiet, Shaped, Versioned

LEMMA WaitQuiet ==
  ASSUME Versioned, PublicHeld, NEW d \in Database, Wait(d)
  PROVE  Quiet
<1>1. work' = [work EXCEPT ![d].waits = Ahead(d)] /\ Running(d)
      /\ UNCHANGED <<revision, image, public, receipts, unfit, role, member>>
  BY DEF Wait
<1>2. work' = [work EXCEPT ![d] = [work[d] EXCEPT !.waits = Ahead(d)]]
  BY <1>1
<1>3. work'[d] = [work[d] EXCEPT !.waits = Ahead(d)] /\ \A e \in Database \ {d} : work'[e] = work[e]
  BY <1>2 DEF Versioned
<1>4. Kept(d)
  BY <1>1, <1>3, WaitsOnly DEF Kept, Versioned
<1>. QED  BY <1>1, <1>2, <1>3, <1>4, UnchangedKept DEF Quiet, Shaped, Versioned, PublicHeld

LEMMA AroundQuiet ==
  ASSUME Versioned, PublicHeld, NEW d \in Database,
         Register(d) \/ Offend(d) \/ Mend(d) \/ GrantPublic(d) \/ RevokePublic(d)
  PROVE  Quiet
<1>1. UNCHANGED <<revision, image, role, work>>
  BY DEF Register, Offend, Mend, GrantPublic, RevokePublic
<1>2. CASE Register(d) \/ Offend(d) \/ Mend(d)
  BY <1>1, <1>2, IdleQuiet DEF Register, Offend, Mend, PublicHeld
<1>3. CASE GrantPublic(d) \/ RevokePublic(d)
  <2>1. PICK x : public' = [public EXCEPT ![d] = x]
    BY <1>3 DEF GrantPublic, RevokePublic
  <2>2. ~Running(d)
    BY <1>3 DEF GrantPublic, RevokePublic
  <2>. QED  BY <1>1, <2>1, <2>2, IdleQuiet DEF PublicHeld
<1>. QED  BY <1>2, <1>3

LEMMA BeginEffect ==
  ASSUME Versioned, MigrationsAssumption, NEW d \in Database, NEW target \in Targets, BeginCommand(d, target)
  PROVE  /\ UNCHANGED <<revision, image, public, receipts, unfit, role, member>>
         /\ Shaped /\ ~Running(d) /\ \A e \in Database \ {d} : work'[e] = work[e]
         /\ IsCommand(work'[d]) /\ work'[d].at = revision[d] /\ work'[d].public = public[d]
         /\ work'[d].roles = <<>>
<1>. DEFINE w == [at |-> revision[d], to |-> target, image |-> image[d], public |-> public[d],
                  roles |-> <<>>, waits |-> {}]
<1>1. /\ UNCHANGED <<revision, image, public, receipts, unfit, role, member>> /\ ~Running(d)
      /\ work' = [work EXCEPT ![d] = w]
  BY DEF BeginCommand
<1>2. work'[d] = w /\ Shaped /\ \A e \in Database \ {d} : work'[e] = work[e]
  BY <1>1 DEF Versioned, Shaped
<1>3. revision[d] \in 0 .. 9 /\ image[d] = Stage(revision[d]) /\ target \in 0 .. 9
  BY DEF Versioned, MigrationsAssumption, Revisions
<1>4. IsCommand(w)
  BY <1>3 DEF IsCommand
<1>. QED  BY <1>1, <1>2, <1>4

LEMMA CommitEffect ==
  ASSUME Versioned, PublicHeld, NEW d \in Database, Commit(d)
  PROVE  /\ Running(d) /\ Shaped /\ work'[d] = NoCommand /\ \A e \in Database : Kept(e)
         /\ revision' = [revision EXCEPT ![d] = work[d].at]
         /\ image' = [image EXCEPT ![d] = Stage(work[d].at)]
         /\ public' = [public EXCEPT ![d] = work[d].public]
         /\ role' = [r \in Role |-> IF r \in Touched(d) THEN work[d].roles[r] ELSE role[r]]
<1>1. Running(d) /\ IsCommand(work[d])
  BY DEF Commit, Versioned
<1>2. \A e \in Database : work'[e] = NoCommand \/ work'[e] = work[e]
  BY DEF Commit
<1>3. \A e \in Database : Kept(e)
  BY <1>2, UnchangedKept DEF Kept
<1>. QED  BY <1>1, <1>3 DEF Commit, Shaped, IsCommand

(* Every step is quiet, begins a command, moves one by a revision, or commits one. *)
Steps ==
  \/ Quiet
  \/ \E d \in Database :
       \/ \E target \in Targets : BeginCommand(d, target)
       \/ StepUp(d) \/ StepDown(d) \/ Commit(d)

LEMMA NextSteps ==
  ASSUME Versioned, PublicHeld, [MigrationNext]_migrationVars
  PROVE  Steps
<1>1. CASE UNCHANGED migrationVars
  BY <1>1, IdleQuiet DEF migrationVars, Steps, PublicHeld
<1>2. CASE \E r \in Members : Join(r) \/ Leave(r)
  BY <1>2, IdleQuiet DEF Join, Leave, Steps, PublicHeld
<1>3. ASSUME NEW d \in Database, Deadlocked(d) \/ Die(d)
      PROVE  Steps
  BY <1>3, AbortedQuiet DEF Deadlocked, Die, Steps
<1>4. ASSUME NEW d \in Database,
             Wait(d) \/ Register(d) \/ Offend(d) \/ Mend(d) \/ GrantPublic(d) \/ RevokePublic(d)
      PROVE  Steps
  BY <1>4, WaitQuiet, AroundQuiet DEF Steps
<1>. QED  BY <1>1, <1>2, <1>3, <1>4 DEF MigrationNext, Steps

LEMMA UsageStep ==
  ASSUME NEW n \in 1 .. 9
  PROVE  /\ UsageAt(n) = UsageAt(n - 1) \cup RolesOf(n)
         /\ RolesOf(n) \cap UsageAt(n - 1) = {} /\ RolesOf(n) \subseteq Role
<1>1. CASE n \in {3, 4, 5}
  BY <1>1, UsageOf DEF RolesOf, Role
<1>2. CASE n \notin {3, 4, 5}
  <2>1. RolesOf(n) = {}
    BY <1>2 DEF RolesOf
  <2>2. UsageAt(n) = UsageAt(n - 1)
    BY <1>2, UsageOf
  <2>. QED  BY <2>1, <2>2
<1>. QED  BY <1>1, <1>2

LEMMA UsageRoles == \A n \in 0 .. 9 : UsageAt(n) \subseteq Role
BY UsageOf DEF Role

(* A database holds the image of its revision, a command that of its own.    *)
LEMMA VersionedStep ==
  ASSUME Versioned, PublicHeld, MigrationsAssumption, [MigrationNext]_migrationVars
  PROVE  Versioned' /\ PublicHeld'
<1>1. CASE Quiet
  <2>1. \A e \in Database : Running(e)' => Running(e) /\ Same(work[e], work'[e])
    BY <1>1 DEF Quiet, Kept, Running
  <2>2. \A e \in Database : Running(e)' => IsCommand(work'[e])
    BY <2>1 DEF Same
  <2>3. \A e \in Database : Running(e)' => work'[e].public \subseteq public'[e]
    BY <1>1, <2>1 DEF Quiet, Same, PublicHeld
  <2>. QED  BY <1>1, <2>2, <2>3 DEF Quiet, Shaped, Versioned, PublicHeld
<1>2. ASSUME NEW d \in Database, UNCHANGED <<revision, image, public>>, Shaped,
             \A e \in Database \ {d} : work'[e] = work[e],
             IsCommand(work'[d]), work'[d].public \subseteq public[d]
      PROVE  Versioned' /\ PublicHeld'
  <2>1. \A e \in Database : Running(e)' => IsCommand(work'[e]) /\ work'[e].public \subseteq public'[e]
    <3>1. ASSUME NEW e \in Database, e # d, Running(e)'
          PROVE  IsCommand(work'[e]) /\ work'[e].public \subseteq public'[e]
      <4>1. work'[e] = work[e] /\ Running(e)
        BY <1>2, <3>1 DEF Running
      <4>. QED  BY <1>2, <3>1, <4>1 DEF Versioned, PublicHeld
    <3>. QED  BY <1>2, <3>1
  <2>. QED  BY <1>2, <2>1 DEF Versioned, PublicHeld, Shaped
<1>3. ASSUME NEW d \in Database, NEW target \in Targets, BeginCommand(d, target)
      PROVE  Versioned' /\ PublicHeld'
  BY <1>2, <1>3, BeginEffect
<1>4. ASSUME NEW d \in Database, StepUp(d) \/ StepDown(d)
      PROVE  Versioned' /\ PublicHeld'
  <2>1. Running(d) /\ UNCHANGED <<revision, image, public, role>> /\ Shaped
    BY <1>4, StepUpEffect, StepDownEffect
  <2>2. CASE \A e \in Database : Kept(e)
    BY <1>1, <2>1, <2>2 DEF Quiet, PublicHeld
  <2>3. CASE \E n, i1, r1 : Advanced(d, n, i1, r1)
    <3>1. work[d].public \subseteq public[d]
      BY <2>1 DEF PublicHeld
    <3>. QED  BY <1>2, <2>1, <2>3, <3>1 DEF Advanced
  <2>. QED  BY <1>4, <2>2, <2>3, StepUpEffect, StepDownEffect
<1>5. ASSUME NEW d \in Database, Commit(d)
      PROVE  Versioned' /\ PublicHeld'
  <2>1. \A e \in Database : Running(e)' => e # d /\ Running(e) /\ Same(work[e], work'[e])
    BY <1>5, CommitEffect DEF Kept, Running
  <2>2. \A e \in Database : Running(e)' => IsCommand(work'[e])
    BY <2>1 DEF Same
  <2>3. public' = [public EXCEPT ![d] = work[d].public]
    BY <1>5, CommitEffect
  <2>4. \A e \in Database : Running(e)' => work'[e].public \subseteq public'[e]
    BY <2>1, <2>3 DEF Same, PublicHeld
  <2>5. work[d].at \in 0 .. 9
    BY <1>5, CommitEffect DEF Versioned, IsCommand
  <2>6. /\ revision' = [revision EXCEPT ![d] = work[d].at]
        /\ image' = [image EXCEPT ![d] = Stage(work[d].at)] /\ Shaped
    BY <1>5, CommitEffect
  <2>7. revision' \in [Database -> 0 .. 9] /\ image' = [e \in Database |-> Stage(revision'[e])]
    BY <2>5, <2>6 DEF Versioned
  <2>8. public' = [e \in Database |-> public'[e]]
    BY <2>3 DEF PublicHeld
  <2>. QED  BY <2>2, <2>4, <2>6, <2>7, <2>8 DEF Versioned, PublicHeld, Shaped
<1>. QED  BY <1>1, <1>3, <1>4, <1>5, NextSteps DEF Steps

LEMMA VersionedInit ==
  ASSUME MigrationInit
  PROVE  Versioned /\ PublicHeld
<1>1. \A d \in Database : ~Running(d)
  BY DEF MigrationInit, Running
<1>. QED  BY <1>1, StageBlank DEF MigrationInit, Versioned, PublicHeld

(* A database at a revision holds exactly what an empty one upgraded to it   *)
(* holds: no upgrade, downgrade, refusal or end of a process (alembic over   *)
(* migrations/versions) leaves anything behind or takes anything along.      *)
THEOREM RoundTripAlways == MigrationSpec => []RoundTrip
<1>1. MigrationInit => Versioned /\ PublicHeld
  BY VersionedInit
<1>2. Versioned /\ PublicHeld /\ [MigrationNext]_migrationVars => Versioned' /\ PublicHeld'
  BY VersionedStep, MigrationsAssumption
<1>3. Versioned => RoundTrip
  BY ReferenceStages DEF Versioned, RoundTrip
<1>. QED  BY <1>1, <1>2, <1>3, PTL DEF MigrationSpec

-----------------------------------------------------------------------------
(* The roles of the cluster.                                                *)

LEMMA KeptTouched ==
  ASSUME NEW e \in Database, Kept(e)
  PROVE  /\ Touched(e)' \subseteq Touched(e)
         /\ Running(e)' => /\ Running(e) /\ Touched(e)' = Touched(e)
                           /\ work'[e].at = work[e].at /\ work'[e].roles = work[e].roles
BY DEF Kept, Same, Running, Touched

LEMMA SameTouched ==
  ASSUME NEW e \in Database, work'[e] = work[e]
  PROVE  /\ Touched(e)' = Touched(e) /\ Running(e)' = Running(e)
         /\ work'[e].at = work[e].at /\ work'[e].roles = work[e].roles
BY DEF Running, Touched

LEMMA UsageNamed ==
  ASSUME Versioned, NEW e \in Database, NEW r \in UsageAt(revision[e])
  PROVE  NamesRole(image[e], r)
<1>1. image[e].usage = UsageAt(revision[e])
  BY DEF Versioned, Stage
<1>. QED  BY <1>1 DEF NamesRole

(* One command moves, everything else stays. *)
LEMMA AdvancedRoles ==
  ASSUME Versioned, RolesHeld, NEW d \in Database, Running(d), UNCHANGED <<revision, image, role>>,
         \A e \in Database \ {d} : work'[e] = work[e], work'[d] # NoCommand,
         NEW n \in 1 .. 9, RolesOf(n) \subseteq Role,
         \A e \in Database \ {d} : RolesOf(n) \cap Touched(e) = {},
         NEW kind \in {"hardened", "absent"},
         work'[d].roles = [r \in RolesOf(n) \cup Touched(d) |->
                             IF r \in RolesOf(n) THEN kind ELSE work[d].roles[r]],
         kind = "absent" => \A e \in Database \ {d} : \A r \in RolesOf(n) : r \notin UsageAt(revision[e]),
         kind = "hardened" => UsageAt(work'[d].at) = UsageAt(work[d].at) \cup RolesOf(n),
         kind = "absent" => UsageAt(work'[d].at) = UsageAt(work[d].at) \ RolesOf(n)
  PROVE  RolesHeld'
<1>1. \A e \in Database \ {d} : /\ Touched(e)' = Touched(e) /\ Running(e)' = Running(e)
                                /\ work'[e].at = work[e].at /\ work'[e].roles = work[e].roles
  BY SameTouched
<1>2. Running(d)' /\ Touched(d)' = RolesOf(n) \cup Touched(d)
  BY DEF Running, Touched
<1>3. RolesTyped'
  <2>1. Touched(d)' \subseteq Role /\ \A r \in Touched(d)' : work'[d].roles[r] \in {"hardened", "absent"}
    BY <1>2 DEF RolesHeld, RolesTyped
  <2>2. ASSUME NEW e \in Database \ {d}, Running(e)'
        PROVE  /\ Touched(e)' \subseteq Role
               /\ \A r \in Touched(e)' : work'[e].roles[r] \in {"hardened", "absent"}
    BY <1>1, <2>2 DEF RolesHeld, RolesTyped
  <2>3. role' \in [Role -> {"absent", "lax", "hardened"}]
    BY DEF RolesHeld, RolesTyped
  <2>. QED  BY <2>1, <2>2, <2>3 DEF RolesTyped
<1>4. Hardened'
  BY DEF RolesHeld, Hardened
<1>5. Needed(d)'
  <2>1. Needed(d)
    BY DEF RolesHeld
  <2>2. CASE kind = "hardened"
    BY <1>2, <2>1, <2>2 DEF Needed
  <2>3. CASE kind = "absent"
    BY <1>2, <2>1, <2>3 DEF Needed
  <2>. QED  BY <2>2, <2>3
<1>6. \A e \in Database \ {d} : Running(e) => Needed(e)'
  BY <1>1 DEF RolesHeld, Needed
<1>7. \A e \in Database \ {d} : Touched(d)' \cap Touched(e) = {}
  BY <1>2 DEF RolesHeld, Exclusive
<1>8. Exclusive(d)' /\ \A e \in Database \ {d} : Running(e) => Exclusive(e)'
  BY <1>1, <1>7 DEF RolesHeld, Exclusive
<1>9. Dropping(d)'
  <2>1. Dropping(d)
    BY DEF RolesHeld
  <2>. QED  BY <1>2, <2>1 DEF Dropping
<1>10. \A e \in Database \ {d} : Running(e) => Dropping(e)'
  BY <1>1 DEF RolesHeld, Dropping
<1>. QED  BY <1>1, <1>3, <1>4, <1>5, <1>6, <1>8, <1>9, <1>10 DEF RolesHeld

LEMMA QuietRoles ==
  ASSUME RolesHeld, UNCHANGED <<revision, role>>, \A e \in Database : Kept(e)
  PROVE  RolesHeld'
<1>1. \A e \in Database :
        /\ Touched(e)' \subseteq Touched(e)
        /\ Running(e)' => /\ Running(e) /\ Touched(e)' = Touched(e)
                          /\ work'[e].at = work[e].at /\ work'[e].roles = work[e].roles
  BY KeptTouched
<1>2. RolesTyped'
  BY <1>1 DEF RolesHeld, RolesTyped
<1>3. Hardened'
  BY DEF RolesHeld, Hardened
<1>4. \A e \in Database : Running(e)' => Needed(e)' /\ Exclusive(e)' /\ Dropping(e)'
  <2>1. ASSUME NEW e \in Database, Running(e)'
        PROVE  Needed(e)' /\ Exclusive(e)' /\ Dropping(e)'
    <3>1. Needed(e) /\ Exclusive(e) /\ Dropping(e)
      BY <1>1, <2>1 DEF RolesHeld
    <3>2. Needed(e)' /\ Dropping(e)'
      BY <1>1, <2>1, <3>1 DEF Needed, Dropping
    <3>3. Exclusive(e)'
      BY <1>1, <2>1, <3>1 DEF Exclusive
    <3>. QED  BY <3>2, <3>3
  <2>. QED  BY <2>1
<1>. QED  BY <1>2, <1>3, <1>4 DEF RolesHeld

LEMMA BeginRoles ==
  ASSUME Versioned, MigrationsAssumption, RolesHeld,
         NEW d \in Database, NEW target \in Targets, BeginCommand(d, target)
  PROVE  RolesHeld'
<1>1. /\ UNCHANGED <<revision, role>> /\ \A e \in Database \ {d} : work'[e] = work[e]
      /\ work'[d].at = revision[d] /\ work'[d].roles = <<>>
  BY BeginEffect
<1>2. \A e \in Database \ {d} : /\ Touched(e)' = Touched(e) /\ Running(e)' = Running(e)
                                /\ work'[e].at = work[e].at /\ work'[e].roles = work[e].roles
  BY <1>1, SameTouched
<1>3. Touched(d)' = {}
  BY <1>1 DEF Touched
<1>4. RolesTyped'
  BY <1>1, <1>2, <1>3 DEF RolesHeld, RolesTyped
<1>5. Hardened'
  BY <1>1 DEF RolesHeld, Hardened
<1>6. Needed(d)' /\ Exclusive(d)' /\ Dropping(d)'
  BY <1>1, <1>3 DEF Needed, Exclusive, Dropping
<1>7. \A e \in Database \ {d} : Running(e) => Needed(e)' /\ Dropping(e)'
  BY <1>1, <1>2 DEF RolesHeld, Needed, Dropping
<1>8. \A e \in Database \ {d} : Running(e) => Exclusive(e)'
  BY <1>2, <1>3 DEF RolesHeld, Exclusive
<1>. QED  BY <1>2, <1>4, <1>5, <1>6, <1>7, <1>8 DEF RolesHeld

LEMMA CommitRoles ==
  ASSUME Versioned, PublicHeld, RolesHeld, NEW d \in Database, Commit(d)
  PROVE  RolesHeld'
<1>1. /\ Running(d) /\ work'[d] = NoCommand /\ \A e \in Database : Kept(e)
      /\ revision' = [revision EXCEPT ![d] = work[d].at]
      /\ role' = [r \in Role |-> IF r \in Touched(d) THEN work[d].roles[r] ELSE role[r]]
  BY CommitEffect
<1>2. \A e \in Database :
        /\ Touched(e)' \subseteq Touched(e)
        /\ Running(e)' => /\ Running(e) /\ Touched(e)' = Touched(e)
                          /\ work'[e].at = work[e].at /\ work'[e].roles = work[e].roles
  BY <1>1, KeptTouched
<1>3. Needed(d) /\ Exclusive(d) /\ Dropping(d) /\ ~Running(d)'
  BY <1>1 DEF RolesHeld, Running
<1>4. work[d].at \in 0 .. 9 /\ revision'[d] = work[d].at
      /\ \A e \in Database \ {d} : revision'[e] = revision[e]
  BY <1>1 DEF Versioned, IsCommand
<1>5. RolesTyped'
  <2>1. role' \in [Role -> {"absent", "lax", "hardened"}]
    BY <1>1 DEF RolesHeld, RolesTyped
  <2>. QED  BY <1>2, <2>1 DEF RolesHeld, RolesTyped
<1>6. Hardened'
  <2>1. ASSUME NEW r \in UsageAt(work[d].at)
        PROVE  role'[r] = "hardened"
    <3>1. r \in Role
      BY <1>4, UsageRoles
    <3>2. CASE r \in Touched(d)
      BY <1>1, <1>3, <3>1, <3>2 DEF Needed
    <3>3. CASE r \notin Touched(d)
      BY <1>1, <1>3, <3>1, <3>3 DEF Needed, RolesHeld, Hardened
    <3>. QED  BY <3>2, <3>3
  <2>2. ASSUME NEW e \in Database, e # d, NEW r \in UsageAt(revision[e])
        PROVE  role'[r] = "hardened"
    <3>1. r \in Role
      BY UsageRoles DEF Versioned
    <3>2. role[r] = "hardened"
      BY DEF RolesHeld, Hardened
    <3>3. r \in Touched(d) => work[d].roles[r] = "hardened"
      BY <1>1, <1>3, <2>2 DEF Dropping, RolesHeld, RolesTyped
    <3>. QED  BY <1>1, <3>1, <3>2, <3>3
  <2>. QED  BY <1>4, <2>1, <2>2 DEF Hardened
<1>7. ASSUME NEW e \in Database, Running(e)'
      PROVE  Needed(e)' /\ Exclusive(e)' /\ Dropping(e)'
  <2>1. e # d /\ Needed(e) /\ Exclusive(e) /\ Dropping(e)
    BY <1>2, <1>3, <1>7 DEF RolesHeld
  <2>2. Needed(e)'
    BY <1>2, <1>4, <1>7, <2>1 DEF Needed
  <2>3. Exclusive(e)'
    BY <1>2, <1>7, <2>1 DEF Exclusive
  <2>4. ASSUME NEW r \in Touched(e), work[e].roles[r] = "absent"
        PROVE  r \notin UsageAt(work[d].at)
    <3>1. r \notin UsageAt(revision[d])
      BY <2>1, <2>4 DEF Dropping
    <3>2. r \notin Touched(d)
      BY <2>1, <2>4 DEF Exclusive
    <3>. QED  BY <1>3, <3>1, <3>2 DEF Needed
  <2>5. Dropping(e)'
    BY <1>2, <1>4, <1>7, <2>1, <2>4 DEF Dropping
  <2>. QED  BY <2>2, <2>3, <2>5
<1>. QED  BY <1>5, <1>6, <1>7 DEF RolesHeld

LEMMA RolesStep ==
  ASSUME Versioned, PublicHeld, RolesHeld, MigrationsAssumption, [MigrationNext]_migrationVars
  PROVE  RolesHeld'
<1>1. CASE Quiet
  BY <1>1, QuietRoles DEF Quiet
<1>2. ASSUME NEW d \in Database, StepUp(d)
      PROVE  RolesHeld'
  <2>. DEFINE n == Due(d)
  <2>1. /\ UNCHANGED <<revision, image, role>> /\ Running(d) /\ Ahead(d) = {}
        /\ n = work[d].at + 1 /\ n \in 1 .. 9
    BY <1>2, StepUpEffect
  <2>2. CASE \A e \in Database : Kept(e)
    BY <2>1, <2>2, QuietRoles
  <2>3. CASE Advanced(d, Due(d), Stage(Due(d)), RolesCreated(d)) /\ work'[d] # NoCommand
    <3>1. /\ \A e \in Database \ {d} : work'[e] = work[e]
          /\ work'[d].at = n /\ work'[d].roles = RolesCreated(d)
      BY <2>3 DEF Advanced
    <3>2. \A e \in Database \ {d} : RolesOf(n) \cap Touched(e) = {}
      BY <2>1 DEF Ahead
    <3>3. work[d].at \in 0 .. 9 /\ work[d].at = n - 1
      BY <2>1 DEF Versioned, IsCommand
    <3>4. UsageAt(work'[d].at) = UsageAt(work[d].at) \cup RolesOf(n) /\ RolesOf(n) \subseteq Role
      BY <2>1, <3>1, <3>3, UsageStep
    <3>. HIDE DEF n
    <3>. QED  BY <2>1, <2>3, <3>1, <3>2, <3>4, AdvancedRoles DEF RolesCreated, n
  <2>. QED  BY <1>2, <2>2, <2>3, StepUpEffect
<1>3. ASSUME NEW d \in Database, StepDown(d)
      PROVE  RolesHeld'
  <2>. DEFINE n == Due(d)
  <2>1. /\ UNCHANGED <<revision, image, role>> /\ Running(d) /\ Ahead(d) = {}
        /\ n = work[d].at /\ n \in 1 .. 9
    BY <1>3, StepDownEffect
  <2>2. CASE \A e \in Database : Kept(e)
    BY <2>1, <2>2, QuietRoles
  <2>3. CASE /\ ~RoleNeeded(d, Stage(Due(d) - 1))
             /\ Advanced(d, Due(d) - 1, Stage(Due(d) - 1), RolesDropped(d)) /\ work'[d] # NoCommand
    <3>1. /\ \A e \in Database \ {d} : work'[e] = work[e]
          /\ work'[d].at = n - 1 /\ work'[d].roles = RolesDropped(d)
      BY <2>3 DEF Advanced
    <3>2. \A e \in Database \ {d} : RolesOf(n) \cap Touched(e) = {}
      BY <2>1 DEF Ahead
    <3>3. UsageAt(work'[d].at) = UsageAt(work[d].at) \ RolesOf(n) /\ RolesOf(n) \subseteq Role
      BY <2>1, <3>1, UsageStep
    <3>4. \A e \in Database \ {d} : \A r \in RolesOf(n) : r \notin UsageAt(revision[e])
      BY <2>3, UsageNamed DEF RoleNeeded
    <3>. HIDE DEF n
    <3>. QED  BY <2>1, <2>3, <3>1, <3>2, <3>3, <3>4, AdvancedRoles DEF RolesDropped, n
  <2>. QED  BY <1>3, <2>2, <2>3, StepDownEffect
<1>. QED  BY <1>1, <1>2, <1>3, BeginRoles, CommitRoles, NextSteps DEF Steps

(* A role that a committed revision uses is hardened, whatever commands meet *)
(* at it (CREATE ROLE and DROP ROLE of the migrations, for one cluster).     *)
THEOREM MigrationsInvariant == MigrationSpec => []MigrInv
<1>1. MigrationInit => MigrInv
  <2>1. ASSUME MigrationInit
        PROVE  RolesHeld
    <3>1. \A d \in Database : ~Running(d) /\ revision[d] = 0
      BY <2>1 DEF MigrationInit, Running
    <3>2. RolesTyped
      BY <2>1, <3>1 DEF MigrationInit, RolesTyped
    <3>3. Hardened
      BY <3>1, UsageOf DEF Hardened
    <3>. QED  BY <3>1, <3>2, <3>3 DEF RolesHeld
  <2>. QED  BY <2>1, VersionedInit DEF MigrInv
<1>2. MigrInv /\ [MigrationNext]_migrationVars => MigrInv'
  BY VersionedStep, RolesStep, MigrationsAssumption DEF MigrInv
<1>. QED  BY <1>1, <1>2, PTL DEF MigrationSpec

-----------------------------------------------------------------------------
(* What the grants and policies of a revision give a role.                  *)

Applies(p, r, table, verb) == p.on = table /\ r \in p.to /\ verb \in p.verbs

Arms(n, r, table, verb) ==
  UNION {p.arms : p \in {q \in PoliciesAt(n) : Applies(q, r, table, verb)}}

Granted(n, r, table, verb) == <<r, table, verb>> \in GrantsAt(n)

LEMMA ArmsOne ==
  ASSUME NEW n, NEW r, NEW table, NEW verb, NEW X,
         \A p \in PoliciesAt(n) : Applies(p, r, table, verb) => p.arms = X,
         X = {} \/ \E p \in PoliciesAt(n) : Applies(p, r, table, verb)
  PROVE  Arms(n, r, table, verb) = X
BY DEF Arms

(* The policies from 0d5679b5500d on, by the roles they speak of.            *)
OpenedAt(n) == IF n >= 5 THEN RegistrationRoles ELSE {"nc3_app"}

Definers ==
  {Policy("definer_lookup", table, {"nc3_auth_definer"}, {"SELECT"}, {"any"}) : table \in LookupTables}

UserNames(n) == (IF n >= 5 THEN AuthNames ELSE {}) \cup (IF n >= 8 THEN MfaNames ELSE {})

LEMMA PoliciesFrom4 ==
  ASSUME NEW n \in 4 .. 9
  PROVE  PoliciesAt(n) = TenantRows(OpenedAt(n)) \cup {ReferenceRead(OpenedAt(n))} \cup AuditAppends
                           \cup DutyPolicies \cup OwnRows(UserNames(n))
                           \cup (IF n >= 5 THEN Definers ELSE {})
<1>1. PoliciesAt(4) = RowPolicies(OpenedAt(4)) /\ UserNames(4) = {} /\ OwnRows({}) = {}
  BY PoliciesOf DEF OpenedAt, UserNames, OwnRows
<1>2. AuthPolicies = OwnRows(AuthNames) \cup Definers
  BY LaterNames DEF AuthPolicies, Definers
<1>3. OwnRows(AuthNames \cup MfaNames) = OwnRows(AuthNames) \cup OwnRows(MfaNames)
  BY DEF OwnRows
<1>4. CASE n = 4
  BY <1>1, <1>4 DEF RowPolicies
<1>5. CASE n \in 5 .. 7
  <2>1. UserNames(n) = AuthNames /\ OpenedAt(n) = RegistrationRoles
    BY <1>5 DEF UserNames, OpenedAt
  <2>2. PoliciesAt(n) = RowPolicies(RegistrationRoles) \cup OwnRows(AuthNames) \cup Definers
    BY <1>2, <1>5, PoliciesOf
  <2>. QED  BY <1>5, <2>1, <2>2 DEF RowPolicies
<1>6. CASE n \in 8 .. 9
  <2>1. UserNames(n) = AuthNames \cup MfaNames /\ OpenedAt(n) = RegistrationRoles
    BY <1>6 DEF UserNames, OpenedAt
  <2>2. PoliciesAt(n) = RowPolicies(RegistrationRoles) \cup OwnRows(AuthNames \cup MfaNames) \cup Definers
    BY <1>2, <1>3, <1>6, PoliciesOf
  <2>. QED  BY <1>6, <2>1, <2>2 DEF RowPolicies
<1>. QED  BY <1>4, <1>5, <1>6

LEMMA TenantOnly ==
  ASSUME NEW opened, NEW r, NEW table, NEW verb,
         NEW p \in TenantRows(opened), Applies(p, r, table, verb)
  PROVE  /\ table \in DOMAIN TenantArms /\ p.arms = TenantArms[table]
         /\ (table \in RegistrationTables /\ r \in opened) \/ r = "nc3_app"
<1>1. DOMAIN TenantArms = RowTables \ {"statement", "audit_event"}
  BY DEF TenantArms
<1>. QED  BY <1>1, TenantRowsParts DEF Applies

LEMMA TenantSome ==
  ASSUME NEW opened, NEW r, NEW table \in DOMAIN TenantArms, NEW verb \in Verb,
         r \in IF table \in RegistrationTables THEN opened ELSE {"nc3_app"}
  PROVE  \E p \in TenantRows(opened) : Applies(p, r, table, verb)
<1>. DEFINE p == Policy("tenant_rows", table,
                        IF table \in RegistrationTables THEN opened ELSE {"nc3_app"},
                        Verb, TenantArms[table])
<1>1. p \in TenantRows(opened)
  BY DEF TenantRows
<1>2. Applies(p, r, table, verb)
  BY DEF Applies, Policy
<1>. QED  BY <1>1, <1>2

LEMMA ReferenceApplies ==
  ASSUME NEW opened, NEW r, NEW table, NEW verb
  PROVE  /\ Applies(ReferenceRead(opened), r, table, verb)
              <=> table = "statement" /\ r \in opened /\ verb = "SELECT"
         /\ ReferenceRead(opened).arms = {"any"}
BY DEF Applies, ReferenceRead, Policy

LEMMA AuditOnly ==
  ASSUME NEW r, NEW table, NEW verb, NEW p \in AuditAppends, Applies(p, r, table, verb)
  PROVE  /\ table = "audit_event" /\ verb = "INSERT" /\ r \in {"nc3_app", "app_platform"}
         /\ p.arms = IF r = "nc3_app" THEN {"orgless", "org"} ELSE {"any"}
BY DEF Applies, AuditAppends, Policy

LEMMA AuditSome ==
  ASSUME NEW r \in {"nc3_app", "app_platform"}
  PROVE  \E p \in AuditAppends : Applies(p, r, "audit_event", "INSERT")
BY DEF Applies, AuditAppends, Policy

LEMMA DutyOnly ==
  ASSUME NEW r, NEW table, NEW verb, NEW p \in DutyPolicies, Applies(p, r, table, verb)
  PROVE  /\ table \in DutyTables /\ verb \in Verb \ {"DELETE"} /\ r = "app_platform"
         /\ p.arms = {"any"}
<1>1. PICK duty \in {<<"platform_duty_select", "SELECT">>, <<"platform_duty_update", "UPDATE">>,
                     <<"platform_duty_insert", "INSERT">>}, t \in DutyTables :
        p = Policy(duty[1], t, {"app_platform"}, {duty[2]}, {"any"})
  BY DEF DutyPolicies
<1>2. p.on = t /\ p.to = {"app_platform"} /\ p.verbs = {duty[2]} /\ p.arms = {"any"}
  BY <1>1, PolicyParts
<1>3. duty[2] \in Verb \ {"DELETE"}
  BY DEF Verb
<1>. QED  BY <1>2, <1>3 DEF Applies

LEMMA DutySome ==
  ASSUME NEW table \in DutyTables, NEW verb \in Verb \ {"DELETE"}
  PROVE  \E p \in DutyPolicies : Applies(p, "app_platform", table, verb)
<1>1. PICK duty \in {<<"platform_duty_select", "SELECT">>, <<"platform_duty_update", "UPDATE">>,
                     <<"platform_duty_insert", "INSERT">>} : duty[2] = verb
  BY DEF Verb
<1>. DEFINE p == Policy(duty[1], table, {"app_platform"}, {duty[2]}, {"any"})
<1>2. p \in DutyPolicies
  BY DEF DutyPolicies
<1>3. p.on = table /\ p.to = {"app_platform"} /\ p.verbs = {duty[2]}
  BY PolicyParts
<1>. QED  BY <1>1, <1>2, <1>3 DEF Applies

LEMMA OwnOnly ==
  ASSUME NEW tables, NEW r, NEW table, NEW verb, NEW p \in OwnRows(tables), Applies(p, r, table, verb)
  PROVE  table \in tables /\ r = "nc3_auth" /\ p.arms = {"user"}
<1>1. PICK t \in tables : p = Policy("tenant_rows", t, {"nc3_auth"}, Verb, {"user"})
  BY DEF OwnRows
<1>. QED  BY <1>1, PolicyParts DEF Applies

LEMMA OwnSome ==
  ASSUME NEW tables, NEW table \in tables, NEW verb \in Verb
  PROVE  \E p \in OwnRows(tables) : Applies(p, "nc3_auth", table, verb)
<1>. DEFINE p == Policy("tenant_rows", table, {"nc3_auth"}, Verb, {"user"})
<1>1. p \in OwnRows(tables)
  BY DEF OwnRows
<1>. QED  BY <1>1, PolicyParts DEF Applies

LEMMA DefinerOnly ==
  ASSUME NEW r, NEW table, NEW verb, NEW p \in Definers, Applies(p, r, table, verb)
  PROVE  table \in LookupTables /\ r = "nc3_auth_definer" /\ verb = "SELECT" /\ p.arms = {"any"}
<1>1. PICK t \in LookupTables :
        p = Policy("definer_lookup", t, {"nc3_auth_definer"}, {"SELECT"}, {"any"})
  BY DEF Definers
<1>. QED  BY <1>1, PolicyParts DEF Applies

LEMMA DefinerSome ==
  ASSUME NEW table \in LookupTables
  PROVE  \E p \in Definers : Applies(p, "nc3_auth_definer", table, "SELECT")
<1>. DEFINE p == Policy("definer_lookup", table, {"nc3_auth_definer"}, {"SELECT"}, {"any"})
<1>1. p \in Definers
  BY DEF Definers
<1>. QED  BY <1>1, PolicyParts DEF Applies

LEMMA AppArms ==
  ASSUME NEW n \in 4 .. 9, NEW table, NEW verb \in Verb
  PROVE  Arms(n, "nc3_app", table, verb) =
           IF table \in DOMAIN TenantArms THEN TenantArms[table]
           ELSE IF table = "statement" /\ verb = "SELECT" THEN {"any"}
           ELSE IF table = "audit_event" /\ verb = "INSERT" THEN {"orgless", "org"} ELSE {}
<1>. DEFINE r == "nc3_app"
            X == IF table \in DOMAIN TenantArms THEN TenantArms[table]
                 ELSE IF table = "statement" /\ verb = "SELECT" THEN {"any"}
                 ELSE IF table = "audit_event" /\ verb = "INSERT" THEN {"orgless", "org"} ELSE {}
<1>1. "nc3_app" \in OpenedAt(n)
  BY DEF OpenedAt, RegistrationRoles
<1>2. "statement" \notin DOMAIN TenantArms /\ "audit_event" \notin DOMAIN TenantArms
  BY DEF TenantArms
<1>3. ASSUME NEW p \in PoliciesAt(n), Applies(p, r, table, verb)
      PROVE  p.arms = X
  <2>1. CASE p \in TenantRows(OpenedAt(n))
    <3>1. table \in DOMAIN TenantArms /\ p.arms = TenantArms[table]
      BY <1>3, <2>1, TenantOnly
    <3>. QED  BY <3>1
  <2>2. CASE p = ReferenceRead(OpenedAt(n))
    BY <1>2, <1>3, <2>2, ReferenceApplies
  <2>3. CASE p \in AuditAppends
    <3>1. table = "audit_event" /\ verb = "INSERT" /\ p.arms = {"orgless", "org"}
      BY <1>3, <2>3, AuditOnly
    <3>. QED  BY <1>2, <3>1
  <2>4. p \notin DutyPolicies /\ p \notin OwnRows(UserNames(n)) /\ p \notin Definers
    BY <1>3, DutyOnly, OwnOnly, DefinerOnly
  <2>. QED  BY <2>1, <2>2, <2>3, <2>4, PoliciesFrom4
<1>4. X = {} \/ \E p \in PoliciesAt(n) : Applies(p, r, table, verb)
  <2>1. CASE table \in DOMAIN TenantArms
    <3>1. \E p \in TenantRows(OpenedAt(n)) : Applies(p, r, table, verb)
      BY <1>1, <2>1, TenantSome
    <3>. QED  BY <3>1, PoliciesFrom4
  <2>2. CASE table = "statement" /\ verb = "SELECT"
    <3>1. Applies(ReferenceRead(OpenedAt(n)), r, table, verb)
      BY <1>1, <2>2, ReferenceApplies
    <3>. QED  BY <3>1, PoliciesFrom4
  <2>3. CASE table = "audit_event" /\ verb = "INSERT"
    <3>1. \E p \in AuditAppends : Applies(p, r, table, verb)
      BY <2>3, AuditSome
    <3>. QED  BY <3>1, PoliciesFrom4
  <2>. QED  BY <2>1, <2>2, <2>3
<1>. HIDE DEF X
<1>5. Arms(n, r, table, verb) = X
  BY <1>3, <1>4, ArmsOne
<1>. QED  BY <1>5 DEF X

LEMMA PlatformArms ==
  ASSUME NEW n \in 4 .. 9, NEW table, NEW verb \in Verb
  PROVE  Arms(n, "app_platform", table, verb) = PlatformReach(table, verb)
<1>. DEFINE r == "app_platform"
            X == PlatformReach(table, verb)
<1>1. X = IF (table \in DutyTables /\ verb \in Verb \ {"DELETE"})
             \/ (table = "audit_event" /\ verb = "INSERT") THEN {"any"} ELSE {}
  BY DEF PlatformReach, DutyTables
<1>2. r \notin OpenedAt(n) /\ r # "nc3_app"
  BY DEF OpenedAt, RegistrationRoles
<1>. HIDE DEF X
<1>3. ASSUME NEW p \in PoliciesAt(n), Applies(p, r, table, verb)
      PROVE  p.arms = X
  <2>1. p \notin TenantRows(OpenedAt(n))
    BY <1>2, <1>3, TenantOnly
  <2>2. p # ReferenceRead(OpenedAt(n))
    BY <1>2, <1>3, ReferenceApplies
  <2>3. CASE p \in AuditAppends
    BY <1>1, <1>3, <2>3, AuditOnly
  <2>4. CASE p \in DutyPolicies
    BY <1>1, <1>3, <2>4, DutyOnly
  <2>5. p \notin OwnRows(UserNames(n))
    <3>1. p \in OwnRows(UserNames(n)) => p.to = {"nc3_auth"}
      BY PolicyParts DEF OwnRows
    <3>. QED  BY <1>3, <3>1 DEF Applies
  <2>6. p \notin Definers
    BY <1>3, DefinerOnly
  <2>. QED  BY <2>1, <2>2, <2>3, <2>4, <2>5, <2>6, PoliciesFrom4
<1>4. X = {} \/ \E p \in PoliciesAt(n) : Applies(p, r, table, verb)
  <2>1. CASE table \in DutyTables /\ verb \in Verb \ {"DELETE"}
    <3>1. \E p \in DutyPolicies : Applies(p, r, table, verb)
      BY <2>1, DutySome
    <3>. QED  BY <3>1, PoliciesFrom4
  <2>2. CASE table = "audit_event" /\ verb = "INSERT"
    <3>1. \E p \in AuditAppends : Applies(p, r, table, verb)
      BY <2>2, AuditSome
    <3>. QED  BY <3>1, PoliciesFrom4
  <2>. QED  BY <1>1, <2>1, <2>2
<1>5. Arms(n, r, table, verb) = X
  BY <1>3, <1>4, ArmsOne
<1>. QED  BY <1>5 DEF X

LEMMA AuthArms ==
  ASSUME NEW n \in 5 .. 9, NEW table, NEW verb \in Verb
  PROVE  Arms(n, "nc3_auth", table, verb) =
           IF table \in RegistrationTables THEN TenantArms[table]
           ELSE IF table = "statement" /\ verb = "SELECT" THEN {"any"}
           ELSE IF table \in UserNames(n) THEN {"user"} ELSE {}
<1>. DEFINE r == "nc3_auth"
            X == IF table \in RegistrationTables THEN TenantArms[table]
                 ELSE IF table = "statement" /\ verb = "SELECT" THEN {"any"}
                 ELSE IF table \in UserNames(n) THEN {"user"} ELSE {}
<1>1. OpenedAt(n) = RegistrationRoles /\ r \in RegistrationRoles
  BY DEF OpenedAt, RegistrationRoles
<1>2. RegistrationTables \subseteq DOMAIN TenantArms /\ "statement" \notin RegistrationTables
  BY DEF TenantArms, RegistrationTables, RowTables
<1>3. UserNames(n) \subseteq AuthNames \cup MfaNames
  BY DEF UserNames
<1>4. table \in UserNames(n) => table \notin RegistrationTables /\ table # "statement"
  BY <1>3 DEF AuthNames, MfaNames, RegistrationTables
<1>5. ASSUME NEW p \in PoliciesAt(n), Applies(p, r, table, verb)
      PROVE  p.arms = X
  <2>1. CASE p \in TenantRows(OpenedAt(n))
    <3>1. /\ p.arms = TenantArms[table]
          /\ (table \in RegistrationTables /\ r \in OpenedAt(n)) \/ r = "nc3_app"
      BY <1>5, <2>1, TenantOnly
    <3>2. r # "nc3_app"
      OBVIOUS
    <3>. QED  BY <3>1, <3>2
  <2>2. CASE p = ReferenceRead(OpenedAt(n))
    BY <1>2, <1>5, <2>2, ReferenceApplies
  <2>3. CASE p \in OwnRows(UserNames(n))
    BY <1>4, <1>5, <2>3, OwnOnly
  <2>4. p \notin AuditAppends /\ p \notin DutyPolicies /\ p \notin Definers
    BY <1>5, AuditOnly, DutyOnly, DefinerOnly
  <2>. QED  BY <2>1, <2>2, <2>3, <2>4, PoliciesFrom4
<1>6. X = {} \/ \E p \in PoliciesAt(n) : Applies(p, r, table, verb)
  <2>1. CASE table \in RegistrationTables
    <3>1. \E p \in TenantRows(OpenedAt(n)) : Applies(p, r, table, verb)
      BY <1>1, <1>2, <2>1, TenantSome
    <3>. QED  BY <3>1, PoliciesFrom4
  <2>2. CASE table = "statement" /\ verb = "SELECT"
    <3>1. Applies(ReferenceRead(OpenedAt(n)), r, table, verb)
      BY <1>1, <2>2, ReferenceApplies
    <3>. QED  BY <3>1, PoliciesFrom4
  <2>3. CASE table \in UserNames(n)
    <3>1. \E p \in OwnRows(UserNames(n)) : Applies(p, r, table, verb)
      BY <2>3, OwnSome
    <3>. QED  BY <3>1, PoliciesFrom4
  <2>. QED  BY <2>1, <2>2, <2>3
<1>. HIDE DEF X
<1>7. Arms(n, r, table, verb) = X
  BY <1>5, <1>6, ArmsOne
<1>. QED  BY <1>7 DEF X

LEMMA DefinerArms ==
  ASSUME NEW n \in 5 .. 9, NEW table, NEW verb \in Verb
  PROVE  Arms(n, "nc3_auth_definer", table, verb) = DefinerReach(table, verb)
<1>. DEFINE r == "nc3_auth_definer"
            X == DefinerReach(table, verb)
<1>1. X = IF table \in LookupTables /\ verb = "SELECT" THEN {"any"} ELSE {}
  BY DEF DefinerReach, LookupTables
<1>2. r \notin OpenedAt(n) /\ r # "nc3_app"
  BY DEF OpenedAt, RegistrationRoles
<1>. HIDE DEF X
<1>3. ASSUME NEW p \in PoliciesAt(n), Applies(p, r, table, verb)
      PROVE  p.arms = X
  <2>1. p \notin TenantRows(OpenedAt(n))
    BY <1>2, <1>3, TenantOnly
  <2>2. p # ReferenceRead(OpenedAt(n))
    BY <1>2, <1>3, ReferenceApplies
  <2>3. p \notin AuditAppends /\ p \notin DutyPolicies /\ p \notin OwnRows(UserNames(n))
    BY <1>3, AuditOnly, DutyOnly, OwnOnly
  <2>4. CASE p \in Definers
    BY <1>1, <1>3, <2>4, DefinerOnly
  <2>. QED  BY <2>1, <2>2, <2>3, <2>4, PoliciesFrom4
<1>4. X = {} \/ \E p \in PoliciesAt(n) : Applies(p, r, table, verb)
  <2>1. CASE table \in LookupTables /\ verb = "SELECT"
    <3>1. \E p \in Definers : Applies(p, r, table, verb)
      BY <2>1, DefinerSome
    <3>. QED  BY <3>1, PoliciesFrom4
  <2>. QED  BY <1>1, <2>1
<1>5. Arms(n, r, table, verb) = X
  BY <1>3, <1>4, ArmsOne
<1>. QED  BY <1>5 DEF X

LEMMA ToHolds ==
  ASSUME NEW tables, NEW verbs, NEW privileges \in SUBSET On(tables, verbs),
         NEW roles, NEW r, NEW table, NEW verb
  PROVE  <<r, table, verb>> \in To(roles, privileges) <=> r \in roles /\ <<table, verb>> \in privileges
<1>1. \A p \in privileges : p = <<p[1], p[2]>>
  BY DEF On
<1>. QED  BY <1>1 DEF To

LEMMA ToOn ==
  ASSUME NEW tables, NEW verbs, NEW roles, NEW r, NEW table, NEW verb
  PROVE  <<r, table, verb>> \in To(roles, On(tables, verbs))
           <=> r \in roles /\ table \in tables /\ verb \in verbs
<1>. DEFINE P == On(tables, verbs)
<1>1. <<table, verb>> \in P <=> table \in tables /\ verb \in verbs
  BY DEF On
<1>2. P \in SUBSET On(tables, verbs)
  OBVIOUS
<1>. HIDE DEF P
<1>3. <<r, table, verb>> \in To(roles, P) <=> r \in roles /\ <<table, verb>> \in P
  BY <1>2, ToHolds
<1>. QED  BY <1>1, <1>3 DEF P

LEMMA AppGranted ==
  ASSUME NEW n \in 3 .. 9, NEW table, NEW verb \in Verb
  PROVE  Granted(n, "nc3_app", table, verb)
           <=> /\ table \in RowTables
               /\ ~(table \in {"statement_response", "audit_event"} /\ verb \in {"UPDATE", "DELETE"})
<1>. DEFINE g == <<"nc3_app", table, verb>>
<1>1. g \notin PlatformGrants \cup AuthGrants \cup MfaGrants
  BY GrantRoles
<1>2. g \in GrantsAt(n) <=> g \in AppGrants
  BY <1>1, GrantsOf
<1>3. g \in AppGrants <=> <<table, verb>> \in On(RowTables, Verb) \ AppendOnly
  BY ToHolds DEF AppGrants
<1>. QED  BY <1>2, <1>3 DEF Granted, On, AppendOnly

LEMMA PlatformGranted ==
  ASSUME NEW n \in 4 .. 9, NEW table, NEW verb \in Verb
  PROVE  Granted(n, "app_platform", table, verb)
           <=> \/ table \in DutyTables /\ verb \in Verb \ {"DELETE"}
               \/ table = "audit_event" /\ verb = "INSERT"
<1>. DEFINE g == <<"app_platform", table, verb>>
<1>1. g \notin AppGrants \cup AuthGrants \cup MfaGrants
  BY GrantRoles
<1>2. g \in GrantsAt(n) <=> g \in PlatformGrants
  BY <1>1, GrantsOf
<1>3. g \in To({"app_platform"}, On(DutyTables, Verb \ {"DELETE"}))
        <=> table \in DutyTables /\ verb \in Verb \ {"DELETE"}
  BY ToOn
<1>. QED  BY <1>2, <1>3 DEF Granted, PlatformGrants

LEMMA AuthGranted ==
  ASSUME NEW n \in 5 .. 9, NEW table, NEW verb \in Verb
  PROVE  Granted(n, "nc3_auth", table, verb)
           <=> \/ table \in UserNames(n) /\ verb # "DELETE"
               \/ table \in RegistrationTables /\ verb \in {"SELECT", "INSERT"}
               \/ table = "statement" /\ verb = "SELECT"
<1>. DEFINE g == <<"nc3_auth", table, verb>>
            P == On(AuthNames, Verb \ {"DELETE"}) \cup On(RegistrationTables, {"SELECT", "INSERT"})
                   \cup On({"statement"}, {"SELECT"})
<1>1. g \notin AppGrants \cup PlatformGrants
  BY GrantRoles
<1>2. P \in SUBSET On(AuthNames \cup RegistrationTables \cup {"statement"}, Verb)
  BY DEF On, Verb
<1>3. g \in To({"nc3_auth"}, P) <=> <<table, verb>> \in P
  <2>. HIDE DEF P
  <2>. QED  BY <1>2, ToHolds, Zenon
<1>4. g \notin To({"nc3_auth_definer"}, On(LookupTables, {"SELECT"}))
  BY ToOn
<1>5. g \in AuthGrants <=> <<table, verb>> \in P
  BY <1>3, <1>4, LaterNames DEF AuthGrants
<1>6. g \in MfaGrants <=> table \in MfaNames /\ verb # "DELETE"
  BY ToOn DEF MfaGrants
<1>7. g \in GrantsAt(n) <=> g \in AuthGrants \/ (n >= 8 /\ g \in MfaGrants)
  BY <1>1, GrantsOf
<1>. QED  BY <1>5, <1>6, <1>7 DEF Granted, UserNames, On

LEMMA DefinerGranted ==
  ASSUME NEW n \in 5 .. 9, NEW table, NEW verb \in Verb
  PROVE  Granted(n, "nc3_auth_definer", table, verb) <=> table \in LookupTables /\ verb = "SELECT"
<1>. DEFINE g == <<"nc3_auth_definer", table, verb>>
            P == On(AuthNames, Verb \ {"DELETE"}) \cup On(RegistrationTables, {"SELECT", "INSERT"})
                   \cup On({"statement"}, {"SELECT"})
<1>1. g \notin AppGrants \cup PlatformGrants \cup MfaGrants
  BY GrantRoles
<1>2. P \in SUBSET On(AuthNames \cup RegistrationTables \cup {"statement"}, Verb)
  BY DEF On, Verb
<1>3. g \notin To({"nc3_auth"}, P)
  <2>1. g \in To({"nc3_auth"}, P) => g[1] = "nc3_auth"
    BY DEF To
  <2>. QED  BY <2>1
<1>4. g \in To({"nc3_auth_definer"}, On(LookupTables, {"SELECT"})) <=> table \in LookupTables /\ verb = "SELECT"
  BY ToOn
<1>5. g \in GrantsAt(n) <=> g \in AuthGrants
  BY <1>1, GrantsOf
<1>. QED  BY <1>3, <1>4, <1>5, LaterNames DEF Granted, AuthGrants

-----------------------------------------------------------------------------
(* What the roles reach, by grant and policy together.                      *)

LEMMA TablesNamed ==
  /\ Credentials = AuthNames \cup MfaNames
  /\ \A n : TablesAt(n) \subseteq RowTables \cup Credentials
  /\ RowTables \cap Credentials = {}
BY ApartNames DEF TablesAt, Credentials, AuthNames, MfaNames

LEMMA AppReachArms ==
  ASSUME NEW table \in DOMAIN TenantArms, NEW verb \in Verb
  PROVE  AppReach(table, verb) =
           IF table = "statement_response" /\ verb \notin {"SELECT", "INSERT"} THEN {}
           ELSE TenantArms[table]
<1>1. table \in RowTables \ {"statement", "audit_event"} /\ table \notin Credentials
  BY TablesNamed DEF TenantArms
<1>2. CASE table \in {"app_user", "key_envelope", "statement_response"} \cup UserRows
  BY <1>1, <1>2 DEF AppReach, TenantArms, UserRows, JobRows
<1>3. CASE table \in JobRows
  BY <1>1, <1>3 DEF AppReach, TenantArms, UserRows, JobRows
<1>4. CASE table \notin {"app_user", "key_envelope", "statement_response"} \cup UserRows \cup JobRows
  BY <1>1, <1>4 DEF AppReach, TenantArms, UserRows, JobRows
<1>. QED  BY <1>2, <1>3, <1>4

LEMMA AppDocumented ==
  ASSUME NEW n \in 4 .. 9, NEW table \in TablesAt(n), NEW verb \in Verb
  PROVE  AppReach(table, verb) =
           IF Granted(n, "nc3_app", table, verb) THEN Arms(n, "nc3_app", table, verb) ELSE {}
<1>1. DOMAIN TenantArms = RowTables \ {"statement", "audit_event"} /\ "statement_response" \in RowTables
      /\ {"statement", "audit_event"} \subseteq RowTables
  BY DEF TenantArms, RowTables
<1>2. CASE table \in Credentials
  <2>1. AppReach(table, verb) = {}
    BY <1>2 DEF AppReach, Credentials, UserRows, JobRows
  <2>2. ~Granted(n, "nc3_app", table, verb)
    BY <1>2, TablesNamed, AppGranted
  <2>. QED  BY <2>1, <2>2
<1>3. CASE table = "statement"
  <2>1. AppReach(table, verb) = IF verb = "SELECT" THEN {"any"} ELSE {}
    BY <1>3 DEF AppReach, Credentials, UserRows, JobRows
  <2>2. Arms(n, "nc3_app", table, verb) = IF verb = "SELECT" THEN {"any"} ELSE {}
    BY <1>1, <1>3, AppArms
  <2>3. Granted(n, "nc3_app", table, verb)
    BY <1>1, <1>3, AppGranted
  <2>. QED  BY <2>1, <2>2, <2>3
<1>4. CASE table = "audit_event"
  <2>1. AppReach(table, verb) = IF verb = "INSERT" THEN {"orgless", "org"} ELSE {}
    BY <1>4 DEF AppReach, Credentials, UserRows, JobRows
  <2>2. Arms(n, "nc3_app", table, verb) = IF verb = "INSERT" THEN {"orgless", "org"} ELSE {}
    BY <1>1, <1>4, AppArms
  <2>3. verb = "INSERT" => Granted(n, "nc3_app", table, verb)
    BY <1>1, <1>4, AppGranted
  <2>. QED  BY <2>1, <2>2, <2>3
<1>5. CASE table \in DOMAIN TenantArms
  <2>1. Arms(n, "nc3_app", table, verb) = TenantArms[table]
    BY <1>5, AppArms
  <2>2. Granted(n, "nc3_app", table, verb)
          <=> ~(table = "statement_response" /\ verb \notin {"SELECT", "INSERT"})
    BY <1>1, <1>5, AppGranted DEF Verb
  <2>. QED  BY <1>5, <2>1, <2>2, AppReachArms
<1>. QED  BY <1>1, <1>2, <1>3, <1>4, <1>5, TablesNamed

LEMMA PlatformDocumented ==
  ASSUME NEW n \in 4 .. 9, NEW table, NEW verb \in Verb
  PROVE  PlatformReach(table, verb) =
           IF Granted(n, "app_platform", table, verb) THEN Arms(n, "app_platform", table, verb) ELSE {}
<1>1. ~Granted(n, "app_platform", table, verb) => PlatformReach(table, verb) = {}
  BY PlatformGranted DEF PlatformReach, DutyTables
<1>. QED  BY <1>1, PlatformArms

LEMMA AuthDocumented ==
  ASSUME NEW n \in 5 .. 9, NEW table \in TablesAt(n), NEW verb \in Verb
  PROVE  AuthReach(table, verb) =
           IF Granted(n, "nc3_auth", table, verb) THEN Arms(n, "nc3_auth", table, verb) ELSE {}
<1>1. table \in Credentials <=> table \in UserNames(n)
  <2>1. table \in TablesAt(n) /\ RowTables \cap Credentials = {} /\ Credentials = AuthNames \cup MfaNames
    BY TablesNamed
  <2>. QED  BY <2>1 DEF TablesAt, UserNames
<1>2. RegistrationTables \subseteq DOMAIN TenantArms /\ RegistrationTables \cap Credentials = {}
      /\ "statement" \notin RegistrationTables \cup Credentials
  BY DEF TenantArms, RegistrationTables, RowTables, Credentials
<1>3. CASE table \in Credentials
  <2>1. table \notin RegistrationTables /\ table # "statement"
    BY <1>2, <1>3
  <2>2. AuthReach(table, verb) = IF verb # "DELETE" THEN {"user"} ELSE {}
    BY <1>3, <2>1 DEF AuthReach, RegistrationTables
  <2>3. Arms(n, "nc3_auth", table, verb) = {"user"}
    BY <1>1, <1>3, <2>1, AuthArms
  <2>4. Granted(n, "nc3_auth", table, verb) <=> verb # "DELETE"
    BY <1>1, <1>3, <2>1, AuthGranted
  <2>. QED  BY <2>2, <2>3, <2>4
<1>4. CASE table = "statement"
  <2>1. AuthReach(table, verb) = IF verb = "SELECT" THEN {"any"} ELSE {}
    BY <1>4 DEF AuthReach, Credentials
  <2>2. verb = "SELECT" => Arms(n, "nc3_auth", table, verb) = {"any"}
    BY <1>2, <1>4, AuthArms
  <2>3. Granted(n, "nc3_auth", table, verb) <=> verb = "SELECT"
    BY <1>1, <1>2, <1>4, AuthGranted
  <2>. QED  BY <2>1, <2>2, <2>3
<1>5. CASE table \in RegistrationTables
  <2>1. table \notin Credentials /\ table # "statement"
    BY <1>2, <1>5
  <2>2. AuthReach(table, verb) = IF verb \in {"SELECT", "INSERT"} THEN AppReach(table, verb) ELSE {}
    BY <1>5, <2>1 DEF AuthReach, RegistrationTables
  <2>3. Arms(n, "nc3_auth", table, verb) = TenantArms[table]
    BY <1>5, AuthArms
  <2>4. Granted(n, "nc3_auth", table, verb) <=> verb \in {"SELECT", "INSERT"}
    BY <1>1, <1>5, <2>1, AuthGranted
  <2>5. verb \in {"SELECT", "INSERT"} => AppReach(table, verb) = TenantArms[table]
    BY <1>2, <1>5, AppReachArms
  <2>. QED  BY <2>2, <2>3, <2>4, <2>5
<1>6. CASE table \notin Credentials \cup RegistrationTables \cup {"statement"}
  <2>1. AuthReach(table, verb) = {}
    BY <1>6 DEF AuthReach, RegistrationTables
  <2>2. ~Granted(n, "nc3_auth", table, verb)
    BY <1>1, <1>6, AuthGranted
  <2>. QED  BY <2>1, <2>2
<1>. QED  BY <1>3, <1>4, <1>5, <1>6

LEMMA DefinerDocumented ==
  ASSUME NEW n \in 5 .. 9, NEW table, NEW verb \in Verb
  PROVE  DefinerReach(table, verb) =
           IF Granted(n, "nc3_auth_definer", table, verb)
           THEN Arms(n, "nc3_auth_definer", table, verb) ELSE {}
<1>1. ~Granted(n, "nc3_auth_definer", table, verb) => DefinerReach(table, verb) = {}
  BY DefinerGranted DEF DefinerReach, LookupTables
<1>. QED  BY <1>1, DefinerArms

LEMMA ReachOf ==
  ASSUME MigrInv, NEW d \in Database, revision[d] >= 4, NEW r \in UsageAt(revision[d]),
         NEW table \in TablesAt(revision[d]), NEW verb \in Verb
  PROVE  Reach(d, r, Admitted(d, r), table, verb) =
           IF Granted(revision[d], r, table, verb) \/ <<table, verb>> \in public[d]
           THEN Arms(revision[d], r, table, verb) ELSE {}
<1>. DEFINE n == revision[d]
<1>1. image[d] = Stage(n)
  BY DEF MigrInv, Versioned
<1>2. image[d].enabled = TablesAt(n) /\ image[d].policies = PoliciesAt(n) /\ image[d].grants = GrantsAt(n)
  BY <1>1 DEF Stage
<1>3. role[r] # "lax"
  BY DEF MigrInv, RolesHeld, Hardened
<1>4. Held(image[d], public[d], r, <<table, verb>>)
        <=> Granted(n, r, table, verb) \/ <<table, verb>> \in public[d]
  BY <1>2 DEF Held, Granted
<1>5. UNION {policy.arms : policy \in {p \in Admitted(d, r) : p.on = table /\ verb \in p.verbs}}
        = Arms(n, r, table, verb)
  BY <1>2 DEF Arms, Applies, Admitted
<1>. QED  BY <1>2, <1>3, <1>4, <1>5 DEF Reach

(* The roles that a revision has, and what each is documented to reach.      *)
LEMMA DocumentedArms ==
  ASSUME NEW n \in 4 .. 9, NEW r \in UsageAt(n), NEW table \in TablesAt(n), NEW verb \in Verb
  PROVE  Documented(r, table, verb) =
           IF Granted(n, r, table, verb) THEN Arms(n, r, table, verb) ELSE {}
<1>1. CASE r = "nc3_app"
  <2>1. Documented(r, table, verb) = AppReach(table, verb)
    BY <1>1 DEF Documented
  <2>. QED  BY <1>1, <2>1, AppDocumented
<1>2. CASE r = "app_platform"
  <2>1. Documented(r, table, verb) = PlatformReach(table, verb)
    BY <1>2 DEF Documented
  <2>. QED  BY <1>2, <2>1, PlatformDocumented
<1>3. CASE n >= 5 /\ r = "nc3_auth"
  <2>1. Documented(r, table, verb) = AuthReach(table, verb)
    BY <1>3 DEF Documented
  <2>. QED  BY <1>3, <2>1, AuthDocumented
<1>4. CASE n >= 5 /\ r = "nc3_auth_definer"
  <2>1. Documented(r, table, verb) = DefinerReach(table, verb)
    BY <1>4 DEF Documented
  <2>. QED  BY <1>4, <2>1, DefinerDocumented
<1>. QED  BY <1>1, <1>2, <1>3, <1>4, UsageOf

(* No policy but those of nc3_auth and its lookups opens credentials, and    *)
(* none opens an audit event but to append.                                  *)
LEMMA ClosedRows ==
  ASSUME NEW n \in 4 .. 9, NEW r \in UsageAt(n), NEW table \in TablesAt(n), NEW verb \in Verb
  PROVE  /\ table \in Credentials /\ r # "nc3_auth" => Arms(n, r, table, verb) \subseteq DefinerReach(table, verb)
         /\ table = "audit_event" /\ verb # "INSERT" => Arms(n, r, table, verb) = {}
<1>1. /\ DOMAIN TenantArms = RowTables \ {"statement", "audit_event"}
      /\ RowTables \cap Credentials = {} /\ {"statement", "audit_event"} \subseteq RowTables
  BY TablesNamed DEF TenantArms, RowTables
<1>2. CASE r = "nc3_app"
  BY <1>1, <1>2, AppArms
<1>3. CASE r = "app_platform"
  <2>1. table \in Credentials => PlatformReach(table, verb) = {}
    BY DEF PlatformReach, Credentials
  <2>2. table = "audit_event" /\ verb # "INSERT" => PlatformReach(table, verb) = {}
    BY DEF PlatformReach
  <2>. QED  BY <1>3, <2>1, <2>2, PlatformArms
<1>4. CASE n >= 5 /\ r = "nc3_auth"
  <2>1. "audit_event" \notin RegistrationTables \cup UserNames(n)
    BY DEF RegistrationTables, UserNames, AuthNames, MfaNames
  <2>. QED  BY <1>4, <2>1, AuthArms
<1>5. CASE n >= 5 /\ r = "nc3_auth_definer"
  <2>1. table = "audit_event" => DefinerReach(table, verb) = {}
    BY DEF DefinerReach
  <2>. QED  BY <1>5, <2>1, DefinerArms
<1>. QED  BY <1>2, <1>3, <1>4, <1>5, UsageOf

(* From 0d5679b5500d on, each role reaches what docs/database-roles.md gives *)
(* it, by grant and policy together, and nothing else; and no grant to       *)
(* PUBLIC opens credentials or what an audit event says.                     *)
THEOREM ReachAlwaysDocumented == MigrationSpec => []ReachAsDocumented
<1>1. MigrInv => ReachAsDocumented
  <2>. SUFFICES ASSUME MigrInv, NEW d \in Database, NEW r \in Role,
                       revision[d] >= 4, r \in RolesOf(5) => revision[d] >= 5,
                       NEW table \in image[d].tables, NEW verb \in Verb
                PROVE  LET reach == Reach(d, r, Admitted(d, r), table, verb)
                       IN  /\ Documented(r, table, verb) \subseteq reach
                           /\ public[d] = {} => reach \subseteq Documented(r, table, verb)
                           /\ table \in Credentials /\ r # "nc3_auth" => reach \subseteq DefinerReach(table, verb)
                           /\ table = "audit_event" /\ verb # "INSERT" => reach = {}
    BY DEF ReachAsDocumented
  <2>. DEFINE n == revision[d]
  <2>1. n \in 4 .. 9
    BY DEF MigrInv, Versioned
  <2>2. r \in UsageAt(n)
    BY <2>1, UsageOf DEF Role, RolesOf
  <2>3. table \in TablesAt(n)
    BY DEF MigrInv, Versioned, Stage
  <2>. HIDE DEF n
  <2>4. Documented(r, table, verb) =
          IF Granted(n, r, table, verb) THEN Arms(n, r, table, verb) ELSE {}
    BY <2>1, <2>2, <2>3, DocumentedArms
  <2>5. Reach(d, r, Admitted(d, r), table, verb) =
          IF Granted(n, r, table, verb) \/ <<table, verb>> \in public[d]
          THEN Arms(n, r, table, verb) ELSE {}
    BY <2>2, <2>3, ReachOf DEF n
  <2>6. /\ table \in Credentials /\ r # "nc3_auth" => Arms(n, r, table, verb) \subseteq DefinerReach(table, verb)
        /\ table = "audit_event" /\ verb # "INSERT" => Arms(n, r, table, verb) = {}
    BY <2>1, <2>2, <2>3, ClosedRows
  <2>. QED  BY <2>4, <2>5, <2>6
<1>. QED  BY <1>1, MigrationsInvariant, PTL

-----------------------------------------------------------------------------
(* No step of a revision raises on the image of the revision before it.     *)

(* Foreign keys that name tables of the list before their own, or tables of *)
(* a base; and a list that names each table once.                           *)
Backward(tables, base) ==
  \A i \in DOMAIN tables : tables[i][2] \subseteq base \cup {tables[j][1] : j \in 1 .. i}

Once(tables) == \A i, j \in DOMAIN tables : tables[i][1] = tables[j][1] => i = j

LEMMA Joined ==
  ASSUME NEW S, NEW s \in Seq(S), NEW t \in Seq(S)
  PROVE  /\ \A i \in DOMAIN (s \o t) :
              IF i \in DOMAIN s THEN (s \o t)[i] = s[i]
              ELSE i - Len(s) \in DOMAIN t /\ (s \o t)[i] = t[i - Len(s)]
         /\ \A i \in DOMAIN s : i \in DOMAIN (s \o t) /\ (s \o t)[i] = s[i]
         /\ \A i \in DOMAIN t : i + Len(s) \in DOMAIN (s \o t) /\ (s \o t)[i + Len(s)] = t[i]
OBVIOUS

LEMMA BackwardJoined ==
  ASSUME NEW S, NEW s \in Seq(S), NEW t \in Seq(S), NEW base,
         Backward(s, base), Backward(t, base \cup Names(s))
  PROVE  Backward(s \o t, base)
<1>. DEFINE u == s \o t
<1>1. Len(s) \in Nat /\ Len(t) \in Nat /\ DOMAIN s = 1 .. Len(s) /\ DOMAIN t = 1 .. Len(t)
  OBVIOUS
<1>2. /\ \A i \in DOMAIN u : IF i \in DOMAIN s THEN u[i] = s[i]
                             ELSE i - Len(s) \in DOMAIN t /\ u[i] = t[i - Len(s)]
      /\ \A i \in DOMAIN s : i \in DOMAIN u /\ u[i] = s[i]
      /\ \A i \in DOMAIN t : i + Len(s) \in DOMAIN u /\ u[i + Len(s)] = t[i]
      /\ DOMAIN u = 1 .. (Len(s) + Len(t))
  BY Joined
<1>. HIDE DEF u
<1>3. ASSUME NEW i \in DOMAIN s
      PROVE  u[i][2] \subseteq base \cup {u[j][1] : j \in 1 .. i}
  <2>1. u[i] = s[i] /\ \A j \in 1 .. i : u[j] = s[j]
    BY <1>1, <1>2
  <2>. QED  BY <2>1 DEF Backward
<1>4. ASSUME NEW i \in DOMAIN t
      PROVE  t[i][2] \subseteq base \cup {u[j][1] : j \in 1 .. (i + Len(s))}
  <2>1. t[i][2] \subseteq base \cup Names(s) \cup {t[j][1] : j \in 1 .. i}
    BY DEF Backward
  <2>2. ASSUME NEW j \in 1 .. i
        PROVE  j + Len(s) \in 1 .. (i + Len(s)) /\ u[j + Len(s)] = t[j]
    <3>1. j \in DOMAIN t /\ j + Len(s) \in 1 .. (i + Len(s))
      BY <1>1
    <3>. QED  BY <1>2, <3>1
  <2>3. \A j \in DOMAIN s : j \in 1 .. (i + Len(s)) /\ u[j] = s[j]
    BY <1>1, <1>2
  <2>4. \A j \in 1 .. i : t[j][1] \in {u[k][1] : k \in 1 .. (i + Len(s))}
    BY <2>2
  <2>5. Names(s) \subseteq {u[k][1] : k \in 1 .. (i + Len(s))}
    BY <2>3 DEF Names
  <2>. QED  BY <2>1, <2>4, <2>5
<1>5. ASSUME NEW i \in DOMAIN u
      PROVE  u[i][2] \subseteq base \cup {u[j][1] : j \in 1 .. i}
  <2>1. CASE i \in DOMAIN s
    BY <1>3, <2>1
  <2>2. CASE i \notin DOMAIN s
    <3>. DEFINE k == i - Len(s)
    <3>1. k \in DOMAIN t /\ u[i] = t[k] /\ k + Len(s) = i
      BY <1>1, <1>2, <2>2
    <3>. HIDE DEF k
    <3>. QED  BY <1>4, <3>1
  <2>. QED  BY <2>1, <2>2
<1>6. Backward(u, base)
  BY <1>5 DEF Backward
<1>. QED  BY <1>6 DEF u

LEMMA OnceJoined ==
  ASSUME NEW S, NEW s \in Seq(S), NEW t \in Seq(S), Once(s), Once(t), Names(s) \cap Names(t) = {}
  PROVE  Once(s \o t)
<1>. DEFINE u == s \o t
<1>1. Len(s) \in Nat /\ Len(t) \in Nat /\ DOMAIN s = 1 .. Len(s) /\ DOMAIN t = 1 .. Len(t)
  OBVIOUS
<1>2. /\ \A i \in DOMAIN u : IF i \in DOMAIN s THEN u[i] = s[i]
                             ELSE i - Len(s) \in DOMAIN t /\ u[i] = t[i - Len(s)]
      /\ DOMAIN u = 1 .. (Len(s) + Len(t))
  BY Joined
<1>. HIDE DEF u
<1>3. \A i \in DOMAIN s, j \in DOMAIN t : s[i][1] # t[j][1]
  BY DEF Names
<1>4. ASSUME NEW i \in DOMAIN u, NEW j \in DOMAIN u, u[i][1] = u[j][1]
      PROVE  i = j
  <2>1. CASE i \in DOMAIN s /\ j \in DOMAIN s
    BY <1>2, <1>4, <2>1 DEF Once
  <2>2. CASE i \notin DOMAIN s /\ j \notin DOMAIN s
    <3>1. i - Len(s) = j - Len(s)
      BY <1>2, <1>4, <2>2 DEF Once
    <3>. QED  BY <1>1, <1>2, <3>1
  <2>3. CASE i \in DOMAIN s /\ j \notin DOMAIN s
    BY <1>2, <1>3, <1>4, <2>3
  <2>4. CASE i \notin DOMAIN s /\ j \in DOMAIN s
    BY <1>2, <1>3, <1>4, <2>4
  <2>. QED  BY <2>1, <2>2, <2>3, <2>4
<1>5. Once(u)
  BY <1>4 DEF Once
<1>. QED  BY <1>5 DEF u

LEMMA PartsOrdered ==
  /\ Once(AccountTables) /\ Once(AssetTables) /\ Once(JobTables) /\ Once(ScanTables)
  /\ Backward(AccountTables, {})
  /\ Backward(AssetTables, Names(AccountTables))
  /\ Backward(JobTables, Names(AccountTables) \cup Names(AssetTables))
  /\ Backward(ScanTables, Names(AccountTables) \cup Names(AssetTables) \cup Names(JobTables))
<1>1. Once(AccountTables) /\ Once(JobTables) /\ Once(ScanTables)
  BY DEF Once, AccountTables, JobTables, ScanTables
<1>2. Once(AssetTables)
  BY DEF Once, AssetTables
<1>3. Backward(AccountTables, {})
  <2>1. DOMAIN AccountTables = 1 .. 7
    BY DEF AccountTables
  <2>2. /\ AccountTables[1] = <<"organization", {}>> /\ AccountTables[2] = <<"statement", {}>>
        /\ AccountTables[3] = <<"app_user", {"organization"}>>
        /\ AccountTables[4] = <<"audit_event", {"organization"}>>
        /\ AccountTables[5] = <<"statement_response", {"organization", "statement"}>>
        /\ AccountTables[6] = <<"api_key", {"organization", "app_user"}>>
        /\ AccountTables[7] = <<"asset", {"organization", "app_user", "asset"}>>
    BY DEF AccountTables
  <2>. DEFINE before(i) == {AccountTables[j][1] : j \in 1 .. i}
  <2>3. \A i \in 1 .. 7 : AccountTables[i][1] \in before(i)
    OBVIOUS
  <2>4. \A i \in 1 .. 7 : "organization" \in before(i)
    BY <2>2
  <2>5. "statement" \in before(5) /\ "app_user" \in before(6) /\ "app_user" \in before(7)
    BY <2>2
  <2>. HIDE DEF before
  <2>6. \A i \in 1 .. 7 : AccountTables[i][2] \subseteq before(i)
    BY <2>2, <2>3, <2>4, <2>5
  <2>. QED  BY <2>1, <2>6 DEF Backward, before
<1>4. Backward(AssetTables, Names(AccountTables))
  <2>1. \A i \in DOMAIN AssetTables : AssetTables[i][2] \subseteq {"organization", "app_user", "asset"}
    BY DEF AssetTables
  <2>. QED  BY <2>1, AccountNames DEF Backward
<1>5. Backward(JobTables, Names(AccountTables) \cup Names(AssetTables))
  <2>1. DOMAIN JobTables = 1 .. 3
    BY DEF JobTables
  <2>2. /\ JobTables[1] = <<"schedule", {"organization", "app_user", "asset"}>>
        /\ JobTables[2] = <<"scan_job", {"organization", "app_user", "asset", "api_key", "file_upload", "schedule"}>>
        /\ JobTables[3] = <<"key_envelope", {"organization", "app_user", "scan_job"}>>
    BY DEF JobTables
  <2>. DEFINE before(i) == {JobTables[j][1] : j \in 1 .. i}
  <2>3. "schedule" \in before(2) /\ "scan_job" \in before(3)
    BY <2>2
  <2>4. {"organization", "app_user", "asset", "api_key", "file_upload"}
          \subseteq Names(AccountTables) \cup Names(AssetTables)
    BY AccountNames, AssetNames
  <2>. HIDE DEF before
  <2>5. \A i \in 1 .. 3 : JobTables[i][2] \subseteq Names(AccountTables) \cup Names(AssetTables) \cup before(i)
    BY <2>2, <2>3, <2>4
  <2>. QED  BY <2>1, <2>5 DEF Backward, before
<1>6. Backward(ScanTables, Names(AccountTables) \cup Names(AssetTables) \cup Names(JobTables))
  <2>1. DOMAIN ScanTables = 1 .. 3
    BY DEF ScanTables
  <2>2. /\ ScanTables[1] = <<"scan_task", {"organization", "asset", "file_upload", "scan_job", "scan_task"}>>
        /\ ScanTables[2] = <<"scan_result", {"organization", "scan_task"}>>
        /\ ScanTables[3] = <<"finding", {"organization", "scan_result"}>>
    BY DEF ScanTables
  <2>. DEFINE before(i) == {ScanTables[j][1] : j \in 1 .. i}
              base == Names(AccountTables) \cup Names(AssetTables) \cup Names(JobTables)
  <2>3. "scan_task" \in before(1) /\ "scan_task" \in before(2) /\ "scan_result" \in before(3)
    BY <2>2
  <2>4. {"organization", "asset", "file_upload", "scan_job"} \subseteq base
    BY AccountNames, AssetNames, JobNames
  <2>. HIDE DEF before, base
  <2>5. \A i \in 1 .. 3 : ScanTables[i][2] \subseteq base \cup before(i)
    BY <2>2, <2>3, <2>4
  <2>. QED  BY <2>1, <2>5 DEF Backward, before, base
<1>. QED  BY <1>1, <1>2, <1>3, <1>4, <1>5, <1>6

LEMMA InitialOrdered == Backward(InitialTables, {}) /\ Once(InitialTables)
<1>. DEFINE two == AccountTables \o AssetTables
            three == two \o JobTables
<1>1. two \in Seq(Rows) /\ three \in Seq(Rows)
  BY TablesTyped
<1>2. Names(two) = Names(AccountTables) \cup Names(AssetTables)
  BY TablesTyped, NamesJoined
<1>3. Backward(two, {}) /\ Once(two)
  <2>1. {} \cup Names(AccountTables) = Names(AccountTables)
    OBVIOUS
  <2>2. Backward(two, {})
    BY <2>1, TablesTyped, PartsOrdered, BackwardJoined
  <2>3. Names(AccountTables) \cap Names(AssetTables) = {}
    BY AccountNames, AssetNames
  <2>4. Once(two)
    BY <2>3, TablesTyped, PartsOrdered, OnceJoined
  <2>. QED  BY <2>2, <2>4
<1>4. InitialTables = three \o ScanTables /\ three = two \o JobTables
  BY DEF InitialTables
<1>. HIDE DEF two, three
<1>5. Names(three) = Names(two) \cup Names(JobTables)
  BY <1>1, <1>4, TablesTyped, NamesJoined
<1>6. Backward(three, {}) /\ Once(three)
  <2>1. Backward(JobTables, {} \cup Names(two)) /\ Names(two) \cap Names(JobTables) = {}
    <3>1. {} \cup Names(two) = Names(AccountTables) \cup Names(AssetTables)
      BY <1>2
    <3>. QED  BY <1>2, <3>1, PartsOrdered, AccountNames, AssetNames, JobNames
  <2>2. Backward(three, {})
    BY <1>1, <1>3, <1>4, <2>1, TablesTyped, BackwardJoined
  <2>3. Once(three)
    BY <1>1, <1>3, <1>4, <2>1, TablesTyped, PartsOrdered, OnceJoined
  <2>. QED  BY <2>2, <2>3
<1>7. Backward(ScanTables, {} \cup Names(three)) /\ Names(three) \cap Names(ScanTables) = {}
  <2>1. {} \cup Names(three) = Names(AccountTables) \cup Names(AssetTables) \cup Names(JobTables)
    BY <1>2, <1>5
  <2>. QED  BY <1>2, <1>5, <2>1, PartsOrdered, AccountNames, AssetNames, JobNames, ScanNames
<1>8. Backward(InitialTables, {})
  BY <1>1, <1>4, <1>6, <1>7, TablesTyped, BackwardJoined
<1>9. Once(InitialTables)
  BY <1>1, <1>4, <1>6, <1>7, TablesTyped, PartsOrdered, OnceJoined
<1>. QED  BY <1>8, <1>9

(* What was created in an order can be dropped in the order reversed.        *)
LEMMA DroppableReversed ==
  ASSUME NEW S, NEW t \in Seq(S), Backward(t, {}), Once(t),
         NEW i, Names(t) \subseteq i.tables,
         \A key \in i.keys : key[2] \in Names(t) => key \in Keys(t)
  PROVE  Droppable(i, Reversed(t))
<1>1. Len(t) \in Nat /\ DOMAIN t = 1 .. Len(t) /\ DOMAIN Reversed(t) = 1 .. Len(t)
  BY DEF Reversed
<1>2. \A k \in 1 .. Len(t) : Reversed(t)[k] = t[Len(t) + 1 - k] /\ Len(t) + 1 - k \in 1 .. Len(t)
  BY <1>1 DEF Reversed
<1>3. ASSUME NEW k \in 1 .. Len(t), NEW key \in i.keys, key[2] = Reversed(t)[k][1]
      PROVE  key[1] \in {Reversed(t)[j][1] : j \in 1 .. k}
  <2>. DEFINE l == Len(t) + 1 - k
  <2>1. l \in 1 .. Len(t) /\ key[2] = t[l][1]
    BY <1>2, <1>3
  <2>. HIDE DEF l
  <2>2. key \in Keys(t)
    BY <1>1, <2>1 DEF Names
  <2>3. PICK m \in DOMAIN t : key[1] = t[m][1] /\ key[2] \in t[m][2]
    BY <2>2, KeysOfNames
  <2>4. PICK j \in 1 .. m : key[2] = t[j][1]
    <3>1. t[m][2] \subseteq {} \cup {t[j][1] : j \in 1 .. m}
      BY <2>3 DEF Backward
    <3>. QED  BY <2>3, <3>1
  <2>5. j = l
    <3>1. j \in DOMAIN t /\ l \in DOMAIN t
      BY <1>1, <2>1, <2>3
    <3>2. t[j][1] = t[l][1]
      BY <2>1, <2>4
    <3>. QED  BY <3>1, <3>2 DEF Once
  <2>. DEFINE q == Len(t) + 1 - m
  <2>6. q \in 1 .. k /\ q \in 1 .. Len(t) /\ Len(t) + 1 - q = m
    BY <1>1, <2>3, <2>4, <2>5 DEF l
  <2>. HIDE DEF q
  <2>7. Reversed(t)[q][1] = key[1]
    BY <1>2, <2>3, <2>6
  <2>. QED  BY <2>6, <2>7
<1>4. \A k \in 1 .. Len(t) : Reversed(t)[k][1] \in i.tables
  BY <1>1, <1>2 DEF Names
<1>. QED  BY <1>1, <1>3, <1>4 DEF Droppable

(* The gates: nobody holds what a revision forbids.                          *)
LEMMA HoldsNone ==
  ASSUME NEW n, NEW r, NEW P, \A p \in P : ~Granted(n, r, p[1], p[2])
  PROVE  ~HoldsAny(Stage(n), {}, r, P)
<1>1. Stage(n).grants = GrantsAt(n)
  BY DEF Stage
<1>. QED  BY <1>1 DEF HoldsAny, Held, Granted

LEMMA HoldsEither ==
  ASSUME NEW n, NEW r, NEW P, NEW Q,
         ~HoldsAny(Stage(n), {}, r, P), ~HoldsAny(Stage(n), {}, r, Q)
  PROVE  ~HoldsAny(Stage(n), {}, r, P \cup Q)
BY DEF HoldsAny

LEMMA HoldsOn ==
  ASSUME NEW n, NEW r, NEW tables, NEW verbs,
         \A table \in tables, verb \in verbs : ~Granted(n, r, table, verb)
  PROVE  ~HoldsAny(Stage(n), {}, r, On(tables, verbs))
<1>1. \A p \in On(tables, verbs) : p[1] \in tables /\ p[2] \in verbs
  BY DEF On
<1>. QED  BY <1>1, HoldsNone

LEMMA VersionClosed ==
  ASSUME NEW n \in 3 .. 9, NEW r
  PROVE  ~HoldsAny(Stage(n), {}, r, VersionTable \cup {CreateInSchema})
<1>1. \A grant \in GrantsAt(n) : grant[2] \in RowTables \cup AuthNames \cup MfaNames
  BY GrantsOf, GrantRoles
<1>2. {"alembic_version", "public"} \cap (RowTables \cup AuthNames \cup MfaNames) = {}
  BY DEF RowTables, AuthNames, MfaNames
<1>3. \A p \in VersionTable \cup {CreateInSchema} : p[1] \in {"alembic_version", "public"}
  BY DEF VersionTable, CreateInSchema, On
<1>4. \A table, verb : Granted(n, r, table, verb) => table \notin {"alembic_version", "public"}
  BY <1>1, <1>2 DEF Granted
<1>. QED  BY <1>3, <1>4, HoldsNone

LEMMA AppGateOpen == ~AppGate(Stage(3), {})
<1>1. \A table \in {"statement_response", "audit_event"}, verb \in {"UPDATE", "DELETE"} :
        ~Granted(3, "nc3_app", table, verb)
  BY AppGranted DEF Verb
<1>2. ~HoldsAny(Stage(3), {}, "nc3_app", AppendOnly)
  BY <1>1, HoldsOn DEF AppendOnly
<1>3. ~HoldsAny(Stage(3), {}, "nc3_app", AppendOnly \cup (VersionTable \cup {CreateInSchema}))
  BY <1>2, VersionClosed, HoldsEither
<1>4. AppendOnly \cup (VersionTable \cup {CreateInSchema}) = AppendOnly \cup VersionTable \cup {CreateInSchema}
  OBVIOUS
<1>. QED  BY <1>3, <1>4 DEF AppGate

LEMMA PlatformGateOpen == ~PlatformGate(Stage(4), {})
<1>. DEFINE r == "app_platform"
            P1 == On({"organization", "key_envelope"}, Verb \ {"SELECT"})
            P2 == On({"api_key"}, Verb)
            P3 == On(DutyTables, {"DELETE"})
            P4 == On({"audit_event"}, {"UPDATE", "DELETE"})
            P5 == VersionTable \cup {CreateInSchema}
<1>1. \A table : \A verb \in Verb :
        Granted(4, r, table, verb) => \/ table \in DutyTables /\ verb # "DELETE"
                                      \/ table = "audit_event" /\ verb = "INSERT"
  BY PlatformGranted
<1>2. ~HoldsAny(Stage(4), {}, r, P1) /\ ~HoldsAny(Stage(4), {}, r, P2)
  <2>1. {"organization", "key_envelope", "api_key"} \cap (DutyTables \cup {"audit_event"}) = {}
    BY DEF DutyTables
  <2>2. \A table \in {"organization", "key_envelope", "api_key"}, verb \in Verb : ~Granted(4, r, table, verb)
    BY <1>1, <2>1
  <2>. QED  BY <2>2, HoldsOn
<1>3. ~HoldsAny(Stage(4), {}, r, P3) /\ ~HoldsAny(Stage(4), {}, r, P4)
  <2>1. "audit_event" \notin DutyTables /\ {"UPDATE", "DELETE"} \subseteq Verb
    BY DEF DutyTables, Verb
  <2>2. \A table \in DutyTables : ~Granted(4, r, table, "DELETE")
    BY <1>1, <2>1
  <2>3. \A verb \in {"UPDATE", "DELETE"} : ~Granted(4, r, "audit_event", verb)
    BY <1>1, <2>1
  <2>. QED  BY <2>2, <2>3, HoldsOn
<1>4. ~HoldsAny(Stage(4), {}, r, P5)
  BY VersionClosed
<1>. HIDE DEF P1, P2, P3, P4, P5
<1>5. ~HoldsAny(Stage(4), {}, r, P1 \cup P2 \cup P3 \cup P4 \cup P5)
  BY <1>2, <1>3, <1>4, HoldsEither
<1>6. P1 \cup P2 \cup P3 \cup P4 \cup VersionTable \cup {CreateInSchema} = P1 \cup P2 \cup P3 \cup P4 \cup P5
  BY DEF P5
<1>. QED  BY <1>5, <1>6 DEF PlatformGate, P1, P2, P3, P4

LEMMA AuthGateOpen == ~AuthGate(Stage(5), {})
<1>. DEFINE r == "nc3_auth"
            P1 == On({"scan_job", "asset", "api_key", "audit_event"}, Verb)
            P2 == On(Names(AuthTables), {"DELETE"})
            P3 == On({"organization", "app_user"}, {"UPDATE", "DELETE"})
            P4 == On({"statement"}, Verb \ {"SELECT"})
            P5 == VersionTable \cup {CreateInSchema}
<1>1. \A table : \A verb \in Verb :
        Granted(5, r, table, verb) => \/ table \in AuthNames /\ verb # "DELETE"
                                      \/ table \in RegistrationTables /\ verb \in {"SELECT", "INSERT"}
                                      \/ table = "statement" /\ verb = "SELECT"
  BY AuthGranted DEF UserNames
<1>2. AuthNames \cap (RegistrationTables \cup {"statement"}) = {} /\ {"UPDATE", "DELETE"} \subseteq Verb
  BY DEF AuthNames, RegistrationTables, Verb
<1>3. ~HoldsAny(Stage(5), {}, r, P1)
  <2>1. {"scan_job", "asset", "api_key", "audit_event"} \cap (AuthNames \cup RegistrationTables \cup {"statement"}) = {}
    BY DEF AuthNames, RegistrationTables
  <2>2. \A table \in {"scan_job", "asset", "api_key", "audit_event"}, verb \in Verb : ~Granted(5, r, table, verb)
    BY <1>1, <2>1
  <2>. QED  BY <2>2, HoldsOn
<1>4. ~HoldsAny(Stage(5), {}, r, P2)
  <2>1. \A table \in AuthNames : ~Granted(5, r, table, "DELETE")
    BY <1>1, <1>2
  <2>. QED  BY <2>1, LaterNames, HoldsOn
<1>5. ~HoldsAny(Stage(5), {}, r, P3) /\ ~HoldsAny(Stage(5), {}, r, P4)
  <2>1. "organization" \notin AuthNames /\ "app_user" \notin AuthNames /\ "statement" \notin AuthNames \cup RegistrationTables
    BY DEF AuthNames, RegistrationTables
  <2>2. \A table \in {"organization", "app_user"}, verb \in {"UPDATE", "DELETE"} : ~Granted(5, r, table, verb)
    BY <1>1, <1>2, <2>1
  <2>3. \A verb \in Verb \ {"SELECT"} : ~Granted(5, r, "statement", verb)
    BY <1>1, <2>1
  <2>. QED  BY <2>2, <2>3, HoldsOn
<1>6. ~HoldsAny(Stage(5), {}, r, P5)
  BY VersionClosed
<1>. HIDE DEF P1, P2, P3, P4, P5
<1>7. ~HoldsAny(Stage(5), {}, r, P1 \cup P2 \cup P3 \cup P4 \cup P5)
  BY <1>3, <1>4, <1>5, <1>6, HoldsEither
<1>8. P1 \cup P2 \cup P3 \cup P4 \cup VersionTable \cup {CreateInSchema} = P1 \cup P2 \cup P3 \cup P4 \cup P5
  BY DEF P5
<1>. QED  BY <1>7, <1>8 DEF AuthGate, P1, P2, P3, P4

LEMMA DefinerGateOpen == ~DefinerGate(Stage(5), {})
<1>. DEFINE r == "nc3_auth_definer"
            P1 == On(LookupTables, Verb \ {"SELECT"})
            P2 == On({"key_envelope"}, Verb)
            P3 == VersionTable \cup {CreateInSchema}
<1>1. \A table : \A verb \in Verb : Granted(5, r, table, verb) => table \in LookupTables /\ verb = "SELECT"
  BY DefinerGranted
<1>2. ~HoldsAny(Stage(5), {}, r, P1)
  <2>1. \A table \in LookupTables, verb \in Verb \ {"SELECT"} : ~Granted(5, r, table, verb)
    BY <1>1
  <2>. QED  BY <2>1, HoldsOn
<1>3. ~HoldsAny(Stage(5), {}, r, P2)
  <2>1. "key_envelope" \notin LookupTables
    BY DEF LookupTables
  <2>2. \A table \in {"key_envelope"}, verb \in Verb : ~Granted(5, r, table, verb)
    BY <1>1, <2>1
  <2>. QED  BY <2>2, HoldsOn
<1>4. ~HoldsAny(Stage(5), {}, r, P3)
  BY VersionClosed
<1>. HIDE DEF P1, P2, P3
<1>5. ~HoldsAny(Stage(5), {}, r, P1 \cup P2 \cup P3)
  BY <1>2, <1>3, <1>4, HoldsEither
<1>6. P1 \cup P2 \cup VersionTable \cup {CreateInSchema} = P1 \cup P2 \cup P3
  BY DEF P3
<1>. QED  BY <1>5, <1>6 DEF DefinerGate, P1, P2

LEMMA MfaGateOpen == ~MfaGate(Stage(8), {})
<1>1. MfaNames \cap (RowTables \cup AuthNames) = {}
  BY ApartNames
<1>2. \A grant \in GrantsAt(8) : grant[2] \in MfaNames => grant \in MfaGrants
  BY <1>1, GrantsOf, GrantRoles
<1>3. \A r, verb : \A table \in MfaNames :
        Granted(8, r, table, verb) => r = "nc3_auth" /\ <<r, table, verb>> \in MfaGrants
  BY <1>2, GrantRoles DEF Granted
<1>4. \A r, table : <<r, table, "DELETE">> \notin MfaGrants
  BY ToOn DEF MfaGrants
<1>5. ~HoldsAny(Stage(8), {}, "nc3_auth", On(MfaNames, {"DELETE"}))
  BY <1>3, <1>4, HoldsOn
<1>6. ASSUME NEW r \in Role \ {"nc3_auth"}
      PROVE  ~HoldsAny(Stage(8), {}, r, On(MfaNames, Verb))
  BY <1>3, HoldsOn
<1>. QED  BY <1>5, <1>6, LaterNames DEF MfaGate

(* Every table is secured and has a policy.                                  *)
LEMMA PolicyOnEach ==
  ASSUME NEW n \in 4 .. 9, NEW table \in TablesAt(n)
  PROVE  \E p \in PoliciesAt(n) : p.on = table
<1>1. "nc3_app" \in OpenedAt(n)
  BY DEF OpenedAt, RegistrationRoles
<1>2. DOMAIN TenantArms = RowTables \ {"statement", "audit_event"} /\ "INSERT" \in Verb
  BY DEF TenantArms, Verb
<1>3. CASE table \in DOMAIN TenantArms
  <2>1. \E p \in TenantRows(OpenedAt(n)) : Applies(p, "nc3_app", table, "INSERT")
    BY <1>1, <1>2, <1>3, TenantSome
  <2>. QED  BY <2>1, PoliciesFrom4 DEF Applies
<1>4. CASE table = "statement"
  <2>1. ReferenceRead(OpenedAt(n)).on = "statement"
    BY DEF ReferenceRead, Policy
  <2>. QED  BY <1>4, <2>1, PoliciesFrom4
<1>5. CASE table = "audit_event"
  <2>1. \E p \in AuditAppends : Applies(p, "nc3_app", "audit_event", "INSERT")
    BY AuditSome
  <2>. QED  BY <1>5, <2>1, PoliciesFrom4 DEF Applies
<1>6. CASE table \in UserNames(n)
  <2>1. \E p \in OwnRows(UserNames(n)) : Applies(p, "nc3_auth", table, "INSERT")
    BY <1>2, <1>6, OwnSome
  <2>. QED  BY <2>1, PoliciesFrom4 DEF Applies
<1>7. table \in RowTables \cup UserNames(n)
  BY DEF TablesAt, UserNames
<1>. QED  BY <1>2, <1>3, <1>4, <1>5, <1>6, <1>7

LEMMA AllClassified ==
  ASSUME NEW n \in 4 .. 9
  PROVE  Unclassified(Stage(n)) = {}
<1>1. /\ Stage(n).tables = TablesAt(n) /\ Stage(n).enabled = TablesAt(n)
      /\ Stage(n).forced = TablesAt(n) /\ Stage(n).policies = PoliciesAt(n)
  BY DEF Stage
<1>2. \A table \in TablesAt(n) : \E p \in PoliciesAt(n) : p.on = table
  BY PolicyOnEach
<1>. QED  BY <1>1, <1>2 DEF Unclassified

LEMMA RegistrationPolicies ==
  /\ HasPolicy(Stage(4), "tenant_rows", RegistrationTables)
  /\ HasPolicy(Stage(4), "reference_read", {"statement"})
<1>1. Stage(4).policies = RowPolicies({"nc3_app"})
  BY Stage4
<1>2. ASSUME NEW table \in RegistrationTables
      PROVE  \E p \in RowPolicies({"nc3_app"}) : p.name = "tenant_rows" /\ p.on = table
  <2>. DEFINE p == Policy("tenant_rows", table,
                          IF table \in RegistrationTables THEN {"nc3_app"} ELSE {"nc3_app"},
                          Verb, TenantArms[table])
  <2>1. table \in DOMAIN TenantArms
    BY DEF RegistrationTables, TenantArms, RowTables
  <2>2. p \in TenantRows({"nc3_app"})
    BY <2>1 DEF TenantRows
  <2>3. p.name = "tenant_rows" /\ p.on = table
    BY DEF Policy
  <2>. QED  BY <2>2, <2>3 DEF RowPolicies
<1>3. \E p \in RowPolicies({"nc3_app"}) : p.name = "reference_read" /\ p.on = "statement"
  <2>1. ReferenceRead({"nc3_app"}).name = "reference_read" /\ ReferenceRead({"nc3_app"}).on = "statement"
    BY DEF ReferenceRead, Policy
  <2>. QED  BY <2>1 DEF RowPolicies
<1>. QED  BY <1>1, <1>2, <1>3 DEF HasPolicy

(* No revision names the roles of a later one.                               *)
LEMMA RolesUnnamed ==
  ASSUME NEW n \in 1 .. 9, NEW r \in RolesOf(n)
  PROVE  ~NamesRole(Stage(n - 1), r)
<1>1. n \in {3, 4, 5}
  BY DEF RolesOf
<1>2. CASE n = 3
  BY <1>2, Stage2 DEF NamesRole
<1>3. CASE n = 4
  <2>1. r = "app_platform" /\ n - 1 = 3
    BY <1>3 DEF RolesOf
  <2>. QED  BY <2>1, Stage3, GrantRoles DEF NamesRole
<1>4. CASE n = 5
  <2>1. r \in {"nc3_auth", "nc3_auth_definer"} /\ n - 1 = 4
    BY <1>4 DEF RolesOf
  <2>2. ASSUME NEW p \in RowPolicies({"nc3_app"})
        PROVE  p.to \subseteq {"nc3_app", "app_platform"}
    <3>1. CASE p \in TenantRows({"nc3_app"})
      BY <3>1, TenantRowsParts
    <3>2. CASE p = ReferenceRead({"nc3_app"})
      BY <3>2 DEF ReferenceRead, Policy
    <3>3. CASE p \in AuditAppends \cup DutyPolicies
      BY <3>3, OtherParts
    <3>. QED  BY <3>1, <3>2, <3>3 DEF RowPolicies
  <2>3. \A grant \in AppGrants \cup PlatformGrants : grant[1] \in {"nc3_app", "app_platform"}
    BY GrantRoles
  <2>. QED  BY <2>1, <2>2, <2>3, Stage4 DEF NamesRole
<1>. QED  BY <1>1, <1>2, <1>3, <1>4

(* A database that names a role uses it.                                     *)
LEMMA NamedUsed ==
  ASSUME NEW n \in 0 .. 9, NEW r \in Role, NamesRole(Stage(n), r)
  PROVE  r \in Stage(n).usage
<1>1. CASE n \in 0 .. 2
  BY <1>1, Stage0, Stage1, Stage2 DEF NamesRole
<1>2. CASE n = 3
  BY <1>2, Stage3, GrantRoles DEF NamesRole
<1>3. CASE n = 4
  <2>1. r \in {"nc3_auth", "nc3_auth_definer"} => ~NamesRole(Stage(5 - 1), r)
    BY RolesUnnamed DEF RolesOf
  <2>. QED  BY <1>3, <2>1, Stage4 DEF Role
<1>4. CASE n \in 5 .. 9
  BY <1>4, UsageOf DEF Stage, Role
<1>. QED  BY <1>1, <1>2, <1>3, <1>4

LEMMA InitialGoes == ~InitialUpRefused(Stage(0)) /\ ~InitialDownRefused(Stage(1))
<1>1. Creatable(Stage(0), InitialTables)
  BY InitialOrdered, Stage0 DEF Creatable, Backward
<1>2. Droppable(Stage(1), Reversed(InitialTables))
  <2>1. Names(InitialTables) \subseteq Stage(1).tables /\ Stage(1).keys = Keys(InitialTables)
    BY Stage1, InitialNames
  <2>. QED  BY <2>1, TablesTyped, InitialOrdered, DroppableReversed
<1>. QED  BY <1>1, <1>2, Stage0 DEF InitialUpRefused, InitialDownRefused

LEMMA ChecksGo ==
  ASSUME NEW broken
  PROVE  /\ ChecksUpRefused(Stage(1), broken) => RowChecks \cap broken # {}
         /\ ~ChecksDownRefused(Stage(2))
BY Stage1, Stage2 DEF ChecksUpRefused, ChecksDownRefused

LEMMA AppGoes == ~AppUpRefused(Stage(2), {})
BY AppRound, AppGateOpen DEF AppUpRefused

LEMMA PoliciesGo == ~PoliciesUpRefused(Stage(3), {})
BY PoliciesRound, PlatformGateOpen, AllClassified, Stage3 DEF PoliciesUpRefused

(* The keys of the later tables point at tables of e7a2637c2e20.              *)
LEMMA KeysPoint ==
  \A key \in Keys(InitialTables) \cup Keys(AuthTables) \cup Keys(MfaTables) : key[2] \in RowTables
<1>1. ASSUME NEW t, NEW S, t \in Seq(S \X SUBSET RowTables), NEW key \in Keys(t)
      PROVE  key[2] \in RowTables
  <2>1. PICK i \in DOMAIN t : key[2] \in t[i][2]
    BY KeysOfNames
  <2>2. t[i] \in S \X SUBSET RowTables
    BY <1>1
  <2>. QED  BY <2>1, <2>2
<1>. QED  BY <1>1, TablesTyped DEF Rows, LaterRows

LEMMA LaterBackward ==
  ASSUME NEW base, "app_user" \in base
  PROVE  Backward(AuthTables, base) /\ Backward(MfaTables, base)
BY DEF Backward, AuthTables, MfaTables

LEMMA LaterCreatable ==
  ASSUME NEW i, RowTables \subseteq i.tables
  PROVE  /\ AuthNames \cap i.tables = {} => Creatable(i, AuthTables)
         /\ MfaNames \cap i.tables = {} => Creatable(i, MfaTables)
<1>1. "app_user" \in i.tables
  BY DEF RowTables
<1>2. \A k \in DOMAIN AuthTables : AuthTables[k][1] \in AuthNames
  BY LaterNames DEF Names
<1>3. \A k \in DOMAIN MfaTables : MfaTables[k][1] \in MfaNames
  BY LaterNames DEF Names
<1>. QED  BY <1>1, <1>2, <1>3, LaterBackward DEF Creatable, Backward

LEMMA LaterDroppable ==
  ASSUME NEW i, \A key \in i.keys : key[2] \in RowTables
  PROVE  /\ AuthNames \subseteq i.tables => Droppable(i, Reversed(AuthTables))
         /\ MfaNames \subseteq i.tables => Droppable(i, Reversed(MfaTables))
<1>1. ASSUME NEW k \in DOMAIN Reversed(AuthTables) PROVE Reversed(AuthTables)[k][1] \in AuthNames
  <2>1. Reversed(AuthTables)[k][1] \in Names(Reversed(AuthTables))
    BY DEF Names
  <2>. QED  BY <2>1, TablesTyped, NamesReversed, LaterNames
<1>2. ASSUME NEW k \in DOMAIN Reversed(MfaTables) PROVE Reversed(MfaTables)[k][1] \in MfaNames
  <2>1. Reversed(MfaTables)[k][1] \in Names(Reversed(MfaTables))
    BY DEF Names
  <2>. QED  BY <2>1, TablesTyped, NamesReversed, LaterNames
<1>3. RowTables \cap (AuthNames \cup MfaNames) = {}
  BY ApartNames
<1>. QED  BY <1>1, <1>2, <1>3 DEF Droppable

LEMMA AddedApart ==
  /\ EmailIndex \notin RowChecks /\ AssuranceColumn \notin RowChecks \cup {EmailIndex}
  /\ (ProofParts \cup {ProofTarget, ProofKey}) \cap (RowChecks \cup {EmailIndex, AssuranceColumn}) = {}
BY DEF EmailIndex, AssuranceColumn, RowChecks, ProofParts, ProofTarget, ProofKey

LEMMA AuthGoes ==
  ASSUME NEW broken
  PROVE  /\ AuthUpRefused(Stage(4), {}, broken) => EmailIndex \in broken
         /\ ~AuthDownRefused(Stage(5))
<1>1. Creatable(Stage(4), AuthTables)
  BY Stage4, ApartNames, LaterCreatable
<1>2. EmailIndex \notin Stage(4).added /\ Lookups \cap Stage(4).execute = {}
  BY Stage4, AddedApart
<1>3. AuthUpRefused(Stage(4), {}, broken) => EmailIndex \in broken
  BY <1>1, <1>2, AuthUpRound, RegistrationPolicies, AllClassified, AuthGateOpen, DefinerGateOpen
  DEF AuthUpRefused
<1>4. Droppable(Stage(5), Reversed(AuthTables))
  <2>1. \A key \in Stage(5).keys : key[2] \in RowTables
    BY Stage5, KeysPoint
  <2>. QED  BY <2>1, Stage5, LaterDroppable
<1>5. EmailIndex \in Stage(5).added
  BY Stage5
<1>. QED  BY <1>3, <1>4, <1>5 DEF AuthDownRefused

LEMMA SeedGoes == ~SeedUpRefused(Stage(5)) /\ ~SeedDownRefused({})
BY Stage5 DEF SeedUpRefused, SeedDownRefused, Keyed

LEMMA LegalGoes == ~LegalUpRefused(Stage(6)) /\ ~LegalDownRefused({})
<1>1. \A text \in SeedTexts : text.key \in {Terms, Attestation}
  BY DEF SeedTexts, Text
<1>2. Privacy \notin {Terms, Attestation}
  BY DEF Privacy, Terms, Attestation
<1>. QED  BY <1>1, <1>2, Stage6 DEF LegalUpRefused, LegalDownRefused, Keyed

LEMMA MfaGoes == ~MfaUpRefused(Stage(7), {}) /\ ~MfaDownRefused(Stage(8))
<1>1. Creatable(Stage(7), MfaTables)
  BY Stage7, ApartNames, LaterCreatable
<1>2. AssuranceColumn \notin Stage(7).added /\ "user_session" \in Stage(7).tables
  BY Stage7, AddedApart DEF AuthNames
<1>3. ~MfaUpRefused(Stage(7), {})
  BY <1>1, <1>2, MfaUpRound, AllClassified, MfaGateOpen DEF MfaUpRefused
<1>4. Droppable(Stage(8), Reversed(MfaTables))
  <2>1. \A key \in Stage(8).keys : key[2] \in RowTables
    BY Stage8, KeysPoint
  <2>. QED  BY <2>1, Stage8, LaterDroppable
<1>5. AssuranceColumn \in Stage(8).added
  BY Stage8
<1>. QED  BY <1>3, <1>4, <1>5 DEF MfaDownRefused

LEMMA ProofGoes ==
  ASSUME NEW broken
  PROVE  /\ ProofUpRefused(Stage(8), broken) => ProofValidated \cap broken # {}
         /\ ~ProofDownRefused(Stage(9))
BY Stage8, Stage9, AddedApart DEF ProofUpRefused, ProofDownRefused

LEMMA RevisionsApart ==
  /\ \A constraint \in RowChecks : RevisionOf(constraint) = 2
  /\ RevisionOf(EmailIndex) = 5
  /\ \A constraint \in ProofValidated : RevisionOf(constraint) = 9
<1>1. ProofValidated \cap (RowChecks \cup {EmailIndex}) = {}
  BY DEF ProofValidated, RowChecks, EmailIndex
<1>. QED  BY <1>1, AddedApart DEF RevisionOf

(* Left to itself, no revision raises: on the way up, without a grant to     *)
(* PUBLIC where it has a gate and without a row it does not accept; on the   *)
(* way down, without a receipt for the texts it takes away.                  *)
LEMMA RevisionsGo ==
  ASSUME NEW n \in 1 .. 9, NEW privileges, NEW broken, NEW attested
  PROVE  /\ /\ n \in GatedRevisions => privileges = {}
            /\ UpgradeRefused(n, Stage(n - 1), privileges, broken)
            => \E constraint \in broken : RevisionOf(constraint) = n
         /\ (n \in AttestedRevisions => attested = {}) => ~DowngradeRefused(n, Stage(n), attested)
<1>. USE DEF GatedRevisions, AttestedRevisions
<1>1. CASE n = 1
  BY <1>1, InitialGoes DEF UpgradeRefused, DowngradeRefused
<1>2. CASE n = 2
  BY <1>2, ChecksGo, RevisionsApart DEF UpgradeRefused, DowngradeRefused
<1>3. CASE n = 3
  BY <1>3, AppGoes DEF UpgradeRefused, DowngradeRefused
<1>4. CASE n = 4
  BY <1>4, PoliciesGo DEF UpgradeRefused, DowngradeRefused
<1>5. CASE n = 5
  BY <1>5, AuthGoes, RevisionsApart DEF UpgradeRefused, DowngradeRefused
<1>6. CASE n = 6
  BY <1>6, SeedGoes DEF UpgradeRefused, DowngradeRefused
<1>7. CASE n = 7
  BY <1>7, LegalGoes DEF UpgradeRefused, DowngradeRefused
<1>8. CASE n = 8
  BY <1>8, MfaGoes DEF UpgradeRefused, DowngradeRefused
<1>9. CASE n = 9
  BY <1>9, ProofGoes, RevisionsApart DEF UpgradeRefused, DowngradeRefused
<1>. QED  BY <1>1, <1>2, <1>3, <1>4, <1>5, <1>6, <1>7, <1>8, <1>9

LEMMA UpgradeExplained ==
  ASSUME MigrInv, NEW d \in Database, StepUp(d), work'[d] = NoCommand
  PROVE  UpgradeReason(d)
<1>. DEFINE n == Due(d)
<1>1. /\ Running(d) /\ n \in 1 .. 9 /\ n = work[d].at + 1
      /\ MembershipGate(d) \/ UpgradeRefused(n, Stage(work[d].at), work[d].public, unfit[d])
  BY StepUpEffect DEF MigrInv
<1>2. work[d].at = n - 1
  BY <1>1 DEF MigrInv, Versioned, IsCommand
<1>3. work[d].public \subseteq public[d]
  BY <1>1 DEF MigrInv, PublicHeld
<1>. HIDE DEF n
<1>4. CASE MembershipGate(d)
  BY <1>4 DEF MembershipGate, UpgradeReason
<1>5. CASE n \in GatedRevisions /\ work[d].public # {}
  BY <1>3, <1>5 DEF UpgradeReason, n
<1>6. CASE /\ n \in GatedRevisions => work[d].public = {}
           /\ UpgradeRefused(n, Stage(n - 1), work[d].public, unfit[d])
  <2>1. \E constraint \in unfit[d] : RevisionOf(constraint) = n
    BY <1>1, <1>6, RevisionsGo
  <2>. QED  BY <2>1 DEF UpgradeReason, n
<1>. QED  BY <1>1, <1>2, <1>4, <1>5, <1>6

LEMMA DowngradeExplained ==
  ASSUME MigrInv, NEW d \in Database, StepDown(d), work'[d] = NoCommand
  PROVE  DowngradeReason(d)
<1>. DEFINE n == Due(d)
<1>1. /\ n \in 1 .. 9 /\ n = work[d].at
      /\ DowngradeRefused(n, Stage(n), receipts[d]) \/ RoleNeeded(d, Stage(n - 1))
  BY StepDownEffect DEF MigrInv
<1>. HIDE DEF n
<1>2. CASE n \in AttestedRevisions /\ receipts[d] # {}
  BY <1>2 DEF DowngradeReason, n
<1>3. CASE /\ n \in AttestedRevisions => receipts[d] = {}
           /\ DowngradeRefused(n, Stage(n), receipts[d])
  BY <1>1, <1>3, RevisionsGo
<1>4. CASE RoleNeeded(d, Stage(n - 1))
  <2>1. PICK r \in RolesOf(n) : \/ NamesRole(Stage(n - 1), r)
                                \/ \E e \in Database \ {d} : NamesRole(image[e], r)
    BY <1>4 DEF RoleNeeded, n
  <2>2. ~NamesRole(Stage(n - 1), r)
    BY <1>1, RolesUnnamed
  <2>3. PICK e \in Database \ {d} : NamesRole(image[e], r)
    BY <2>1, <2>2
  <2>4. image[e] = Stage(revision[e]) /\ revision[e] \in 0 .. 9
    BY DEF MigrInv, Versioned
  <2>5. r \in Role
    BY <1>1, UsageStep
  <2>6. r \in image[e].usage
    BY <2>3, <2>4, <2>5, NamedUsed
  <2>. QED  BY <2>1, <2>6 DEF DowngradeReason, n
<1>. QED  BY <1>1, <1>2, <1>3, <1>4

(* A command of alembic is refused on the way up for a grant to PUBLIC, a    *)
(* membership, or rows that break a constraint of that very revision, and on *)
(* the way down for a receipt or another database's use of its role: without *)
(* one, the step goes through, however the database came to where it is.     *)
THEOREM RefusalAlwaysExplained == MigrationSpec => RefusalExplained
<1>1. MigrInv /\ [MigrationNext]_migrationVars =>
        [\A d \in Database : work'[d] = NoCommand =>
           /\ StepUp(d) => UpgradeReason(d)
           /\ StepDown(d) => DowngradeReason(d)]_migrationVars
  BY UpgradeExplained, DowngradeExplained
<1>. QED  BY <1>1, MigrationsInvariant, PTL DEF MigrationSpec, RefusalExplained
=============================================================================
