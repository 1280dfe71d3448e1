----------------------------- MODULE AuthOptions -----------------------------
(***************************************************************************)
(* What AuthOptions send to the identity service (auth_options.go, and     *)
(* tokens/requests.go of identity v3), and where they come from: the       *)
(* environment (auth_env.go) or clouds.yaml and its companions (clouds.go).*)
(*                                                                         *)
(* A set of settings is a function from the names that are not empty to    *)
(* their values.  The body of a login is a function from its methods to    *)
(* the names of the fields they send; no method at all is a refusal.  A    *)
(* system scope is "all": Parse refuses any other, the environment ignores *)
(* it.                                                                     *)
(***************************************************************************)
EXTENDS Naturals, Sequences

Has(o, f) == f \in DOMAIN o
HasNone(o, fs) == fs \cap DOMAIN o = {}
Nothing == [f \in {} |-> ""]
Setting(name, value) == [n \in {name} |-> value]

(* The first settings, and where they have none the others. *)
Over(first, others) ==
  [n \in DOMAIN first \cup DOMAIN others |-> IF n \in DOMAIN first THEN first[n] ELSE others[n]]

-----------------------------------------------------------------------------
(* ToTokenV3CreateMap. *)
User(o) == {"Username"} \cup (IF Has(o, "DomainID") THEN {"DomainID"} ELSE {"DomainName"})

(* Broken: two domains are as good as one. *)
PasswordUser_TwoDomains(o) ==
  CASE Has(o, "Username") /\ ~Has(o, "UserID") ->
         IF HasNone(o, {"DomainID", "DomainName"}) THEN {}
         ELSE {"Username"} \cup ({"DomainID", "DomainName"} \cap DOMAIN o)
    [] ~Has(o, "Username") /\ Has(o, "UserID") ->
         IF HasNone(o, {"DomainID", "DomainName"}) THEN {"UserID"} ELSE {}
    [] OTHER -> {}

(* The user of a password or a passcode, {} if there is none or no single one. *)
PasswordUser(o) ==
  CASE Has(o, "Username") /\ ~Has(o, "UserID") ->
         IF Has(o, "DomainID") = Has(o, "DomainName") THEN {} ELSE User(o)
    [] ~Has(o, "Username") /\ Has(o, "UserID") ->
         IF HasNone(o, {"DomainID", "DomainName"}) THEN {"UserID"} ELSE {}
    [] OTHER -> {}

(* That of a named application credential: a user id outranks what else is given. *)
CredentialUser(o) ==
  CASE Has(o, "UserID") -> {"UserID"}
    [] ~Has(o, "UserID") /\ Has(o, "Username") ->
         IF HasNone(o, {"DomainID", "DomainName"}) THEN {} ELSE User(o)
    [] OTHER -> {}

Method(name, fields) == IF fields = {} THEN Nothing ELSE Setting(name, fields)

PasswordMethods(o) ==
  LET secrets == {"Password", "Passcode"} \cap DOMAIN o
      user    == PasswordUser(o)
  IN  IF user = {} THEN Nothing
      ELSE [m \in {IF s = "Password" THEN "password" ELSE "totp" : s \in secrets} |->
              user \cup {IF m = "password" THEN "Password" ELSE "Passcode"}]

ToTokenV3CreateMap(o) ==
  CASE ~HasNone(o, {"Password", "Passcode"}) -> PasswordMethods(o)
    [] HasNone(o, {"Password", "Passcode"}) /\ Has(o, "TokenID") ->
         IF HasNone(o, {"Username", "UserID", "DomainID", "DomainName"})
         THEN Method("token", {"TokenID"}) ELSE Nothing
    [] HasNone(o, {"Password", "Passcode", "TokenID"}) /\ Has(o, "ApplicationCredentialID") ->
         IF Has(o, "ApplicationCredentialSecret")
         THEN Method("application_credential", {"ApplicationCredentialID", "ApplicationCredentialSecret"})
         ELSE Nothing
    [] HasNone(o, {"Password", "Passcode", "TokenID", "ApplicationCredentialID"})
         /\ Has(o, "ApplicationCredentialName") ->
         IF Has(o, "ApplicationCredentialSecret") /\ CredentialUser(o) # {}
         THEN Method("application_credential",
                     CredentialUser(o) \cup {"ApplicationCredentialName", "ApplicationCredentialSecret"})
         ELSE Nothing
    [] OTHER -> Nothing

CanReauth(o) == Has(o, "AllowReauth") /\ ~Has(o, "Passcode")

-----------------------------------------------------------------------------
(* ToTokenV3ScopeMap.  What becomes the Scope when it is nil. *)
Renamed(o, names) == [f \in {n \in DOMAIN names : Has(o, names[n])} |-> o[names[f]]]
DefaultScope(o) ==
  IF Has(o, "TenantID") THEN Setting("ProjectID", o["TenantID"])
  ELSE IF Has(o, "TenantName")
  THEN Renamed(o, [ProjectName |-> "TenantName", DomainID |-> "DomainID", DomainName |-> "DomainName"])
  ELSE Nothing

(* Options that name an application credential ask for no scope. *)
CarriesScope(o) == ~HasNone(o, {"ApplicationCredentialID", "ApplicationCredentialName"})

(* The fields of scope s that are sent; Invalid(s) if it is refused. *)
Invalid(s) ==
  /\ HasNone(s, {"System", "TrustID"})
  /\ CASE Has(s, "ProjectName") -> Has(s, "ProjectID") \/ HasNone(s, {"DomainID", "DomainName"})
       [] ~Has(s, "ProjectName") /\ Has(s, "ProjectID") -> ~HasNone(s, {"DomainID", "DomainName"})
       [] OTHER -> Has(s, "DomainID") /\ Has(s, "DomainName")

ScopeFields(s) ==
  CASE Has(s, "System") -> {"System"}
    [] ~Has(s, "System") /\ Has(s, "TrustID") -> {"TrustID"}
    [] HasNone(s, {"System", "TrustID"}) /\ Has(s, "ProjectName") ->
         {"ProjectName", IF Has(s, "DomainID") THEN "DomainID" ELSE "DomainName"}
    [] OTHER -> DOMAIN s

-----------------------------------------------------------------------------
(* AuthOptionsFromEnv.  The OS_PROJECT_ variables outrank the OS_TENANT_ ones. *)
EnvNames ==
  [UserID |-> "OS_USERID", Username |-> "OS_USERNAME", Password |-> "OS_PASSWORD", Passcode |-> "OS_PASSCODE",
   DomainID |-> "OS_DOMAIN_ID", DomainName |-> "OS_DOMAIN_NAME",
   ApplicationCredentialID |-> "OS_APPLICATION_CREDENTIAL_ID",
   ApplicationCredentialName |-> "OS_APPLICATION_CREDENTIAL_NAME",
   ApplicationCredentialSecret |-> "OS_APPLICATION_CREDENTIAL_SECRET"]
EnvOptions(env) ==
  LET projects == Renamed(env, [TenantID |-> "OS_PROJECT_ID", TenantName |-> "OS_PROJECT_NAME"])
      tenants  == Renamed(env, [TenantID |-> "OS_TENANT_ID", TenantName |-> "OS_TENANT_NAME"])
  IN  Over(Over(projects, tenants), Renamed(env, EnvNames))

(* Broken: the name of the project is not looked at. *)
EnvRefused_AnyProject(o) ==
  \/ HasNone(o, {"UserID", "Username", "ApplicationCredentialID", "ApplicationCredentialSecret"})
  \/ HasNone(o, {"Password", "Passcode", "ApplicationCredentialID", "ApplicationCredentialName"})

EnvRefused(o) ==
  \/ HasNone(o, {"UserID", "Username", "ApplicationCredentialID", "ApplicationCredentialSecret"})
  \/ HasNone(o, {"Password", "Passcode", "ApplicationCredentialID", "ApplicationCredentialName"})
  \/ CarriesScope(o) /\ ~Has(o, "ApplicationCredentialSecret")
  \/ HasNone(o, {"DomainID", "DomainName", "TenantID"}) /\ Has(o, "TenantName")
  \/ /\ ~Has(o, "ApplicationCredentialID")
     /\ Has(o, "ApplicationCredentialName") /\ Has(o, "ApplicationCredentialSecret")
     /\ \/ HasNone(o, {"UserID", "Username"})
        \/ Has(o, "Username") /\ HasNone(o, {"DomainID", "DomainName"})

-----------------------------------------------------------------------------
(* clouds.go.  A cloud is flat here: its auth section is merged key by key as
   the rest of it.  Strings are named by the source they come from, verify is
   <<source, Boolean>>; no list of a cloud reaches the options. *)
Zero(key, value) == key = "verify" /\ ~value[2]

(* Broken: the inferior cloud wins. *)
MergeClouds_Inferior(override, cloud) == Over(cloud, override)

(* A value that is there overrides, unless it is the zero value of its type. *)
MergeClouds(override, cloud) ==
  [k \in DOMAIN override \cup DOMAIN cloud |->
     IF k \in DOMAIN override /\ (Zero(k, override[k]) => k \notin DOMAIN cloud) THEN override[k] ELSE cloud[k]]

(* The public cloud that a cloud builds on, if it has one: one that is not in
   clouds-public.yaml is passed over. *)
NamesPublic(cloud) == Has(cloud, "profile") \/ Has(cloud, "cloud")
MergeWithPublicClouds(cloud, public) ==
  LET name == IF Has(cloud, "profile") THEN "profile" ELSE "cloud"
  IN  IF Has(cloud, name) /\ cloud[name] \in DOMAIN public THEN MergeClouds(cloud, public[cloud[name]]) ELSE cloud

(* What stands in the auth section, "auth" for the section itself. *)
AuthKeys ==
  {"auth", "auth_url", "default_domain", "allow_reauth", "token", "username", "user_id", "password", "system_scope", "project_name", "project_id", "user_domain_name",
   "user_domain_id", "project_domain_name", "project_domain_id", "domain_name", "domain_id", "trust_id",
   "application_credential_id", "application_credential_name", "application_credential_secret"}

(* Where each field is looked for: the option of that name, then these keys. *)
Keys ==
  [Username |-> <<"username">>, UserID |-> <<"user_id">>, Password |-> <<"password">>,
   DomainID |-> <<"user_domain_id", "domain_id">>, DomainName |-> <<"user_domain_name", "domain_name">>,
   TenantID |-> <<"project_id">>, TenantName |-> <<"project_name">>, TokenID |-> <<"token">>,
   ApplicationCredentialID |-> <<"application_credential_id">>,
   ApplicationCredentialName |-> <<"application_credential_name">>,
   ApplicationCredentialSecret |-> <<"application_credential_secret">>]

Found(cloud, keys) == {i \in DOMAIN keys : Has(cloud, keys[i])}
First(places) == CHOOSE i \in places : \A j \in places : i <= j
Coalesced(options, cloud, field, keys) ==
  CASE Has(options, field) -> Setting(field, options[field])
    [] ~Has(options, field) /\ Found(cloud, keys) # {} -> Setting(field, cloud[keys[First(Found(cloud, keys))]])
    [] OTHER -> Nothing

Optional(cloud, field, keys) == Coalesced(Nothing, cloud, field, keys)

ParsedScope(options, cloud) ==
  LET id == Coalesced(options, cloud, "TenantID", Keys.TenantID)
      name == Coalesced(options, cloud, "TenantName", Keys.TenantName)
      domainID == Coalesced(options, cloud, "DomainID", <<"domain_id">>)
      domainName == Coalesced(options, cloud, "DomainName", <<"domain_name">>)
  IN  CASE Has(cloud, "trust_id") -> Setting("TrustID", cloud["trust_id"])
        [] ~Has(cloud, "trust_id") /\ Has(cloud, "system_scope") -> Setting("System", cloud["system_scope"])
        [] HasNone(cloud, {"trust_id", "system_scope"}) /\ Has(id, "TenantID") -> Setting("ProjectID", id["TenantID"])
        [] HasNone(cloud, {"trust_id", "system_scope"}) /\ ~Has(id, "TenantID") /\ Has(name, "TenantName") ->
             Over(Setting("ProjectName", name["TenantName"]),
                  Over(Optional(cloud, "DomainID", <<"project_domain_id", "domain_id">>),
                       Optional(cloud, "DomainName", <<"project_domain_name", "domain_name">>)))
        [] OTHER -> IF Has(domainID, "DomainID") THEN domainID ELSE domainName

ParsedOptions(options, cloud) ==
  LET at(f) == Coalesced(options, cloud, f, Keys[f])
  IN  [f \in {g \in DOMAIN Keys : Has(at(g), g)} |-> at(f)[f]]

InsecureSkipVerify(options, cloud) ==
  IF Has(options, "insecure") THEN options["insecure"]
  ELSE Has(cloud, "verify") /\ ~cloud["verify"][2]
=============================================================================
