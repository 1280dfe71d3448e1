------------------------------ MODULE MCSettings ------------------------------
(* Options of up to five fields with eight scopes; the variables of a login by
   password and of one by application credential; eleven entries of clouds.yaml
   with one key of secure.yaml, one of a public profile and one option; and the
   same entries where there is no clouds-public.yaml. *)
EXTENDS Settings, FiniteSets, TLC

Constant(fields, value) == [f \in fields |-> value]
Some(keys, n) == {ks \in SUBSET keys : Cardinality(ks) <= n}

LoginFields ==
  {"Username", "UserID", "Password", "Passcode", "DomainID", "DomainName", "TenantID", "TenantName", "TokenID",
   "ApplicationCredentialID", "ApplicationCredentialName", "ApplicationCredentialSecret", "AllowReauth"}
TheScopes ==
  {Constant(fs, "given") : fs \in
    {{}, {"System"}, {"TrustID"}, {"ProjectID"}, {"ProjectName", "DomainID"}, {"ProjectName"},
     {"DomainName"}, {"ProjectID", "DomainID"}}}
TheLiterals ==
  {[kind |-> k, fields |-> Constant(fs, "given"), scope |-> s] :
     k \in {"gophercloud", "tokens"}, fs \in Some(LoginFields, 5), s \in TheScopes}

Variables ==
  {"OS_USERID", "OS_USERNAME", "OS_PASSWORD", "OS_PASSCODE", "OS_DOMAIN_ID", "OS_DOMAIN_NAME", "OS_PROJECT_ID",
   "OS_PROJECT_NAME", "OS_TENANT_ID", "OS_TENANT_NAME", "OS_APPLICATION_CREDENTIAL_ID",
   "OS_APPLICATION_CREDENTIAL_NAME", "OS_APPLICATION_CREDENTIAL_SECRET", "OS_SYSTEM_SCOPE"}
TheEnvironments == {[v \in vs |-> v] : vs \in Some(Variables, 4)}

Entry(keys, source) == [k \in keys |-> IF k = "verify" THEN <<source, TRUE>> ELSE IF k \in {"profile", "cloud"} THEN "vendor" ELSE source]
OneKey(source) ==
  {Nothing} \cup {Entry({k}, source) : k \in (AuthKeys \ {"default_domain", "allow_reauth"}) \cup {"verify"}} \cup {"verify" :> <<source, FALSE>>}
Bases ==
  {{}, {"verify"}, {"username", "password", "user_domain_name"}, {"username", "password", "project_name", "domain_id"},
   {"user_id", "password", "project_id"}, {"username", "password", "domain_name", "system_scope"},
   {"token", "project_name", "project_domain_id"}, {"application_credential_id", "application_credential_secret"},
   {"user_id", "password", "trust_id"}, {"username", "user_domain_id", "project_name", "project_domain_name"},
   {"user_id", "domain_id", "domain_name"}}
TheOptions ==
  {Nothing, "Scope" :> ("ProjectID" :> "option"), "insecure" :> TRUE, "insecure" :> FALSE}
    \cup {f :> "option" : f \in DOMAIN Keys}
TheClouds == {Entry(b \cup {IF "verify" \in b THEN "cloud" ELSE "profile"}, "clouds") : b \in Bases}
TheConfigurations ==
  [options : TheOptions, clouds : TheClouds, secure : OneKey("secure"),
   public : [{"vendor"} -> OneKey("public")], published : {TRUE}]
  \cup
  [options : TheOptions, clouds : TheClouds \cup {Entry(b, "clouds") : b \in Bases}, secure : OneKey("secure"),
   public : {Nothing}, published : {FALSE}]
=============================================================================
