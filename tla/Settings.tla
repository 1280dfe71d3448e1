------------------------------- MODULE Settings -------------------------------
(***************************************************************************)
(* From the settings of a user to the logins they lead to: Parse           *)
(* (clouds.go) or AuthOptionsFromEnv (auth_env.go) or options written in   *)
(* the program, then AuthenticateV3 (client.go 177-291) with them, then    *)
(* changes by the application, and a reauthentication or a second login.   *)
(*                                                                         *)
(* The Scope of gophercloud.AuthOptions is a pointer, which the copy kept  *)
(* for reauthentications shares; that of tokens.AuthOptions is a value.    *)
(* Scopes live in the sequence scopes, and 0 is nil.                       *)
(***************************************************************************)
EXTENDS AuthOptions

CONSTANTS
  Literals,       \* options written in a program: [kind, fields, scope]
  Environments,   \* sets of variables, as functions
  Configurations  \* [options, clouds, secure, public, published]; options may hold a Scope and insecure

(* gophercloud.AuthOptions, or tokens.AuthOptions. *)
ASSUME SettingsAssumption == \A o \in Literals : o.kind \in {"gophercloud", "tokens"}

VARIABLES
  stage,
  config,      \* where the options come from: [from] and what Parse was given
  cloud,       \* the cloud entry after the merges
  opts, kept,  \* the options of the application, and the copy that ReauthFunc holds: [kind, fields, scope]
  scopes,
  logins,      \* what was sent to the identity service, or why not
  touched      \* the application has changed a scope in place

vars == <<stage, config, cloud, opts, kept, scopes, logins, touched>>

NoOptions == [kind |-> "none", fields |-> Nothing, scope |-> 0]

Init ==
  /\ stage = "start" /\ config = [from |-> "nowhere"] /\ cloud = Nothing
  /\ opts = NoOptions /\ kept = NoOptions
  /\ scopes = <<>> /\ logins = <<>> /\ touched = FALSE

-----------------------------------------------------------------------------
(* Options of the given kind; a Scope is a pointer that may be nil, or a value. *)
Ready(kind, fields, scope) ==
  /\ stage' = "ready"
  /\ IF kind = "gophercloud" /\ DOMAIN scope = {}
     THEN opts' = [kind |-> kind, fields |-> fields, scope |-> 0] /\ UNCHANGED scopes
     ELSE opts' = [kind |-> kind, fields |-> fields, scope |-> 1] /\ scopes' = <<scope>>

Write ==
  /\ stage = "start"
  /\ \E o \in Literals : Ready(o.kind, o.fields, o.scope)
  /\ config' = [from |-> "program"]
  /\ UNCHANGED <<cloud, kept, logins, touched>>

AuthOptionsFromEnv ==
  /\ stage = "start"
  /\ \E env \in Environments :
       LET o == EnvOptions(env)
       IN  IF EnvRefused(o) THEN stage' = "refused" /\ UNCHANGED <<opts, scopes>>
           ELSE Ready("gophercloud", o, IF Has(env, "OS_SYSTEM_SCOPE") THEN Setting("System", "all") ELSE Nothing)
  /\ config' = [from |-> "environment"]
  /\ UNCHANGED <<cloud, kept, logins, touched>>

(* Parse.  It fails if the cloud names a public one and there is no
   clouds-public.yaml, and ends in a nil pointer if no source has an auth
   section. *)
Parse ==
  /\ stage = "start"
  /\ \E c \in Configurations :
       LET own    == MergeClouds(c.secure, c.clouds)
           merged == MergeWithPublicClouds(own, c.public)
       IN  /\ config' = [from |-> "clouds", c |-> c]
           /\ IF NamesPublic(own) /\ ~c.published THEN stage' = "refused" /\ UNCHANGED <<cloud, opts, scopes>>
              ELSE /\ cloud' = merged
                   /\ IF DOMAIN merged \cap AuthKeys = {} THEN stage' = "panic" /\ UNCHANGED <<opts, scopes>>
                      ELSE Ready("gophercloud", ParsedOptions(c.options, merged),
                                 IF Has(c.options, "Scope") THEN c.options["Scope"] ELSE ParsedScope(c.options, merged))
  /\ UNCHANGED <<kept, logins, touched>>

-----------------------------------------------------------------------------
(* v3auth with options o.  A token without a scope is used as it is. *)
ScopeOf(o) == IF o.scope = 0 THEN Nothing ELSE scopes[o.scope]
Passthrough(o) == Has(o.fields, "TokenID") /\ DOMAIN ScopeOf(o) = {}

Values(o, fields) == [f \in fields |-> o[f]]
Refusal == [outcome |-> "refused", body |-> Nothing, scope |-> Nothing]
Sent(o, s) ==
  LET body == ToTokenV3CreateMap(o.fields)
  IN  IF DOMAIN body = {} THEN Refusal
      ELSE [outcome |-> "sent",
            body    |-> [m \in DOMAIN body |-> Values(o.fields, body[m])],
            scope   |-> Values(s, ScopeFields(s))]

(* Broken: the name of an application credential is forgotten. *)
NoScopeAsked_ByID(o) == o.kind = "gophercloud" /\ Has(o.fields, "ApplicationCredentialID")

(* ToTokenV3ScopeMap writes the Scope of the options it is called on; that of
   tokens.AuthOptions works on a copy without the application credentials. *)
NoScopeAsked(o) == o.kind = "gophercloud" /\ CarriesScope(o.fields)

(* Broken: the scope is worked out but not stored. *)
LoginWith_Forgets(o) ==
  LET s == IF o.scope = 0 THEN DefaultScope(o.fields) ELSE scopes[o.scope]
  IN  CASE Passthrough(o) -> [login |-> IF CanReauth(o.fields) THEN Refusal ELSE [Refusal EXCEPT !.outcome = "passed"],
                             opts |-> o, scopes |-> scopes]
        [] ~Passthrough(o) /\ NoScopeAsked(o) -> [login |-> Sent(o, Nothing), opts |-> o, scopes |-> scopes]
        [] OTHER -> [login |-> IF Invalid(s) THEN Refusal ELSE Sent(o, s), opts |-> o, scopes |-> scopes]

LoginWith(o) ==
  LET s    == IF o.scope = 0 THEN DefaultScope(o.fields) ELSE scopes[o.scope]
      made == o.scope = 0
  IN  CASE Passthrough(o) -> [login |-> IF CanReauth(o.fields) THEN Refusal ELSE [Refusal EXCEPT !.outcome = "passed"],
                             opts |-> o, scopes |-> scopes]
        [] ~Passthrough(o) /\ NoScopeAsked(o) -> [login |-> Sent(o, Nothing), opts |-> o, scopes |-> scopes]
        [] OTHER -> [login  |-> IF Invalid(s) THEN Refusal ELSE Sent(o, s),
                     opts   |-> IF made THEN [o EXCEPT !.scope = Len(scopes) + 1] ELSE o,
                     scopes |-> IF made THEN Append(scopes, s) ELSE scopes]

(* The copy for ReauthFunc does not reauthenticate itself. *)
Copied(o) == [o EXCEPT !.fields = [f \in DOMAIN @ \ {"AllowReauth"} |-> @[f]]]

(* Broken: the scopes of both types are taken for pointers. *)
Login_SharesScope ==
  /\ stage = "ready"
  /\ LET l == LoginWith(opts)
         copy == CanReauth(opts.fields) /\ l.login.outcome # "refused"
     IN  /\ logins' = <<l.login>> /\ opts' = l.opts /\ scopes' = l.scopes
         /\ stage' = IF l.login.outcome = "refused" THEN "refused" ELSE "in"
         /\ kept' = IF copy THEN Copied(l.opts) ELSE NoOptions
  /\ UNCHANGED <<config, cloud, touched>>

Login ==
  /\ stage = "ready"
  /\ LET l == LoginWith(opts)
         copy == CanReauth(opts.fields) /\ l.login.outcome # "refused"
     IN  /\ logins' = <<l.login>> /\ opts' = l.opts
         /\ stage' = IF l.login.outcome = "refused" THEN "refused" ELSE "in"
         /\ IF copy /\ l.opts.kind = "tokens"
            THEN /\ scopes' = Append(l.scopes, l.scopes[l.opts.scope])
                 /\ kept' = [Copied(l.opts) EXCEPT !.scope = Len(l.scopes) + 1]
            ELSE scopes' = l.scopes /\ kept' = IF copy THEN Copied(l.opts) ELSE NoOptions
  /\ UNCHANGED <<config, cloud, touched>>

(* The application writes a field of its options, or into the Scope they point to. *)
EditField(f) ==
  /\ stage = "in" /\ Has(opts.fields, f)
  /\ opts' = [opts EXCEPT !.fields[f] = "edited"]
  /\ UNCHANGED <<stage, config, cloud, kept, scopes, logins, touched>>

EditScope ==
  /\ stage = "in" /\ ~touched /\ DOMAIN ScopeOf(opts) # {}
  /\ scopes' = [scopes EXCEPT ![opts.scope] = [f \in DOMAIN @ |-> "edited"]]
  /\ touched' = TRUE
  /\ UNCHANGED <<stage, config, cloud, opts, kept, logins>>

(* ReauthFunc. *)
Relogin ==
  /\ stage = "in" /\ kept # NoOptions
  /\ LET l == LoginWith(kept)
     IN  logins' = Append(logins, l.login) /\ kept' = l.opts /\ scopes' = l.scopes
  /\ stage' = "reauthenticated"
  /\ UNCHANGED <<config, cloud, opts, touched>>

LoginAgain ==
  /\ stage = "in" /\ logins[1].outcome = "sent"
  /\ LET l == LoginWith(opts)
     IN  logins' = Append(logins, l.login) /\ opts' = l.opts /\ scopes' = l.scopes
  /\ stage' = "again"
  /\ UNCHANGED <<config, cloud, kept, touched>>

Editable == {"Password", "TenantID", "TenantName", "TokenID"}
Next ==
  \/ Write \/ AuthOptionsFromEnv \/ Parse
  \/ Login \/ EditScope \/ Relogin \/ LoginAgain
  \/ \E f \in Editable : EditField(f)

Spec == Init /\ [][Next]_vars
-----------------------------------------------------------------------------
(* A setting comes from the option for it; else from the most special key that
   has it, and for one key from secure.yaml before clouds.yaml before the
   public profile. *)
Parent(c) ==
  LET own  == Over(c.secure, c.clouds)
      name == IF Has(own, "profile") THEN "profile" ELSE "cloud"
  IN  IF Has(own, name) /\ own[name] \in DOMAIN c.public THEN c.public[own[name]] ELSE Nothing
Files(c) == <<c.secure, c.clouds, Parent(c)>>
Best(files, keys) ==
  LET found == {p \in (DOMAIN keys) \X (DOMAIN files) : Has(files[p[2]], keys[p[1]])}
  IN  CHOOSE p \in found : \A q \in found : p[1] < q[1] \/ (p[1] = q[1] /\ p[2] <= q[2])
BestSourceWins ==
  config.from = "clouds" /\ stage = "ready" =>
    \A f \in DOMAIN Keys :
      LET files == Files(config.c)
          somewhere == \E i \in DOMAIN files : \E k \in DOMAIN Keys[f] : Has(files[i], Keys[f][k])
      IN  IF Has(config.c.options, f) THEN Has(opts.fields, f) /\ opts.fields[f] = config.c.options[f]
          ELSE IF somewhere
          THEN LET p == Best(files, Keys[f]) IN Has(opts.fields, f) /\ opts.fields[f] = files[p[2]][Keys[f][p[1]]]
          ELSE ~Has(opts.fields, f)

(* Certificates are not verified only if an option says so, or if every file
   that has an opinion says so: a false in a better file does not override. *)
UnverifiedOnlyIfUnanimous ==
  config.from = "clouds" /\ InsecureSkipVerify(config.c.options, cloud) =>
    \/ Has(config.c.options, "insecure") /\ config.c.options["insecure"]
    \/ \A i \in 1..3 : LET file == Files(config.c)[i] IN Has(file, "verify") => ~file["verify"][2]

(* The scope that Parse or the environment works out is one that a login
   takes: from the environment always, from clouds.yaml unless it is a
   project's name for which no domain is to be found.  An option that is a
   Scope is taken as it is. *)
ConfiguredScopeIsUsable ==
  stage = "ready" /\ config.from # "program" =>
    LET s == IF opts.scope = 0 THEN DefaultScope(opts.fields) ELSE ScopeOf(opts)
    IN  Invalid(s) =>
          /\ config.from = "clouds"
          /\ \/ Has(config.c.options, "Scope")
             \/ /\ DOMAIN s = {"ProjectName"}
                /\ HasNone(cloud, {"project_domain_id", "project_domain_name", "domain_id", "domain_name",
                                   "project_id", "trust_id", "system_scope"})

(* Every method of a login has its secret and, but for a token or the id of an
   application credential, exactly one user: an id, or a name in one domain.
   Two methods name the same user.  With gophercloud.AuthOptions a login by an
   application credential asks for no scope, which the service would refuse. *)
OneUser(b) == \/ {"UserID"} = b \cap {"UserID", "Username", "DomainID", "DomainName"}
              \/ /\ "Username" \in b /\ "UserID" \notin b
                 /\ ("DomainID" \in b) # ("DomainName" \in b)
Secrets == {"Password", "Passcode", "TokenID", "ApplicationCredentialSecret"}
LoginIsWhole ==
  \A i \in DOMAIN logins : logins[i].outcome = "sent" =>
    LET body == logins[i].body
    IN  /\ \A m \in DOMAIN body :
             /\ DOMAIN body[m] \cap Secrets # {}
             /\ "TokenID" \in DOMAIN body[m] \/ "ApplicationCredentialID" \in DOMAIN body[m] \/ OneUser(DOMAIN body[m])
             /\ \A n \in DOMAIN body : DOMAIN body[m] \ Secrets = DOMAIN body[n] \ Secrets
        /\ "application_credential" \in DOMAIN body => opts.kind = "tokens" \/ logins[i].scope = Nothing

(* What a later login repeats.  A reauthentication repeats the login it renews,
   whatever the application has written into its options since; but not what it
   has written into the Scope that options of package gophercloud point to.
   Options used for a second login ask for the scope worked out at the first,
   although the application may have written another project into them. *)
LaterLoginsRepeat ==
  /\ stage = "reauthenticated" =>
       /\ logins[2].outcome = "sent" /\ logins[2].body = logins[1].body
       /\ logins[2].scope = logins[1].scope \/ (touched /\ opts.kind = "gophercloud")
  /\ stage = "again" /\ ~touched /\ logins[2].outcome = "sent" => logins[2].scope = logins[1].scope
=============================================================================
