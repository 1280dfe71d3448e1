--------------------------- MODULE SettingsProofs ---------------------------
(***************************************************************************)
(* Theorems about Settings for every set of options, environments and      *)
(* configurations, whatever settings they hold and however many.           *)
(*                                                                         *)
(* What a login sends (BodyIsWhole), what the merges and the lookup of a   *)
(* field make of three files (MergedFiles, FieldsFromTheBest) and which    *)
(* scopes are worked out (EnvScope, ParsedScopeFits) are lemmas about the  *)
(* operators of AuthOptions; the invariant follows the options through     *)
(* their logins.                                                           *)
(***************************************************************************)
EXTENDS Settings, TLAPS

-----------------------------------------------------------------------------
(* The body of a login. *)

LoginFields ==
  {"Username", "UserID", "Password", "Passcode", "DomainID", "DomainName", "TokenID",
   "ApplicationCredentialID", "ApplicationCredentialName", "ApplicationCredentialSecret"}

(* Two sets of settings that a login does not tell apart. *)
Alike(o, p) == \A f \in LoginFields : Has(o, f) <=> Has(p, f)

LEMMA OneUserNamed ==
  ASSUME NEW o
  PROVE  LET u == PasswordUser(o)
         IN  u # {} => /\ u \subseteq DOMAIN o \cap {"UserID", "Username", "DomainID", "DomainName"}
                       /\ OneUser(u)
  BY DEF PasswordUser, HasNone, User, Has, OneUser

LEMMA CredentialUserNamed ==
  ASSUME NEW o
  PROVE  LET u == CredentialUser(o)
         IN  u # {} => /\ u \subseteq DOMAIN o \cap {"UserID", "Username", "DomainID", "DomainName"}
                       /\ OneUser(u)
  BY DEF CredentialUser, HasNone, User, Has, OneUser

LEMMA Methods ==
  ASSUME NEW name, NEW fields
  PROVE  /\ DOMAIN Method(name, fields) = IF fields = {} THEN {} ELSE {name}
         /\ fields # {} => Method(name, fields)[name] = fields
         /\ DOMAIN Nothing = {}
  BY DEF Method, Nothing, Setting

LEMMA PasswordBody ==
  ASSUME NEW o, NEW m \in DOMAIN PasswordMethods(o)
  PROVE  /\ PasswordUser(o) # {}
         /\ \/ m = "password" /\ Has(o, "Password") /\ PasswordMethods(o)[m] = PasswordUser(o) \cup {"Password"}
            \/ m = "totp" /\ Has(o, "Passcode") /\ PasswordMethods(o)[m] = PasswordUser(o) \cup {"Passcode"}
  BY DEF PasswordMethods, Nothing, Has

(* What a method sends is set and, but for the two credentials that speak for
   themselves, names one user. *)
LEMMA BodyIsWhole ==
  ASSUME NEW o, NEW m \in DOMAIN ToTokenV3CreateMap(o)
  PROVE  LET B == ToTokenV3CreateMap(o)
         IN  /\ B[m] \subseteq LoginFields \cap DOMAIN o
             /\ B[m] \cap Secrets # {}
             /\ "TokenID" \in B[m] \/ "ApplicationCredentialID" \in B[m] \/ OneUser(B[m])
             /\ \A n \in DOMAIN B : B[m] \ Secrets = B[n] \ Secrets
             /\ m = "application_credential" => CarriesScope(o)
<1> DEFINE B == ToTokenV3CreateMap(o)
<1>1. CASE ~HasNone(o, {"Password", "Passcode"})
  <2>1. B = PasswordMethods(o)
    BY <1>1 DEF ToTokenV3CreateMap, HasNone, Has
  <2>2. \A n \in DOMAIN B :
          \/ n = "password" /\ Has(o, "Password") /\ B[n] = PasswordUser(o) \cup {"Password"}
          \/ n = "totp" /\ Has(o, "Passcode") /\ B[n] = PasswordUser(o) \cup {"Passcode"}
    BY <2>1, PasswordBody
  <2>3. PasswordUser(o) \subseteq DOMAIN o \cap {"UserID", "Username", "DomainID", "DomainName"} /\ OneUser(PasswordUser(o))
    BY <2>1, PasswordBody, OneUserNamed
  <2>m. m \in DOMAIN B
    OBVIOUS
  <2> HIDE DEF B
  <2>4. B[m] \subseteq LoginFields \cap DOMAIN o /\ B[m] \cap Secrets # {} /\ m # "application_credential"
    BY <2>m, <2>2, <2>3 DEF LoginFields, Secrets, Has
  <2>5. OneUser(B[m])
    BY <2>m, <2>2, <2>3 DEF OneUser
  <2>6. \A n \in DOMAIN B : B[n] \ Secrets = PasswordUser(o)
    BY <2>2, <2>3 DEF Secrets
  <2> QED
    BY <2>m, <2>4, <2>5, <2>6 DEF B
<1>2. CASE HasNone(o, {"Password", "Passcode"}) /\ Has(o, "TokenID")
  <2>1. B \in {Method("token", {"TokenID"}), Nothing}
    BY <1>2 DEF ToTokenV3CreateMap, HasNone, Has
  <2>2. m \in DOMAIN B
    OBVIOUS
  <2> HIDE DEF B
  <2>3. B = [n \in {"token"} |-> {"TokenID"}]
    BY <2>1, <2>2 DEF Method, Nothing, Setting
  <2> QED
    BY <1>2, <2>3 DEF LoginFields, Secrets, Has, B
<1>3. CASE HasNone(o, {"Password", "Passcode", "TokenID"}) /\ Has(o, "ApplicationCredentialID")
  <2>1. \/ B = Nothing
        \/ /\ Has(o, "ApplicationCredentialSecret")
           /\ B = Method("application_credential", {"ApplicationCredentialID", "ApplicationCredentialSecret"})
    BY <1>3 DEF ToTokenV3CreateMap, HasNone, Has
  <2>2. m \in DOMAIN B
    OBVIOUS
  <2> HIDE DEF B
  <2>3. /\ Has(o, "ApplicationCredentialSecret")
        /\ B = [n \in {"application_credential"} |-> {"ApplicationCredentialID", "ApplicationCredentialSecret"}]
    BY <2>1, <2>2 DEF Method, Nothing, Setting
  <2> QED
    BY <1>3, <2>3 DEF LoginFields, Secrets, Has, CarriesScope, HasNone, B
<1>4. CASE HasNone(o, {"Password", "Passcode", "TokenID", "ApplicationCredentialID"}) /\ Has(o, "ApplicationCredentialName")
  <2> DEFINE fields == CredentialUser(o) \cup {"ApplicationCredentialName", "ApplicationCredentialSecret"}
  <2>1. \/ B = Nothing
        \/ /\ Has(o, "ApplicationCredentialSecret") /\ CredentialUser(o) # {}
           /\ B = Method("application_credential", fields)
    BY <1>4 DEF ToTokenV3CreateMap, HasNone, Has
  <2>m. m \in DOMAIN B
    OBVIOUS
  <2> HIDE DEF B, fields
  <2>2. /\ Has(o, "ApplicationCredentialSecret") /\ CredentialUser(o) # {}
        /\ DOMAIN B = {"application_credential"} /\ B["application_credential"] = fields
    BY <2>1, <2>m DEF Method, Nothing, Setting
  <2> USE DEF B, fields
  <2>3. CredentialUser(o) \subseteq DOMAIN o \cap {"UserID", "Username", "DomainID", "DomainName"} /\ OneUser(CredentialUser(o))
    BY <2>2, CredentialUserNamed
  <2>4. fields \subseteq LoginFields \cap DOMAIN o
    BY <1>4, <2>2, <2>3 DEF LoginFields, Has
  <2>5. OneUser(fields)
    BY <2>3 DEF OneUser
  <2>6. "ApplicationCredentialSecret" \in fields \cap Secrets
    BY DEF Secrets
  <2>7. CarriesScope(o)
    BY <1>4 DEF CarriesScope, HasNone, Has
  <2> QED
    BY <2>2, <2>4, <2>5, <2>6, <2>7
<1>5. CASE HasNone(o, {"Password", "Passcode", "TokenID", "ApplicationCredentialID", "ApplicationCredentialName"})
  <2>1. B = Nothing
    BY <1>5 DEF ToTokenV3CreateMap, HasNone, Has
  <2> QED
    BY <2>1, Methods
<1> QED
  BY <1>1, <1>2, <1>3, <1>4, <1>5 DEF HasNone, Has

(* The fields that a login does not use make no difference to it. *)
LEMMA BodyOfAlike ==
  ASSUME NEW o, NEW p, Alike(o, p) PROVE ToTokenV3CreateMap(o) = ToTokenV3CreateMap(p)
<1>1. \A f \in LoginFields : Has(o, f) = Has(p, f)
  BY DEF Alike, Has
<1>2. User(o) = User(p)
  BY <1>1 DEF User, LoginFields
<1>3. \A fs \in SUBSET LoginFields : HasNone(o, fs) = HasNone(p, fs) /\ fs \cap DOMAIN o = fs \cap DOMAIN p
  BY <1>1 DEF HasNone, Has
<1>4. PasswordUser(o) = PasswordUser(p) /\ CredentialUser(o) = CredentialUser(p)
  BY <1>1, <1>2, <1>3 DEF PasswordUser, CredentialUser, LoginFields
<1>5. PasswordMethods(o) = PasswordMethods(p)
  BY <1>3, <1>4 DEF PasswordMethods, LoginFields
<1> QED
  BY <1>1, <1>3, <1>4, <1>5 DEF ToTokenV3CreateMap, LoginFields

-----------------------------------------------------------------------------
(* The invariant. *)

IsSequence(s) == \E S : s \in Seq(S)

IsOptions(o) ==
  /\ o = [kind |-> o.kind, fields |-> o.fields, scope |-> o.scope]
  /\ o.kind \in {"gophercloud", "tokens"}
  /\ o.scope \in 0..Len(scopes) /\ (o.kind = "tokens" => o.scope # 0)

TypeInv ==
  /\ stage \in {"start", "ready", "refused", "panic", "in", "reauthenticated", "again"}
  /\ IsSequence(scopes) /\ IsSequence(logins)
  /\ stage = "start" => scopes = <<>> /\ cloud = Nothing
  /\ stage \in {"start", "ready", "panic"} => kept = NoOptions /\ logins = <<>>
  /\ stage \in {"ready", "in", "reauthenticated", "again"} => IsOptions(opts)
  /\ stage = "in" => Len(logins) = 1
  /\ touched \in BOOLEAN

(* Options whose scope is worked out: a login with them changes nothing. *)
Settled(o) ==
  /\ ~Passthrough(o)
  /\ ~NoScopeAsked(o) => o.scope # 0 /\ ~Invalid(scopes[o.scope])
Asked(o) == IF NoScopeAsked(o) THEN Nothing ELSE scopes[o.scope]

(* The copy for ReauthFunc would send what the first login has sent. *)
KeptInv ==
  kept # NoOptions =>
    /\ IsOptions(kept) /\ kept.kind = opts.kind
    /\ kept.kind = "tokens" => kept.scope # opts.scope
    /\ stage = "in" =>
         LET login == Sent(kept, Asked(kept))
         IN  /\ Settled(kept)
             /\ login.outcome = "sent" /\ login.body = logins[1].body
             /\ login.scope = logins[1].scope \/ (touched /\ kept.kind = "gophercloud")

(* Options that have been used for a login would ask for the same scope. *)
UsedInv ==
  stage = "in" /\ logins[1].outcome = "sent" =>
    /\ Settled(opts)
    /\ ~touched => logins[1].scope = LET s == Asked(opts) IN Values(s, ScopeFields(s))

IInv == /\ TypeInv /\ KeptInv /\ UsedInv
        /\ BestSourceWins /\ UnverifiedOnlyIfUnanimous /\ ConfiguredScopeIsUsable
        /\ LoginIsWhole /\ LaterLoginsRepeat

-----------------------------------------------------------------------------
(* A login. *)

LEMMA Longer ==
  ASSUME NEW s, IsSequence(s), NEW e
  PROVE  /\ IsSequence(Append(s, e)) /\ Len(s) \in Nat /\ Len(Append(s, e)) = Len(s) + 1
         /\ DOMAIN s = 1..Len(s) /\ DOMAIN Append(s, e) = 1..(Len(s) + 1)
         /\ Append(s, e)[Len(s) + 1] = e
         /\ \A i \in 1..Len(s) : Append(s, e)[i] = s[i]
<1>1. PICK S : s \in Seq(S)
  BY DEF IsSequence
<1>2. s \in Seq(S \cup {e})
  BY <1>1
<1>3. Append(s, e) \in Seq(S \cup {e})
  BY <1>2
<1> QED
  BY <1>2, <1>3 DEF IsSequence

LEMMA SingleSequence ==
  ASSUME NEW e
  PROVE  IsSequence(<<e>>) /\ Len(<<e>>) = 1 /\ <<e>>[1] = e /\ IsSequence(<<>>) /\ Len(<<>>) = 0
<1>1. <<e>> \in Seq({e}) /\ <<>> \in Seq({e})
  OBVIOUS
<1> QED
  BY <1>1 DEF IsSequence

LEMMA SecondLogin ==
  ASSUME NEW s, IsSequence(s), Len(s) = 1, NEW e
  PROVE  /\ IsSequence(Append(s, e)) /\ DOMAIN Append(s, e) = {1, 2} /\ DOMAIN s = {1}
         /\ Append(s, e)[1] = s[1] /\ Append(s, e)[2] = e
<1> DEFINE longer == Append(s, e)
<1>1. /\ IsSequence(longer) /\ DOMAIN longer = 1..(Len(s) + 1) /\ DOMAIN s = 1..Len(s)
      /\ longer[Len(s) + 1] = e /\ \A i \in 1..Len(s) : longer[i] = s[i]
  BY ONLY IsSequence(s), Longer
<1> HIDE DEF longer
<1>2. IsSequence(longer) /\ DOMAIN longer = {1, 2} /\ DOMAIN s = {1} /\ longer[1] = s[1] /\ longer[2] = e
  BY <1>1
<1> QED
  BY <1>2 DEF longer

(* What is sent, and that Sent depends on the fields of a login alone. *)
LEMMA SentIsWhole ==
  ASSUME NEW o, NEW s, Sent(o, s).outcome = "sent"
  PROVE  LET body == Sent(o, s).body
         IN  /\ \A m \in DOMAIN body :
                  /\ DOMAIN body[m] \cap Secrets # {}
                  /\ "TokenID" \in DOMAIN body[m] \/ "ApplicationCredentialID" \in DOMAIN body[m] \/ OneUser(DOMAIN body[m])
                  /\ \A n \in DOMAIN body : DOMAIN body[m] \ Secrets = DOMAIN body[n] \ Secrets
             /\ "application_credential" \in DOMAIN body => CarriesScope(o.fields)
<1> DEFINE B == ToTokenV3CreateMap(o.fields)
           body == Sent(o, s).body
<1>1. DOMAIN B # {}
  BY DEF Sent, Refusal
<1>2. body = [m \in DOMAIN B |-> Values(o.fields, B[m])]
  BY <1>1 DEF Sent
<1>3. DOMAIN body = DOMAIN B /\ \A m \in DOMAIN B : DOMAIN body[m] = B[m]
  BY <1>2 DEF Values
<1>4. \A m \in DOMAIN B :
        /\ B[m] \cap Secrets # {}
        /\ "TokenID" \in B[m] \/ "ApplicationCredentialID" \in B[m] \/ OneUser(B[m])
        /\ \A n \in DOMAIN B : B[m] \ Secrets = B[n] \ Secrets
        /\ m = "application_credential" => CarriesScope(o.fields)
  BY BodyIsWhole
<1> HIDE DEF B, body
<1>5. /\ \A m \in DOMAIN body :
           /\ DOMAIN body[m] \cap Secrets # {}
           /\ "TokenID" \in DOMAIN body[m] \/ "ApplicationCredentialID" \in DOMAIN body[m] \/ OneUser(DOMAIN body[m])
           /\ \A n \in DOMAIN body : DOMAIN body[m] \ Secrets = DOMAIN body[n] \ Secrets
      /\ "application_credential" \in DOMAIN body => CarriesScope(o.fields)
  BY <1>3, <1>4
<1> QED
  BY <1>5 DEF body

LEMMA SentAlike ==
  ASSUME NEW o, NEW p, NEW s, \A f \in LoginFields : /\ Has(o.fields, f) <=> Has(p.fields, f)
                                                     /\ Has(o.fields, f) => o.fields[f] = p.fields[f]
  PROVE  Sent(o, s) = Sent(p, s)
<1>1. ToTokenV3CreateMap(o.fields) = ToTokenV3CreateMap(p.fields)
  BY BodyOfAlike DEF Alike
<1> DEFINE B == ToTokenV3CreateMap(o.fields)
<1>2. \A m \in DOMAIN B : B[m] \subseteq LoginFields \cap DOMAIN o.fields
  BY BodyIsWhole
<1>3. \A m \in DOMAIN B : Values(o.fields, B[m]) = Values(p.fields, B[m])
  BY <1>2 DEF Values, Has
<1>4. [m \in DOMAIN B |-> Values(o.fields, B[m])] = [m \in DOMAIN B |-> Values(p.fields, B[m])]
  BY <1>3
<1> QED
  BY <1>1, <1>4 DEF Sent

LEMMA SettledLogin ==
  ASSUME NEW o, Settled(o)
  PROVE  LoginWith(o) = [login |-> Sent(o, Asked(o)), opts |-> o, scopes |-> scopes]
  BY DEF Settled, LoginWith, Asked, Passthrough, ScopeOf

LEMMA SentOutcome ==
  ASSUME NEW o, NEW s
  PROVE  /\ Sent(o, s).outcome \in {"sent", "refused"} /\ Refusal.outcome = "refused"
         /\ Sent(o, s).outcome = "sent" => Sent(o, s).scope = Values(s, ScopeFields(s))
  BY DEF Sent, Refusal

(* Whoever sends what an application credential sends asks for no scope. *)
WholeLogin(login, kind) ==
  LET body == login.body
  IN  /\ \A m \in DOMAIN body :
           /\ DOMAIN body[m] \cap Secrets # {}
           /\ "TokenID" \in DOMAIN body[m] \/ "ApplicationCredentialID" \in DOMAIN body[m] \/ OneUser(DOMAIN body[m])
           /\ \A n \in DOMAIN body : DOMAIN body[m] \ Secrets = DOMAIN body[n] \ Secrets
      /\ "application_credential" \in DOMAIN body => kind = "tokens" \/ login.scope = Nothing

LEMMA SentWhole ==
  ASSUME NEW o, NEW s, Sent(o, s).outcome = "sent", o.kind \in {"gophercloud", "tokens"},
         NoScopeAsked(o) => s = Nothing
  PROVE  WholeLogin(Sent(o, s), o.kind)
<1>1. Values(Nothing, ScopeFields(Nothing)) = Nothing
  BY DEF Values, ScopeFields, Nothing, HasNone, Has
<1>2. Sent(o, s).scope = Values(s, ScopeFields(s))
  BY SentOutcome
<1>3. CarriesScope(o.fields) => o.kind = "tokens" \/ Sent(o, s).scope = Nothing
  BY <1>1, <1>2 DEF NoScopeAsked
<1> QED
  BY <1>3, SentIsWhole DEF WholeLogin

LEMMA LoginOutcome ==
  ASSUME IsSequence(scopes), NEW o, IsOptions(o)
  PROVE  LET l == LoginWith(o)
         IN  /\ IsSequence(l.scopes) /\ Len(l.scopes) \in Nat /\ Len(scopes) <= Len(l.scopes)
             /\ \A i \in 1..Len(scopes) : l.scopes[i] = scopes[i]
             /\ l.opts = [kind |-> o.kind, fields |-> o.fields, scope |-> l.opts.scope]
             /\ l.opts.scope \in 0..Len(l.scopes) /\ (o.scope # 0 => l.opts.scope = o.scope)
             /\ l.login.outcome \in {"sent", "refused", "passed"}
             /\ CanReauth(o.fields) => l.login.outcome # "passed"
             /\ l.login.outcome = "sent" =>
                  /\ ~Passthrough(o)
                  /\ l.opts.scope = 0 \/ o.scope # 0 => ScopeOf(o) = IF l.opts.scope = 0 THEN Nothing ELSE l.scopes[l.opts.scope]
                  /\ IF NoScopeAsked(o) THEN l.login = Sent(o, Nothing) /\ l.opts = o
                     ELSE /\ l.opts.scope # 0 /\ ~Invalid(l.scopes[l.opts.scope])
                          /\ l.login = Sent(o, l.scopes[l.opts.scope])
<1> DEFINE l == LoginWith(o)
           s == IF o.scope = 0 THEN DefaultScope(o.fields) ELSE scopes[o.scope]
<1>o. /\ o = [kind |-> o.kind, fields |-> o.fields, scope |-> o.scope]
      /\ o.scope \in 0..Len(scopes) /\ Len(scopes) \in Nat
  BY Longer DEF IsOptions
<1>1. CASE Passthrough(o)
  <2>1. l = [login |-> IF CanReauth(o.fields) THEN Refusal ELSE [Refusal EXCEPT !.outcome = "passed"],
             opts |-> o, scopes |-> scopes]
    BY <1>1 DEF LoginWith
  <2>2. l.login.outcome = IF CanReauth(o.fields) THEN "refused" ELSE "passed"
    BY <2>1 DEF Refusal
  <2>3. l.opts = o /\ l.scopes = scopes
    BY <2>1
  <2> HIDE DEF l
  <2> QED
    BY <1>o, <2>2, <2>3 DEF l
<1>2. CASE ~Passthrough(o) /\ NoScopeAsked(o)
  <2>1. l = [login |-> Sent(o, Nothing), opts |-> o, scopes |-> scopes]
    BY <1>2 DEF LoginWith
  <2>2. l.login = Sent(o, Nothing) /\ l.opts = o /\ l.scopes = scopes
    BY <2>1
  <2>3. l.login.outcome \in {"sent", "refused"}
    BY <2>2, SentOutcome
  <2> HIDE DEF l
  <2> QED
    BY <1>o, <1>2, <2>2, <2>3 DEF l, ScopeOf
<1>3. CASE ~Passthrough(o) /\ ~NoScopeAsked(o) /\ o.scope # 0
  <2>1. l = [login |-> IF Invalid(s) THEN Refusal ELSE Sent(o, s), opts |-> o, scopes |-> scopes]
    BY <1>3 DEF LoginWith
  <2>2. /\ l.opts = o /\ l.scopes = scopes /\ s = l.scopes[l.opts.scope]
        /\ l.login.outcome = "sent" => ~Invalid(s) /\ l.login = Sent(o, s)
        /\ l.login.outcome \in {"sent", "refused"}
    BY <1>3, <2>1, SentOutcome
  <2> HIDE DEF l, s
  <2> QED
    BY <1>o, <1>3, <2>2 DEF l, s, ScopeOf
<1>4. CASE ~Passthrough(o) /\ ~NoScopeAsked(o) /\ o.scope = 0
  <2>1. l = [login |-> IF Invalid(s) THEN Refusal ELSE Sent(o, s),
             opts |-> [o EXCEPT !.scope = Len(scopes) + 1], scopes |-> Append(scopes, s)]
    BY <1>4 DEF LoginWith
  <2>2. /\ l.opts = [kind |-> o.kind, fields |-> o.fields, scope |-> Len(scopes) + 1]
        /\ l.scopes = Append(scopes, s)
        /\ l.login.outcome = "sent" => ~Invalid(s) /\ l.login = Sent(o, s)
        /\ l.login.outcome \in {"sent", "refused"}
    <3>1. l.scopes = Append(scopes, s) /\ l.login = IF Invalid(s) THEN Refusal ELSE Sent(o, s)
      BY <2>1
    <3>2. l.opts = [kind |-> o.kind, fields |-> o.fields, scope |-> Len(scopes) + 1]
      <4>1. l.opts = [o EXCEPT !.scope = Len(scopes) + 1]
        BY <2>1
      <4> QED
        BY <1>o, <4>1
    <3> HIDE DEF l, s
    <3> QED
      BY <3>1, <3>2, SentOutcome
  <2>3. /\ IsSequence(Append(scopes, s)) /\ Len(Append(scopes, s)) = Len(scopes) + 1
        /\ Append(scopes, s)[Len(scopes) + 1] = s
        /\ \A i \in 1..Len(scopes) : Append(scopes, s)[i] = scopes[i]
    BY Longer
  <2> HIDE DEF l, s
  <2> QED
    BY <1>o, <1>4, <2>2, <2>3 DEF l
<1> QED
  BY <1>1, <1>2, <1>3, <1>4

(* The copy for ReauthFunc differs in what no login sends. *)
LEMMA CopyAlike ==
  ASSUME NEW o, o = [kind |-> o.kind, fields |-> o.fields, scope |-> o.scope]
  PROVE  /\ Copied(o) = [kind |-> o.kind, fields |-> Copied(o).fields, scope |-> o.scope]
         /\ \A f \in LoginFields : /\ Has(o.fields, f) <=> Has(Copied(o).fields, f)
                                   /\ Has(o.fields, f) => o.fields[f] = Copied(o).fields[f]
<1>1. Copied(o).fields = [f \in DOMAIN o.fields \ {"AllowReauth"} |-> o.fields[f]]
  BY DEF Copied
<1>2. Copied(o) = [kind |-> o.kind, fields |-> Copied(o).fields, scope |-> o.scope]
  BY DEF Copied
<1> QED
  BY <1>1, <1>2 DEF LoginFields, Has

(* The action Login. *)
LEMMA LoginStep == IInv /\ Login => (TypeInv /\ KeptInv /\ UsedInv /\ LoginIsWhole)'
<1> SUFFICES ASSUME IInv, Login PROVE (TypeInv /\ KeptInv /\ UsedInv /\ LoginIsWhole)'
  OBVIOUS
<1> DEFINE l == LoginWith(opts)
           copy == CanReauth(opts.fields) /\ l.login.outcome # "refused"
           shared == ~(copy /\ l.opts.kind = "tokens")
<1>1. /\ stage = "ready" /\ kept = NoOptions /\ logins = <<>> /\ IsSequence(scopes) /\ IsOptions(opts)
      /\ touched \in BOOLEAN
  BY DEF IInv, TypeInv, Login
<1>2. /\ logins' = <<l.login>> /\ opts' = l.opts /\ UNCHANGED touched
      /\ stage' = IF l.login.outcome = "refused" THEN "refused" ELSE "in"
      /\ shared => scopes' = l.scopes /\ kept' = IF copy THEN Copied(l.opts) ELSE NoOptions
      /\ ~shared => /\ scopes' = Append(l.scopes, l.scopes[l.opts.scope])
                    /\ kept' = [Copied(l.opts) EXCEPT !.scope = Len(l.scopes) + 1]
  BY DEF Login
<1>3. /\ IsSequence(l.scopes) /\ Len(l.scopes) \in Nat
      /\ l.opts = [kind |-> opts.kind, fields |-> opts.fields, scope |-> l.opts.scope]
      /\ l.opts.scope \in 0..Len(l.scopes) /\ (opts.scope # 0 => l.opts.scope = opts.scope)
      /\ l.login.outcome \in {"sent", "refused", "passed"}
      /\ CanReauth(opts.fields) => l.login.outcome # "passed"
  BY <1>1, LoginOutcome
<1>4. l.login.outcome = "sent" =>
        /\ ~Passthrough(opts)
        /\ IF NoScopeAsked(opts) THEN l.login = Sent(opts, Nothing) /\ l.opts = opts
           ELSE /\ l.opts.scope # 0 /\ ~Invalid(l.scopes[l.opts.scope])
                /\ l.login = Sent(opts, l.scopes[l.opts.scope])
  BY <1>1, LoginOutcome
<1>5. \A i \in 1..Len(scopes) : l.scopes[i] = scopes[i]
  BY <1>1, LoginOutcome
<1>6. Len(scopes) \in Nat /\ Len(scopes) <= Len(l.scopes)
  BY <1>1, Longer, LoginOutcome
<1> DEFINE c == Copied(l.opts)
<1>7. /\ c = [kind |-> opts.kind, fields |-> c.fields, scope |-> l.opts.scope]
      /\ \A f \in LoginFields : /\ Has(opts.fields, f) <=> Has(c.fields, f)
                                /\ Has(opts.fields, f) => opts.fields[f] = c.fields[f]
  BY <1>3, CopyAlike
<1> HIDE DEF l, c
<1>8. /\ IsSequence(scopes') /\ Len(scopes') \in Nat /\ Len(scopes') >= Len(l.scopes)
      /\ \A i \in 1..Len(l.scopes) : scopes'[i] = l.scopes[i]
      /\ ~shared => /\ Len(scopes') = Len(l.scopes) + 1
                    /\ scopes'[Len(l.scopes) + 1] = l.scopes[l.opts.scope]
  <2>1. CASE shared
    BY <1>2, <1>3, <2>1
  <2>2. CASE ~shared
    <3> DEFINE e == l.scopes[l.opts.scope]
               longer == Append(l.scopes, e)
    <3>1. /\ IsSequence(longer) /\ Len(longer) = Len(l.scopes) + 1 /\ longer[Len(l.scopes) + 1] = e
          /\ \A i \in 1..Len(l.scopes) : longer[i] = l.scopes[i]
      BY <1>3, Longer
    <3>2. scopes' = longer
      BY <1>2, <2>2
    <3> HIDE DEF longer, e
    <3> QED
      BY <1>3, <3>1, <3>2 DEF e
  <2> QED
    BY <2>1, <2>2
<1>9. /\ opts' = [kind |-> opts.kind, fields |-> opts.fields, scope |-> l.opts.scope]
      /\ opts'.kind = opts.kind /\ opts'.fields = opts.fields /\ opts'.scope = l.opts.scope
  BY <1>2, <1>3
<1>10. IsOptions(opts)'
  BY <1>1, <1>3, <1>8, <1>9 DEF IsOptions
<1>11. logins'[1] = l.login /\ Len(logins') = 1 /\ IsSequence(logins') /\ DOMAIN logins' = {1}
  BY <1>2, SingleSequence
<1>12. TypeInv'
  BY <1>1, <1>2, <1>8, <1>10, <1>11 DEF TypeInv
<1>13. ASSUME l.login.outcome = "sent" PROVE Settled(opts)' /\ l.login = Sent(opts, Asked(opts)')
  <2>1. NoScopeAsked(opts)' <=> NoScopeAsked(opts)
    BY <1>9 DEF NoScopeAsked
  <2>2. ~Passthrough(opts)'
    <3>1. CASE opts.scope = 0
      <4>1. ~Has(opts.fields, "TokenID")
        BY <1>4, <1>13, <3>1 DEF Passthrough, ScopeOf, Nothing
      <4> QED
        BY <1>9, <4>1 DEF Passthrough
    <3>2. CASE opts.scope # 0
      <4>1. opts'.scope = opts.scope /\ scopes'[opts.scope] = scopes[opts.scope]
        BY <1>1, <1>3, <1>5, <1>6, <1>8, <1>9, <3>2 DEF IsOptions
      <4> QED
        BY <1>4, <1>9, <1>13, <3>2, <4>1 DEF Passthrough, ScopeOf
    <3> QED
      BY <3>1, <3>2
  <2>3. CASE NoScopeAsked(opts)
    BY <1>4, <1>13, <2>1, <2>2, <2>3 DEF Settled, Asked
  <2>4. CASE ~NoScopeAsked(opts)
    <3>1. opts'.scope # 0 /\ scopes'[opts'.scope] = l.scopes[l.opts.scope]
      BY <1>3, <1>4, <1>8, <1>9, <1>13, <2>4
    <3> QED
      BY <1>4, <1>13, <2>1, <2>2, <2>4, <3>1 DEF Settled, Asked
  <2> QED
    BY <2>3, <2>4
<1>14. UsedInv'
  <2>1. logins'[1].outcome = "sent" => l.login.scope = LET s == Asked(opts)' IN Values(s, ScopeFields(s))
    BY <1>11, <1>13, SentOutcome
  <2> QED
    BY <1>11, <1>13, <2>1 DEF UsedInv
<1>15. KeptInv'
  <2> SUFFICES ASSUME kept' # NoOptions PROVE KeptInv'
    BY DEF KeptInv
  <2>1. copy /\ l.login.outcome = "sent"
    BY <1>2, <1>3
  <2>2. kept' = [kind |-> opts.kind, fields |-> c.fields, scope |-> kept'.scope]
    <3>1. CASE shared
      BY <1>2, <1>7, <2>1, <3>1 DEF c
    <3>2. CASE ~shared
      <4>1. kept' = [c EXCEPT !.scope = Len(l.scopes) + 1]
        BY <1>2, <3>2 DEF c
      <4> QED
        BY <1>7, <4>1
    <3> QED
      BY <3>1, <3>2
  <2>3. /\ kept'.scope = IF shared THEN l.opts.scope ELSE Len(l.scopes) + 1
        /\ shared => opts.kind # "tokens"
    <3>1. CASE shared
      BY <1>2, <1>3, <1>7, <2>1, <3>1 DEF c
    <3>2. CASE ~shared
      <4>1. kept' = [c EXCEPT !.scope = Len(l.scopes) + 1]
        BY <1>2, <3>2 DEF c
      <4> QED
        BY <1>7, <3>2, <4>1
    <3> QED
      BY <3>1, <3>2
  <2>4. kept'.kind = opts.kind /\ kept'.fields = c.fields
    BY <2>2
  <2>5. IsOptions(kept)' /\ (kept'.kind = "tokens" => kept'.scope # opts'.scope)
    BY <1>1, <1>3, <1>8, <1>9, <2>2, <2>3, <2>4 DEF IsOptions
  <2>6. NoScopeAsked(kept)' <=> NoScopeAsked(opts)'
    BY <1>7, <1>9, <2>4 DEF NoScopeAsked, CarriesScope, HasNone, Has, LoginFields
  <2>7. Asked(kept)' = Asked(opts)' /\ ScopeOf(kept)' = ScopeOf(opts)'
    <3>1. CASE shared
      BY <1>9, <2>3, <2>6, <3>1 DEF Asked, ScopeOf
    <3>2. CASE ~shared
      <4>1. opts'.scope # 0 /\ kept'.scope # 0 /\ scopes'[kept'.scope] = scopes'[opts'.scope]
        BY <1>1, <1>3, <1>8, <1>9, <2>3, <3>2 DEF IsOptions
      <4> QED
        BY <2>6, <4>1 DEF Asked, ScopeOf
    <3> QED
      BY <3>1, <3>2
  <2>8. Settled(kept)'
    <3>1. Settled(opts)'
      BY <1>13, <2>1
    <3>2. ~Passthrough(kept)'
      BY <1>7, <1>9, <2>4, <2>7, <3>1 DEF Settled, Passthrough, LoginFields
    <3>3. ~NoScopeAsked(kept)' => kept'.scope # 0 /\ scopes'[kept'.scope] = scopes'[opts'.scope]
      <4>1. kept'.scope = 0 => opts'.scope = 0
        BY <1>3, <1>9, <2>3
      <4> QED
        BY <2>6, <2>7, <3>1, <4>1 DEF Settled, Asked
    <3> QED
      BY <2>6, <3>1, <3>2, <3>3 DEF Settled
  <2>9. Sent(kept', Asked(kept)') = logins'[1]
    <3>1. Sent(opts, Asked(kept)') = Sent(kept', Asked(kept)')
      BY <1>7, <2>4, SentAlike
    <3> QED
      BY <1>11, <1>13, <2>1, <2>7, <3>1
  <2>10. logins'[1].outcome = "sent"
    BY <1>11, <2>1
  <2> QED
    BY <1>9, <2>4, <2>5, <2>8, <2>9, <2>10 DEF KeptInv
<1>16. LoginIsWhole'
  <2>1. \A i \in DOMAIN logins' : logins'[i] = l.login
    BY <1>11
  <2>2. CASE l.login.outcome = "sent"
    <3>1. PICK s : l.login = Sent(opts, s) /\ (NoScopeAsked(opts) => s = Nothing)
      BY <1>13, <2>2, <1>4
    <3>2. WholeLogin(l.login, opts.kind)
      BY <1>1, <2>2, <3>1, SentWhole DEF IsOptions
    <3> QED
      BY <1>9, <2>1, <3>2 DEF LoginIsWhole, WholeLogin
  <2>3. CASE l.login.outcome # "sent"
    BY <2>1, <2>3 DEF LoginIsWhole
  <2> QED
    BY <2>2, <2>3
<1> QED
  BY <1>12, <1>14, <1>15, <1>16

(* The application changes its options. *)
LEMMA EditFieldStep ==
  ASSUME IInv, NEW f, EditField(f)
  PROVE  (TypeInv /\ KeptInv /\ UsedInv /\ LoginIsWhole)'
<1>1. /\ stage = "in" /\ IsOptions(opts) /\ opts' = [opts EXCEPT !.fields[f] = "edited"]
      /\ UNCHANGED <<stage, kept, scopes, logins, touched>>
  BY DEF IInv, TypeInv, EditField
<1>2. /\ opts' = [kind |-> opts.kind, fields |-> opts'.fields, scope |-> opts.scope]
      /\ opts'.kind = opts.kind /\ opts'.scope = opts.scope /\ DOMAIN opts'.fields = DOMAIN opts.fields
  BY <1>1 DEF IsOptions
<1>3. TypeInv'
  BY <1>1, <1>2 DEF IInv, TypeInv, IsOptions
<1>4. KeptInv'
  BY <1>1, <1>2 DEF IInv, KeptInv, IsOptions, Settled, Passthrough, ScopeOf, Asked
<1>5. UsedInv'
  <2>1. NoScopeAsked(opts') <=> NoScopeAsked(opts)
    BY <1>2 DEF NoScopeAsked, CarriesScope, HasNone
  <2>2. Asked(opts)' = Asked(opts) /\ (Settled(opts) => Settled(opts)')
    BY <1>1, <1>2, <2>1 DEF Asked, Settled, Passthrough, ScopeOf, Has
  <2> QED
    BY <1>1, <2>2 DEF IInv, UsedInv
<1>6. LoginIsWhole'
  BY <1>1, <1>2 DEF IInv, LoginIsWhole
<1> QED
  BY <1>3, <1>4, <1>5, <1>6

LEMMA EditScopeStep == IInv /\ EditScope => (TypeInv /\ KeptInv /\ UsedInv /\ LoginIsWhole)'
<1> SUFFICES ASSUME IInv, EditScope PROVE (TypeInv /\ KeptInv /\ UsedInv /\ LoginIsWhole)'
  OBVIOUS
<1>1. /\ stage = "in" /\ IsOptions(opts) /\ IsSequence(scopes) /\ touched' = TRUE
      /\ scopes' = [scopes EXCEPT ![opts.scope] = [f \in DOMAIN @ |-> "edited"]]
      /\ UNCHANGED <<stage, opts, kept, logins>>
  BY DEF IInv, TypeInv, EditScope
<1>2. /\ IsSequence(scopes') /\ Len(scopes') = Len(scopes) /\ Len(scopes) \in Nat
      /\ \A i \in 1..Len(scopes) : /\ DOMAIN scopes'[i] = DOMAIN scopes[i]
                                   /\ i # opts.scope => scopes'[i] = scopes[i]
  <2>1. PICK S : scopes \in Seq(S)
    BY <1>1 DEF IsSequence
  <2> DEFINE new == [f \in DOMAIN scopes[opts.scope] |-> "edited"]
  <2>2. scopes' \in Seq(S \cup {new}) /\ Len(scopes') = Len(scopes) /\ Len(scopes) \in Nat
    <3> DEFINE n == Len(scopes)
    <3>1. n \in Nat /\ scopes \in [1..n -> S]
      BY <2>1
    <3> HIDE DEF n
    <3>2. scopes' = [scopes EXCEPT ![opts.scope] = new]
      BY <1>1
    <3> HIDE DEF new
    <3>3. scopes' \in [1..n -> S \cup {new}]
      BY <3>1, <3>2
    <3> QED
      BY <3>1, <3>3 DEF n
  <2>3. \A i \in 1..Len(scopes) : scopes'[i] = IF i = opts.scope THEN new ELSE scopes[i]
    BY <1>1, <2>1
  <2> QED
    BY <2>2, <2>3 DEF IsSequence
<1>3. TypeInv'
  BY <1>1, <1>2 DEF IInv, TypeInv, IsOptions
<1>4. ASSUME NEW o, IsOptions(o), Settled(o)
      PROVE  /\ IsOptions(o)' /\ Settled(o)'
             /\ o.scope # opts.scope => Asked(o)' = Asked(o)
  <2>1. IsOptions(o)'
    BY <1>2, <1>4 DEF IsOptions
  <2>2. DOMAIN ScopeOf(o)' = DOMAIN ScopeOf(o)
    BY <1>2, <1>4 DEF ScopeOf, IsOptions
  <2>3. ~NoScopeAsked(o) => o.scope \in 1..Len(scopes)
    BY <1>2, <1>4 DEF IsOptions, Settled
  <2>4. ~NoScopeAsked(o) => ~Invalid(scopes'[o.scope])
    BY <1>2, <1>4, <2>3 DEF Settled, Invalid, HasNone, Has
  <2>5. Settled(o)'
    BY <1>4, <2>2, <2>4 DEF Settled, Passthrough
  <2> QED
    BY <1>2, <2>1, <2>3, <2>5 DEF Asked
<1>5. KeptInv'
  <2> SUFFICES ASSUME kept # NoOptions PROVE KeptInv'
    BY <1>1 DEF KeptInv
  <2>1. /\ IsOptions(kept) /\ Settled(kept) /\ kept.kind = opts.kind
        /\ kept.kind = "tokens" => kept.scope # opts.scope
    BY <1>1 DEF IInv, KeptInv
  <2>2. /\ Sent(kept, Asked(kept)').outcome = Sent(kept, Asked(kept)).outcome
        /\ Sent(kept, Asked(kept)').body = Sent(kept, Asked(kept)).body
    BY DEF Sent
  <2>3. IsOptions(kept)' /\ Settled(kept)' /\ (kept.kind = "tokens" => Asked(kept)' = Asked(kept))
    BY <1>1, <1>4, <2>1
  <2>4. Sent(kept', Asked(kept)') = Sent(kept, Asked(kept)')
    BY <1>1
  <2>5. kept.kind \in {"gophercloud", "tokens"}
    BY <2>1 DEF IsOptions
  <2> QED
    BY <1>1, <2>1, <2>2, <2>3, <2>4, <2>5 DEF IInv, KeptInv
<1>6. UsedInv'
  BY <1>1, <1>4 DEF IInv, UsedInv
<1>7. LoginIsWhole'
  BY <1>1 DEF IInv, LoginIsWhole
<1> QED
  BY <1>3, <1>5, <1>6, <1>7

(* The later login. *)
LEMMA ReloginStep == IInv /\ Relogin => (TypeInv /\ KeptInv /\ UsedInv /\ LoginIsWhole /\ LaterLoginsRepeat)'
<1> SUFFICES ASSUME IInv, Relogin PROVE (TypeInv /\ KeptInv /\ UsedInv /\ LoginIsWhole /\ LaterLoginsRepeat)'
  OBVIOUS
<1> DEFINE login == Sent(kept, Asked(kept))
<1>1. /\ stage = "in" /\ kept # NoOptions /\ IsOptions(opts) /\ IsOptions(kept) /\ kept.kind = opts.kind
      /\ kept.kind = "tokens" => kept.scope # opts.scope
      /\ IsSequence(logins) /\ Len(logins) = 1
  BY DEF IInv, TypeInv, KeptInv, Relogin
<1>2. /\ Settled(kept) /\ login.outcome = "sent" /\ login.body = logins[1].body
      /\ login.scope = logins[1].scope \/ (touched /\ kept.kind = "gophercloud")
  BY <1>1 DEF IInv, KeptInv
<1>3. LoginWith(kept) = [login |-> login, opts |-> kept, scopes |-> scopes]
  BY <1>2, SettledLogin
<1>4. /\ logins' = Append(logins, login) /\ kept' = kept /\ scopes' = scopes
      /\ stage' = "reauthenticated" /\ UNCHANGED <<opts, touched>>
  BY <1>3 DEF Relogin
<1>5. /\ IsSequence(logins') /\ DOMAIN logins' = {1, 2} /\ logins'[1] = logins[1] /\ logins'[2] = login
      /\ DOMAIN logins = {1}
  <2> HIDE DEF login
  <2> QED
    BY <1>1, <1>4, SecondLogin
<1>6. TypeInv' /\ KeptInv' /\ UsedInv'
  BY <1>1, <1>4, <1>5 DEF IInv, TypeInv, KeptInv, UsedInv, IsOptions
<1>7. WholeLogin(login, kept.kind)
  BY <1>1, <1>2, SentWhole DEF IsOptions, Asked
<1>8. LoginIsWhole'
  <2>1. \A i \in DOMAIN logins : logins[i].outcome = "sent" => WholeLogin(logins[i], opts.kind)
    BY DEF IInv, LoginIsWhole, WholeLogin
  <2>2. \A i \in DOMAIN logins' : logins'[i].outcome = "sent" => WholeLogin(logins'[i], opts'.kind)
    BY <1>1, <1>4, <1>5, <1>7, <2>1
  <2> QED
    BY <2>2 DEF LoginIsWhole, WholeLogin
<1>9. LaterLoginsRepeat'
  BY <1>1, <1>2, <1>4, <1>5 DEF LaterLoginsRepeat
<1> QED
  BY <1>6, <1>8, <1>9

LEMMA LoginAgainStep == IInv /\ LoginAgain => (TypeInv /\ KeptInv /\ UsedInv /\ LoginIsWhole /\ LaterLoginsRepeat)'
<1> SUFFICES ASSUME IInv, LoginAgain PROVE (TypeInv /\ KeptInv /\ UsedInv /\ LoginIsWhole /\ LaterLoginsRepeat)'
  OBVIOUS
<1> DEFINE login == Sent(opts, Asked(opts))
<1>1. /\ stage = "in" /\ IsOptions(opts) /\ IsSequence(logins) /\ Len(logins) = 1
      /\ logins[1].outcome = "sent"
  BY DEF IInv, TypeInv, LoginAgain
<1>2. /\ Settled(opts)
      /\ ~touched => logins[1].scope = LET s == Asked(opts) IN Values(s, ScopeFields(s))
  BY <1>1 DEF IInv, UsedInv
<1>3. LoginWith(opts) = [login |-> login, opts |-> opts, scopes |-> scopes]
  BY <1>2, SettledLogin
<1>4. /\ logins' = Append(logins, login) /\ opts' = opts /\ scopes' = scopes
      /\ stage' = "again" /\ UNCHANGED <<kept, touched>>
  BY <1>3 DEF LoginAgain
<1>5. /\ IsSequence(logins') /\ DOMAIN logins' = {1, 2} /\ logins'[1] = logins[1] /\ logins'[2] = login
      /\ DOMAIN logins = {1}
  <2> HIDE DEF login
  <2> QED
    BY <1>1, <1>4, SecondLogin
<1>6. TypeInv' /\ KeptInv' /\ UsedInv'
  BY <1>1, <1>4, <1>5 DEF IInv, TypeInv, KeptInv, UsedInv, IsOptions
<1>7. login.outcome = "sent" => WholeLogin(login, opts.kind)
  BY <1>1, <1>2, SentWhole DEF IsOptions, Asked
<1>8. LoginIsWhole'
  <2>1. \A i \in DOMAIN logins : logins[i].outcome = "sent" => WholeLogin(logins[i], opts.kind)
    BY DEF IInv, LoginIsWhole, WholeLogin
  <2>2. \A i \in DOMAIN logins' : logins'[i].outcome = "sent" => WholeLogin(logins'[i], opts'.kind)
    BY <1>1, <1>4, <1>5, <1>7, <2>1
  <2> QED
    BY <2>2 DEF LoginIsWhole, WholeLogin
<1>9. LaterLoginsRepeat'
  <2>1. login.outcome = "sent" => login.scope = LET s == Asked(opts) IN Values(s, ScopeFields(s))
    BY SentOutcome
  <2> QED
    BY <1>2, <1>4, <1>5, <2>1 DEF LaterLoginsRepeat
<1> QED
  BY <1>6, <1>8, <1>9

-----------------------------------------------------------------------------
(* What the options are made from. *)

LEMMA DefaultIsValid ==
  ASSUME NEW o, Invalid(DefaultScope(o))
  PROVE  ~Has(o, "TenantID") /\ Has(o, "TenantName") /\ HasNone(o, {"DomainID", "DomainName"})
<1>1. CASE Has(o, "TenantID")
  <2>1. DOMAIN DefaultScope(o) = {"ProjectID"}
    BY <1>1 DEF DefaultScope, Setting
  <2> QED
    BY <2>1 DEF Invalid, HasNone, Has
<1>2. CASE ~Has(o, "TenantID") /\ Has(o, "TenantName")
  <2> DEFINE names == [ProjectName |-> "TenantName", DomainID |-> "DomainID", DomainName |-> "DomainName"]
  <2>1. DOMAIN names = {"ProjectName", "DomainID", "DomainName"}
        /\ names["ProjectName"] = "TenantName" /\ names["DomainID"] = "DomainID" /\ names["DomainName"] = "DomainName"
    OBVIOUS
  <2>2. DefaultScope(o) = Renamed(o, names)
    BY <1>2 DEF DefaultScope
  <2> HIDE DEF names
  <2>3. DOMAIN DefaultScope(o) = {n \in {"ProjectName", "DomainID", "DomainName"} : Has(o, names[n])}
    BY <2>1, <2>2 DEF Renamed
  <2>4. /\ Has(DefaultScope(o), "ProjectName") /\ HasNone(DefaultScope(o), {"System", "TrustID"})
        /\ ~Has(DefaultScope(o), "ProjectID")
        /\ Has(DefaultScope(o), "DomainID") <=> Has(o, "DomainID")
        /\ Has(DefaultScope(o), "DomainName") <=> Has(o, "DomainName")
    BY <1>2, <2>1, <2>3 DEF Has, HasNone
  <2> QED
    BY <1>2, <2>4 DEF Invalid, HasNone, Has
<1>3. CASE ~Has(o, "TenantID") /\ ~Has(o, "TenantName")
  <2>1. DOMAIN DefaultScope(o) = {}
    BY <1>3 DEF DefaultScope, Nothing
  <2> QED
    BY <2>1 DEF Invalid, HasNone, Has
<1> QED
  BY <1>1, <1>2, <1>3

LEMMA EnvScope ==
  ASSUME NEW o, ~EnvRefused(o)
  PROVE  ~Invalid(DefaultScope(o)) /\ ~Invalid(Setting("System", "all"))
<1>1. ~Invalid(DefaultScope(o))
  BY DefaultIsValid DEF EnvRefused, HasNone, Has
<1>2. ~Invalid(Setting("System", "all"))
  BY DEF Setting, Invalid, HasNone
<1> QED
  BY <1>1, <1>2

LEMMA KeysOf ==
  ASSUME NEW f \in DOMAIN Keys
  PROVE  DOMAIN Keys[f] \in {{1}, {1, 2}} /\ \A k \in DOMAIN Keys[f] : Keys[f][k] # "verify"
  BY DEF Keys

LEMMA FirstFound ==
  ASSUME NEW cloud0, NEW keys, DOMAIN keys \in {{1}, {1, 2}}, Found(cloud0, keys) # {}
  PROVE  LET i == First(Found(cloud0, keys))
         IN  i \in DOMAIN keys /\ Has(cloud0, keys[i]) /\ \A j \in DOMAIN keys : Has(cloud0, keys[j]) => i <= j
<1>1. Found(cloud0, keys) \subseteq {1, 2}
  BY DEF Found
<1>2. \E i \in Found(cloud0, keys) : \A j \in Found(cloud0, keys) : i <= j
  BY <1>1
<1>3. First(Found(cloud0, keys)) \in Found(cloud0, keys) /\ \A j \in Found(cloud0, keys) : First(Found(cloud0, keys)) <= j
  BY <1>2 DEF First
<1> QED
  BY <1>3 DEF Found

LEMMA BestFound ==
  ASSUME NEW files, DOMAIN files = {1, 2, 3}, NEW keys, DOMAIN keys \in {{1}, {1, 2}},
         \E i \in DOMAIN files : \E k \in DOMAIN keys : Has(files[i], keys[k])
  PROVE  LET p == Best(files, keys)
         IN  /\ p[1] \in DOMAIN keys /\ p[2] \in {1, 2, 3} /\ Has(files[p[2]], keys[p[1]])
             /\ \A k \in DOMAIN keys, i \in {1, 2, 3} :
                  Has(files[i], keys[k]) => p[1] < k \/ (p[1] = k /\ p[2] <= i)
<1> DEFINE found == {p \in (DOMAIN keys) \X (DOMAIN files) : Has(files[p[2]], keys[p[1]])}
           Least(p) == \A q \in found : p[1] < q[1] \/ (p[1] = q[1] /\ p[2] <= q[2])
<1>1. \A k \in DOMAIN keys, i \in {1, 2, 3} : Has(files[i], keys[k]) <=> <<k, i>> \in found
  OBVIOUS
<1>2. \A p \in found : p = <<p[1], p[2]>> /\ p[1] \in DOMAIN keys /\ p[2] \in {1, 2, 3} /\ Has(files[p[2]], keys[p[1]])
  OBVIOUS
<1>3. \E p \in found : Least(p)
  <2>1. ASSUME NEW k \in DOMAIN keys, \E i \in {1, 2, 3} : <<k, i>> \in found
        PROVE  \E i \in {1, 2, 3} : <<k, i>> \in found /\ \A j \in {1, 2, 3} : <<k, j>> \in found => i <= j
    <3> HIDE DEF found
    <3> QED BY <2>1
  <2>2. CASE \E i \in {1, 2, 3} : <<1, i>> \in found
    <3>1. PICK i \in {1, 2, 3} : <<1, i>> \in found /\ \A j \in {1, 2, 3} : <<1, j>> \in found => i <= j
      BY <2>1, <2>2
    <3> HIDE DEF found
    <3>2. Least(<<1, i>>)
      BY <1>2, <3>1
    <3> QED
      BY <3>1, <3>2
  <2>3. CASE ~(\E i \in {1, 2, 3} : <<1, i>> \in found)
    <3>1. DOMAIN keys = {1, 2} /\ \E i \in {1, 2, 3} : <<2, i>> \in found
      BY <1>1, <2>3
    <3>2. PICK i \in {1, 2, 3} : <<2, i>> \in found /\ \A j \in {1, 2, 3} : <<2, j>> \in found => i <= j
      BY <2>1, <3>1
    <3> HIDE DEF found
    <3>3. Least(<<2, i>>)
      BY <1>2, <2>3, <3>1, <3>2
    <3> QED
      BY <3>2, <3>3
  <2> QED
    BY <2>2, <2>3
<1>4. Best(files, keys) \in found /\ Least(Best(files, keys))
  BY <1>3 DEF Best
<1> HIDE DEF found
<1> QED
  BY <1>1, <1>2, <1>4

(* What the merges make of three files. *)
Merged(c) == MergeWithPublicClouds(MergeClouds(c.secure, c.clouds), c.public)

LEMMA Merging ==
  ASSUME NEW over, NEW under
  PROVE  LET m == MergeClouds(over, under)
         IN  /\ DOMAIN m = DOMAIN over \cup DOMAIN under
             /\ \A k \in DOMAIN m : k # "verify" => m[k] = IF k \in DOMAIN over THEN over[k] ELSE under[k]
             /\ "verify" \in DOMAIN m /\ ~m["verify"][2] =>
                  /\ "verify" \in DOMAIN over => ~over["verify"][2]
                  /\ "verify" \in DOMAIN under => ~under["verify"][2]
<1> DEFINE m == MergeClouds(over, under)
<1>1. m = [k \in DOMAIN over \cup DOMAIN under |->
            IF k \in DOMAIN over /\ (Zero(k, over[k]) => k \notin DOMAIN under) THEN over[k] ELSE under[k]]
  BY DEF MergeClouds
<1>2. \A v : Zero("verify", v) <=> ~v[2]
  BY DEF Zero
<1>3. \A k, v : k # "verify" => ~Zero(k, v)
  BY DEF Zero
<1> HIDE DEF m
<1>4. DOMAIN m = DOMAIN over \cup DOMAIN under
  BY <1>1
<1>5. \A k \in DOMAIN m : k # "verify" => m[k] = IF k \in DOMAIN over THEN over[k] ELSE under[k]
  BY <1>1, <1>3
<1>6. "verify" \in DOMAIN m =>
        m["verify"] = IF "verify" \in DOMAIN over /\ (~over["verify"][2] => "verify" \notin DOMAIN under)
                      THEN over["verify"] ELSE under["verify"]
  BY <1>1, <1>2
<1> QED
  BY <1>4, <1>5, <1>6 DEF m

LEMMA MergedFiles ==
  ASSUME NEW c
  PROVE  LET m == Merged(c)
             files == Files(c)
         IN  /\ DOMAIN files = {1, 2, 3}
             /\ \A k : Has(m, k) <=> \E i \in {1, 2, 3} : Has(files[i], k)
             /\ \A k : \A i \in {1, 2, 3} : k # "verify" /\ Has(files[i], k) /\ (\A j \in {1, 2, 3} : Has(files[j], k) => i <= j)
                  => m[k] = files[i][k]
             /\ Has(m, "verify") /\ ~m["verify"][2] =>
                  \A i \in {1, 2, 3} : Has(files[i], "verify") => ~files[i]["verify"][2]
<1> DEFINE own == MergeClouds(c.secure, c.clouds)
           both == Over(c.secure, c.clouds)
           files == Files(c)
           m == Merged(c)
<1>1. DOMAIN files = {1, 2, 3} /\ files[1] = c.secure /\ files[2] = c.clouds /\ files[3] = Parent(c)
  BY DEF Files
<1>2. /\ DOMAIN own = DOMAIN c.secure \cup DOMAIN c.clouds
      /\ \A k \in DOMAIN own : k # "verify" => own[k] = IF k \in DOMAIN c.secure THEN c.secure[k] ELSE c.clouds[k]
      /\ "verify" \in DOMAIN own /\ ~own["verify"][2] =>
           /\ "verify" \in DOMAIN c.secure => ~c.secure["verify"][2]
           /\ "verify" \in DOMAIN c.clouds => ~c.clouds["verify"][2]
  BY Merging
<1>3. DOMAIN own = DOMAIN both /\ \A k \in DOMAIN own : k # "verify" => own[k] = both[k]
  <2>1. /\ DOMAIN both = DOMAIN c.secure \cup DOMAIN c.clouds
        /\ \A k \in DOMAIN both : both[k] = IF k \in DOMAIN c.secure THEN c.secure[k] ELSE c.clouds[k]
    BY DEF Over
  <2> HIDE DEF own, both
  <2> QED
    BY <1>2, <2>1
<1>4. \A name \in {"profile", "cloud"} :
        (Has(own, name) <=> Has(both, name)) /\ (Has(own, name) => own[name] = both[name])
  BY <1>3 DEF Has
<1>5. (m = own /\ Parent(c) = Nothing) \/ m = MergeClouds(own, Parent(c))
  <2> HIDE DEF own, both
  <2> DEFINE name == IF Has(own, "profile") THEN "profile" ELSE "cloud"
  <2>1. name \in {"profile", "cloud"} /\ name = IF Has(both, "profile") THEN "profile" ELSE "cloud"
    BY <1>4
  <2>2. m = IF Has(own, name) /\ own[name] \in DOMAIN c.public THEN MergeClouds(own, c.public[own[name]]) ELSE own
    BY DEF Merged, MergeWithPublicClouds, own
  <2>3. Parent(c) = IF Has(both, name) /\ both[name] \in DOMAIN c.public THEN c.public[both[name]] ELSE Nothing
    BY <2>1 DEF Parent, both
  <2> HIDE DEF name
  <2> QED
    BY <1>4, <2>1, <2>2, <2>3
<1>6. DOMAIN Nothing = {}
  BY DEF Nothing
<1>8. /\ DOMAIN m = DOMAIN own \cup DOMAIN Parent(c)
      /\ \A k \in DOMAIN m : k # "verify" => m[k] = IF k \in DOMAIN own THEN own[k] ELSE Parent(c)[k]
      /\ "verify" \in DOMAIN m /\ ~m["verify"][2] =>
           /\ "verify" \in DOMAIN own => ~own["verify"][2]
           /\ "verify" \in DOMAIN Parent(c) => ~Parent(c)["verify"][2]
  <2> HIDE DEF own, m
  <2>1. CASE m = own /\ Parent(c) = Nothing
    BY <1>6, <2>1
  <2>2. CASE m = MergeClouds(own, Parent(c))
    <3> DEFINE n == MergeClouds(own, Parent(c))
    <3>1. /\ DOMAIN n = DOMAIN own \cup DOMAIN Parent(c)
          /\ \A k \in DOMAIN n : k # "verify" => n[k] = IF k \in DOMAIN own THEN own[k] ELSE Parent(c)[k]
          /\ "verify" \in DOMAIN n /\ ~n["verify"][2] =>
               /\ "verify" \in DOMAIN own => ~own["verify"][2]
               /\ "verify" \in DOMAIN Parent(c) => ~Parent(c)["verify"][2]
      BY Merging
    <3>2. m = n
      BY <2>2
    <3> QED
      BY <3>1, <3>2
  <2> QED
    BY <1>5, <2>1, <2>2
<1> HIDE DEF own, m, files
<1>9. \A k : Has(m, k) <=> \E i \in {1, 2, 3} : Has(files[i], k)
  BY <1>1, <1>2, <1>8 DEF Has
<1>10. ASSUME NEW k, NEW i \in {1, 2, 3}, k # "verify", Has(files[i], k), \A j \in {1, 2, 3} : Has(files[j], k) => i <= j
       PROVE  m[k] = files[i][k]
  <2>1. k \in DOMAIN m
    BY <1>9, <1>10 DEF Has
  <2>2. CASE i = 1
    BY <1>1, <1>2, <1>8, <1>10, <2>1, <2>2 DEF Has
  <2>3. CASE i = 2
    <3>1. k \notin DOMAIN c.secure
      BY <1>1, <1>10, <2>3 DEF Has
    <3> QED
      BY <1>1, <1>2, <1>8, <1>10, <2>1, <2>3, <3>1 DEF Has
  <2>4. CASE i = 3
    <3>1. k \notin DOMAIN c.secure /\ k \notin DOMAIN c.clouds
      BY <1>1, <1>10, <2>4 DEF Has
    <3> QED
      BY <1>1, <1>2, <1>8, <1>10, <2>1, <2>4, <3>1 DEF Has
  <2> QED
    BY <2>2, <2>3, <2>4
<1>11. Has(m, "verify") /\ ~m["verify"][2] =>
         \A i \in {1, 2, 3} : Has(files[i], "verify") => ~files[i]["verify"][2]
  BY <1>1, <1>2, <1>8 DEF Has
<1>12. \A k : \A i \in {1, 2, 3} : k # "verify" /\ Has(files[i], k) /\ (\A j \in {1, 2, 3} : Has(files[j], k) => i <= j)
         => m[k] = files[i][k]
  BY <1>10
<1> QED
  BY <1>1, <1>9, <1>11, <1>12 DEF m, files

(* Of several keys the first that the entry has. *)
IsFirst(i, entry, keys) ==
  /\ i \in DOMAIN keys /\ Has(entry, keys[i])
  /\ \A j \in DOMAIN keys : Has(entry, keys[j]) => i <= j

LEMMA Coalescing ==
  ASSUME NEW options, NEW entry, NEW field, NEW keys, DOMAIN keys \in {{1}, {1, 2}}
  PROVE  LET v == Coalesced(options, entry, field, keys)
         IN  /\ DOMAIN v \subseteq {field}
             /\ Has(v, field) <=> Has(options, field) \/ \E i \in DOMAIN keys : Has(entry, keys[i])
             /\ Has(options, field) => v[field] = options[field]
             /\ \A i : IsFirst(i, entry, keys) /\ ~Has(options, field) => v[field] = entry[keys[i]]
<1> DEFINE v == Coalesced(options, entry, field, keys)
<1>1. \A x : DOMAIN Setting(field, x) = {field} /\ Setting(field, x)[field] = x
  BY DEF Setting
<1>2. Found(entry, keys) # {} <=> \E i \in DOMAIN keys : Has(entry, keys[i])
  BY DEF Found
<1>3. Has(options, field) => DOMAIN v = {field} /\ v[field] = options[field]
  BY <1>1 DEF Coalesced
<1>4. ASSUME ~Has(options, field), Found(entry, keys) # {}
      PROVE  /\ DOMAIN v = {field}
             /\ \A i : IsFirst(i, entry, keys) => v[field] = entry[keys[i]]
  <2> DEFINE f == First(Found(entry, keys))
  <2>1. v = Setting(field, entry[keys[f]])
    BY <1>4 DEF Coalesced
  <2>2. f \in DOMAIN keys /\ Has(entry, keys[f]) /\ \A j \in DOMAIN keys : Has(entry, keys[j]) => f <= j
    BY <1>4, FirstFound
  <2> HIDE DEF f, v
  <2>3. \A i : IsFirst(i, entry, keys) => i = f
    BY <2>2 DEF IsFirst
  <2> QED
    BY <1>1, <2>1, <2>3
<1>5. ~Has(options, field) /\ Found(entry, keys) = {} => DOMAIN v = {}
  BY DEF Coalesced, Nothing
<1> HIDE DEF v
<1>6. /\ DOMAIN v \subseteq {field}
      /\ Has(v, field) <=> Has(options, field) \/ \E i \in DOMAIN keys : Has(entry, keys[i])
      /\ Has(options, field) => v[field] = options[field]
  BY <1>2, <1>3, <1>4, <1>5 DEF Has
<1>7. \A i : IsFirst(i, entry, keys) /\ ~Has(options, field) => v[field] = entry[keys[i]]
  BY <1>2, <1>4 DEF IsFirst
<1> QED
  BY <1>6, <1>7 DEF v

LEMMA ParsedFields ==
  ASSUME NEW options, NEW entry
  PROVE  LET o == ParsedOptions(options, entry)
         IN  /\ DOMAIN o \subseteq DOMAIN Keys
             /\ \A f \in DOMAIN Keys :
                  /\ Has(o, f) <=> Has(options, f) \/ \E i \in DOMAIN Keys[f] : Has(entry, Keys[f][i])
                  /\ Has(options, f) => o[f] = options[f]
                  /\ \A i : IsFirst(i, entry, Keys[f]) /\ ~Has(options, f) => o[f] = entry[Keys[f][i]]
<1> DEFINE at(f) == Coalesced(options, entry, f, Keys[f])
           o == ParsedOptions(options, entry)
<1>1. o = [f \in {g \in DOMAIN Keys : Has(at(g), g)} |-> at(f)[f]]
  BY DEF ParsedOptions
<1>2. DOMAIN o \subseteq DOMAIN Keys
  BY <1>1
<1>3. ASSUME NEW f \in DOMAIN Keys
      PROVE  (Has(o, f) <=> Has(at(f), f)) /\ (Has(o, f) => o[f] = at(f)[f])
  BY <1>1 DEF Has
<1>4. ASSUME NEW f \in DOMAIN Keys
      PROVE  /\ Has(o, f) <=> Has(options, f) \/ \E i \in DOMAIN Keys[f] : Has(entry, Keys[f][i])
             /\ Has(options, f) => o[f] = options[f]
             /\ \A i : IsFirst(i, entry, Keys[f]) /\ ~Has(options, f) => o[f] = entry[Keys[f][i]]
  <2> DEFINE keys == Keys[f]
             v == Coalesced(options, entry, f, keys)
  <2>1. DOMAIN keys \in {{1}, {1, 2}}
    BY KeysOf
  <2> HIDE DEF keys
  <2>2. /\ Has(v, f) <=> Has(options, f) \/ \E i \in DOMAIN keys : Has(entry, keys[i])
        /\ Has(options, f) => v[f] = options[f]
        /\ \A i : IsFirst(i, entry, keys) /\ ~Has(options, f) => v[f] = entry[keys[i]]
    BY <2>1, Coalescing
  <2>3. (Has(o, f) <=> Has(v, f)) /\ (Has(o, f) => o[f] = v[f])
    BY <1>3 DEF keys
  <2> HIDE DEF o, v
  <2>4. /\ Has(o, f) <=> Has(options, f) \/ \E i \in DOMAIN keys : Has(entry, keys[i])
        /\ Has(options, f) => o[f] = options[f]
        /\ \A i : IsFirst(i, entry, keys) /\ ~Has(options, f) => o[f] = entry[keys[i]]
    BY <2>2, <2>3 DEF IsFirst
  <2> QED
    BY <2>4 DEF keys, o
<1> QED
  BY <1>2, <1>4

(* Parse takes each field from the best source that has it. *)
LEMMA FieldsFromTheBest ==
  ASSUME NEW c, NEW f \in DOMAIN Keys
  PROVE  LET files == Files(c)
             o == ParsedOptions(c.options, Merged(c))
             somewhere == \E i \in DOMAIN files : \E k \in DOMAIN Keys[f] : Has(files[i], Keys[f][k])
         IN  IF Has(c.options, f) THEN Has(o, f) /\ o[f] = c.options[f]
             ELSE IF somewhere
             THEN LET p == Best(files, Keys[f]) IN Has(o, f) /\ o[f] = files[p[2]][Keys[f][p[1]]]
             ELSE ~Has(o, f)
<1> DEFINE files == Files(c)
           keys == Keys[f]
           m == Merged(c)
           o == ParsedOptions(c.options, m)
           somewhere == \E i \in DOMAIN files : \E k \in DOMAIN keys : Has(files[i], keys[k])
           p == Best(files, keys)
<1>1. DOMAIN keys \in {{1}, {1, 2}} /\ \A k \in DOMAIN keys : keys[k] # "verify"
  BY KeysOf
<1>2. /\ Has(o, f) <=> Has(c.options, f) \/ \E i \in DOMAIN keys : Has(m, keys[i])
      /\ Has(c.options, f) => o[f] = c.options[f]
      /\ \A i : IsFirst(i, m, keys) /\ ~Has(c.options, f) => o[f] = m[keys[i]]
  BY ParsedFields
<1>3. /\ DOMAIN files = {1, 2, 3}
      /\ \A k : Has(m, k) <=> \E i \in {1, 2, 3} : Has(files[i], k)
      /\ \A k : \A i \in {1, 2, 3} : k # "verify" /\ Has(files[i], k) /\ (\A j \in {1, 2, 3} : Has(files[j], k) => i <= j)
           => m[k] = files[i][k]
  BY MergedFiles
<1> HIDE DEF files, keys, m, o
<1>4. somewhere <=> \E k \in DOMAIN keys : Has(m, keys[k])
  BY <1>3
<1>5. ASSUME somewhere, ~Has(c.options, f) PROVE Has(o, f) /\ o[f] = files[p[2]][keys[p[1]]]
  <2>1. /\ p[1] \in DOMAIN keys /\ p[2] \in {1, 2, 3} /\ Has(files[p[2]], keys[p[1]])
        /\ \A k \in DOMAIN keys, i \in {1, 2, 3} :
             Has(files[i], keys[k]) => p[1] < k \/ (p[1] = k /\ p[2] <= i)
    BY <1>1, <1>3, <1>5, BestFound
  <2> HIDE DEF p
  <2>2. \A j \in DOMAIN keys : Has(m, keys[j]) => p[1] <= j
    BY <1>1, <1>3, <2>1
  <2>3. \A j \in {1, 2, 3} : Has(files[j], keys[p[1]]) => p[2] <= j
    BY <1>1, <2>1
  <2>4. Has(m, keys[p[1]]) /\ m[keys[p[1]]] = files[p[2]][keys[p[1]]]
    BY <1>1, <1>3, <2>1, <2>3
  <2>5. o[f] = m[keys[p[1]]]
    BY <1>2, <1>5, <2>1, <2>2, <2>4 DEF IsFirst
  <2> QED
    BY <1>2, <2>1, <2>4, <2>5
<1>6. IF Has(c.options, f) THEN Has(o, f) /\ o[f] = c.options[f]
      ELSE IF somewhere THEN Has(o, f) /\ o[f] = files[p[2]][keys[p[1]]]
      ELSE ~Has(o, f)
  <2> HIDE DEF somewhere, p
  <2> QED
    BY <1>2, <1>4, <1>5
<1> QED
  BY <1>6 DEF files, keys, m, o

-----------------------------------------------------------------------------
(* Options from the program, the environment or clouds.yaml. *)

LEMMA ReadyOptions ==
  ASSUME TypeInv, stage = "start", NEW kind \in {"gophercloud", "tokens"}, NEW fields, NEW scope,
         Ready(kind, fields, scope)
  PROVE  /\ stage' = "ready" /\ IsSequence(scopes)' /\ IsOptions(opts)' /\ opts'.fields = fields
         /\ DOMAIN scope = {} \/ opts'.scope # 0
         /\ opts'.scope # 0 => ScopeOf(opts)' = scope
<1>1. CASE kind = "gophercloud" /\ DOMAIN scope = {}
  <2>1. opts' = [kind |-> kind, fields |-> fields, scope |-> 0] /\ scopes' = <<>> /\ stage' = "ready"
    BY <1>1 DEF Ready, TypeInv
  <2>2. IsSequence(<<>>) /\ Len(<<>>) = 0
    BY SingleSequence
  <2> QED
    BY <1>1, <2>1, <2>2 DEF IsOptions
<1>2. CASE ~(kind = "gophercloud" /\ DOMAIN scope = {})
  <2>1. opts' = [kind |-> kind, fields |-> fields, scope |-> 1] /\ scopes' = <<scope>> /\ stage' = "ready"
    BY <1>2 DEF Ready
  <2>2. IsSequence(scopes') /\ Len(scopes') = 1 /\ scopes'[1] = scope
    BY <2>1, SingleSequence
  <2> QED
    BY <2>1, <2>2 DEF IsOptions, ScopeOf
<1> QED
  BY <1>1, <1>2

(* Nobody has logged in yet. *)
LEMMA Unused ==
  ASSUME TypeInv, stage = "start", TypeInv', stage' \in {"ready", "refused", "panic"}, UNCHANGED <<kept, logins>>
  PROVE  (KeptInv /\ UsedInv /\ LoginIsWhole /\ LaterLoginsRepeat)'
<1>1. kept' = NoOptions /\ logins' = <<>>
  BY DEF TypeInv
<1> QED
  BY <1>1 DEF KeptInv, UsedInv, LoginIsWhole, LaterLoginsRepeat

LEMMA WriteStep == IInv /\ Write => IInv'
<1> SUFFICES ASSUME IInv, Write PROVE IInv'
  OBVIOUS
<1>1. PICK o \in Literals : Ready(o.kind, o.fields, o.scope)
  BY DEF Write
<1>2. /\ stage = "start" /\ config' = [from |-> "program"] /\ UNCHANGED <<cloud, kept, logins, touched>>
      /\ TypeInv /\ o.kind \in {"gophercloud", "tokens"}
  BY SettingsAssumption DEF Write, IInv
<1>3. stage' = "ready" /\ IsSequence(scopes)' /\ IsOptions(opts)'
  BY <1>1, <1>2, ReadyOptions
<1>4. TypeInv'
  BY <1>2, <1>3 DEF TypeInv
<1>5. (BestSourceWins /\ UnverifiedOnlyIfUnanimous /\ ConfiguredScopeIsUsable)'
  <2>1. config'.from = "program"
    BY <1>2
  <2> QED
    BY <2>1 DEF BestSourceWins, UnverifiedOnlyIfUnanimous, ConfiguredScopeIsUsable
<1> QED
  BY <1>2, <1>3, <1>4, <1>5, Unused DEF IInv

LEMMA EnvStep == IInv /\ AuthOptionsFromEnv => IInv'
<1> SUFFICES ASSUME IInv, AuthOptionsFromEnv PROVE IInv'
  OBVIOUS
<1> DEFINE Scope(env) == IF Has(env, "OS_SYSTEM_SCOPE") THEN Setting("System", "all") ELSE Nothing
<1>1. PICK env \in Environments :
        \/ EnvRefused(EnvOptions(env)) /\ stage' = "refused" /\ UNCHANGED <<opts, scopes>>
        \/ ~EnvRefused(EnvOptions(env)) /\ Ready("gophercloud", EnvOptions(env), Scope(env))
  BY DEF AuthOptionsFromEnv
<1>2. /\ stage = "start" /\ config' = [from |-> "environment"] /\ UNCHANGED <<cloud, kept, logins, touched>>
      /\ TypeInv /\ config'.from = "environment"
  BY DEF AuthOptionsFromEnv, IInv
<1> DEFINE o == EnvOptions(env)
<1>3. TypeInv' /\ stage' \in {"ready", "refused"}
      /\ (stage' = "ready" => /\ ~EnvRefused(o) /\ opts'.fields = o
                              /\ opts'.scope # 0 => ScopeOf(opts)' \in {Setting("System", "all"), Nothing}
                              /\ Has(env, "OS_SYSTEM_SCOPE") => opts'.scope # 0
                              /\ opts'.scope # 0 => ScopeOf(opts)' = Scope(env))
  <2>1. CASE EnvRefused(o) /\ stage' = "refused" /\ UNCHANGED <<opts, scopes>>
    BY <1>2, <2>1 DEF TypeInv
  <2>2. CASE ~EnvRefused(o) /\ Ready("gophercloud", o, Scope(env))
    <3> HIDE DEF o
    <3> DEFINE scope == Scope(env)
    <3>0. scope \in {Setting("System", "all"), Nothing} /\ (Has(env, "OS_SYSTEM_SCOPE") => DOMAIN scope # {})
      BY DEF Setting
    <3> HIDE DEF Scope
    <3>1. /\ stage' = "ready" /\ IsSequence(scopes)' /\ IsOptions(opts)' /\ opts'.fields = o
          /\ DOMAIN scope = {} \/ opts'.scope # 0
          /\ opts'.scope # 0 => ScopeOf(opts)' = scope
      BY <1>2, <2>2, ReadyOptions
    <3>2. TypeInv'
      BY <1>2, <3>1 DEF TypeInv
    <3> QED
      BY <2>2, <3>0, <3>1, <3>2
  <2> QED
    BY <1>1, <2>1, <2>2
<1>4. ~Invalid(Nothing)
  BY DEF Invalid, Nothing, HasNone, Has
<1>5. ConfiguredScopeIsUsable'
  <2> HIDE DEF o
  <2>1. stage' = "ready" => ~Invalid(DefaultScope(o)) /\ ~Invalid(Setting("System", "all"))
    BY <1>3, EnvScope
  <2> QED
    BY <1>3, <1>4, <2>1 DEF ConfiguredScopeIsUsable
<1>6. (BestSourceWins /\ UnverifiedOnlyIfUnanimous)'
  BY <1>2 DEF BestSourceWins, UnverifiedOnlyIfUnanimous
<1> QED
  BY <1>2, <1>3, <1>5, <1>6, Unused DEF IInv
(* The scope that Parse works out names nothing, or what a login takes; or a  *)
(* project by its name alone, when nothing says in which domain it is.        *)
LEMMA ParsedScopeFits ==
  ASSUME NEW options, NEW entry
  PROVE  LET s == ParsedScope(options, entry)
         IN  /\ Invalid(s) => /\ DOMAIN s = {"ProjectName"}
                              /\ HasNone(entry, {"project_domain_id", "project_domain_name", "domain_id", "domain_name",
                                                 "project_id", "trust_id", "system_scope"})
             /\ DOMAIN s = {} => ~Has(options, "TenantName") /\ ~Has(entry, "project_name")
<1> DEFINE s == ParsedScope(options, entry)
           id == Coalesced(options, entry, "TenantID", Keys.TenantID)
           name == Coalesced(options, entry, "TenantName", Keys.TenantName)
           domainID == Coalesced(options, entry, "DomainID", <<"domain_id">>)
           domainName == Coalesced(options, entry, "DomainName", <<"domain_name">>)
           ownID == Optional(entry, "DomainID", <<"project_domain_id", "domain_id">>)
           ownName == Optional(entry, "DomainName", <<"project_domain_name", "domain_name">>)
<1>1. Has(id, "TenantID") <=> Has(options, "TenantID") \/ Has(entry, "project_id")
  <2> DEFINE keys == Keys.TenantID
  <2>1. DOMAIN keys = {1} /\ keys[1] = "project_id"
    BY DEF Keys
  <2> HIDE DEF keys
  <2> DEFINE v == Coalesced(options, entry, "TenantID", keys)
  <2>2. Has(v, "TenantID") <=> Has(options, "TenantID") \/ \E i \in DOMAIN keys : Has(entry, keys[i])
    BY <2>1, Coalescing
  <2>3. id = v
    BY DEF keys
  <2> HIDE DEF v, id
  <2> QED
    BY <2>1, <2>2, <2>3
<1>2. Has(name, "TenantName") <=> Has(options, "TenantName") \/ Has(entry, "project_name")
  <2> DEFINE keys == Keys.TenantName
  <2>1. DOMAIN keys = {1} /\ keys[1] = "project_name"
    BY DEF Keys
  <2> HIDE DEF keys
  <2> DEFINE v == Coalesced(options, entry, "TenantName", keys)
  <2>2. Has(v, "TenantName") <=> Has(options, "TenantName") \/ \E i \in DOMAIN keys : Has(entry, keys[i])
    BY <2>1, Coalescing
  <2>3. name = v
    BY DEF keys
  <2> HIDE DEF v, name
  <2> QED
    BY <2>1, <2>2, <2>3
<1>3. DOMAIN domainID \subseteq {"DomainID"} /\ DOMAIN domainName \subseteq {"DomainName"}
  <2>1. DOMAIN <<"domain_id">> = {1} /\ DOMAIN <<"domain_name">> = {1}
    OBVIOUS
  <2> QED
    BY <2>1, Coalescing
<1>4. DOMAIN ownID \subseteq {"DomainID"}
      /\ (Has(ownID, "DomainID") <=> Has(entry, "project_domain_id") \/ Has(entry, "domain_id"))
  <2> DEFINE keys == <<"project_domain_id", "domain_id">>
  <2>1. DOMAIN keys = {1, 2} /\ keys[1] = "project_domain_id" /\ keys[2] = "domain_id"
    OBVIOUS
  <2>2. ~Has(Nothing, "DomainID")
    BY DEF Has, Nothing
  <2> HIDE DEF keys
  <2> DEFINE v == Coalesced(Nothing, entry, "DomainID", keys)
  <2>3. DOMAIN v \subseteq {"DomainID"} /\ (Has(v, "DomainID") <=> Has(Nothing, "DomainID") \/ \E i \in DOMAIN keys : Has(entry, keys[i]))
    BY <2>1, Coalescing
  <2>4. ownID = v
    BY DEF Optional, keys
  <2> HIDE DEF v, ownID
  <2> QED
    BY <2>1, <2>2, <2>3, <2>4
<1>5. DOMAIN ownName \subseteq {"DomainName"}
      /\ (Has(ownName, "DomainName") <=> Has(entry, "project_domain_name") \/ Has(entry, "domain_name"))
  <2> DEFINE keys == <<"project_domain_name", "domain_name">>
  <2>1. DOMAIN keys = {1, 2} /\ keys[1] = "project_domain_name" /\ keys[2] = "domain_name"
    OBVIOUS
  <2>2. ~Has(Nothing, "DomainName")
    BY DEF Has, Nothing
  <2> HIDE DEF keys
  <2> DEFINE v == Coalesced(Nothing, entry, "DomainName", keys)
  <2>3. DOMAIN v \subseteq {"DomainName"} /\ (Has(v, "DomainName") <=> Has(Nothing, "DomainName") \/ \E i \in DOMAIN keys : Has(entry, keys[i]))
    BY <2>1, Coalescing
  <2>4. ownName = v
    BY DEF Optional, keys
  <2> HIDE DEF v, ownName
  <2> QED
    BY <2>1, <2>2, <2>3, <2>4
<1>6. \A x, y : DOMAIN Setting(x, y) = {x}
  BY DEF Setting
<1>7. CASE Has(entry, "trust_id") \/ Has(entry, "system_scope")
  <2>1. s \in {Setting("TrustID", entry["trust_id"]), Setting("System", entry["system_scope"])}
    BY <1>7 DEF ParsedScope, HasNone, Has
  <2>2. DOMAIN s \in {{"TrustID"}, {"System"}}
    BY <1>6, <2>1
  <2> HIDE DEF s
  <2> QED
    BY <2>2 DEF Invalid, HasNone, s
<1>8. CASE HasNone(entry, {"trust_id", "system_scope"}) /\ Has(id, "TenantID")
  <2>1. s = Setting("ProjectID", id["TenantID"])
    BY <1>8 DEF ParsedScope, HasNone, Has
  <2>2. DOMAIN s = {"ProjectID"}
    BY <1>6, <2>1
  <2> HIDE DEF s
  <2> QED
    BY <2>2 DEF Invalid, HasNone, Has, s
<1>9. CASE HasNone(entry, {"trust_id", "system_scope"}) /\ ~Has(id, "TenantID") /\ Has(name, "TenantName")
  <2>1. s = Over(Setting("ProjectName", name["TenantName"]), Over(ownID, ownName))
    BY <1>9 DEF ParsedScope, HasNone, Has
  <2> HIDE DEF s, id, name, ownID, ownName
  <2>2. DOMAIN s = {"ProjectName"} \cup DOMAIN ownID \cup DOMAIN ownName
    BY <1>6, <2>1 DEF Over
  <2>3. Invalid(s) => ~Has(ownID, "DomainID") /\ ~Has(ownName, "DomainName")
    BY <1>4, <1>5, <2>2 DEF Invalid, HasNone, Has
  <2>4. Invalid(s) => /\ DOMAIN s = {"ProjectName"}
                      /\ HasNone(entry, {"project_domain_id", "project_domain_name", "domain_id", "domain_name",
                                         "project_id", "trust_id", "system_scope"})
    BY <1>1, <1>4, <1>5, <1>9, <2>2, <2>3 DEF HasNone, Has
  <2> QED
    BY <2>2, <2>4 DEF s
<1>10. CASE HasNone(entry, {"trust_id", "system_scope"}) /\ ~Has(id, "TenantID") /\ ~Has(name, "TenantName")
  <2>1. s = IF Has(domainID, "DomainID") THEN domainID ELSE domainName
    BY <1>10 DEF ParsedScope, HasNone, Has
  <2> HIDE DEF s, id, name, domainID, domainName
  <2>2. DOMAIN s \in {{}, {"DomainID"}, {"DomainName"}}
    BY <1>3, <2>1
  <2>3. ~Invalid(s)
    BY <2>2 DEF Invalid, HasNone, Has
  <2> QED
    BY <1>2, <1>10, <2>3 DEF s
<1> QED
  BY <1>7, <1>8, <1>9, <1>10 DEF HasNone, Has

LEMMA ParseStep == IInv /\ Parse => IInv'
<1> SUFFICES ASSUME IInv, Parse PROVE IInv'
  OBVIOUS
<1>1. PICK c \in Configurations :
        LET m == Merged(c)
        IN  /\ config' = [from |-> "clouds", c |-> c]
            /\ \/ stage' = "refused" /\ UNCHANGED <<cloud, opts, scopes>>
               \/ /\ cloud' = m
                  /\ IF DOMAIN m \cap AuthKeys = {} THEN stage' = "panic" /\ UNCHANGED <<opts, scopes>>
                     ELSE Ready("gophercloud", ParsedOptions(c.options, m),
                                IF Has(c.options, "Scope") THEN c.options["Scope"] ELSE ParsedScope(c.options, m))
  BY DEF Parse, Merged
<1>7. CASE stage' = "refused" /\ UNCHANGED <<cloud, opts, scopes>>
  <2>1. stage = "start" /\ UNCHANGED <<kept, logins, touched>> /\ TypeInv
    BY DEF Parse, IInv
  <2>2. TypeInv' /\ cloud' = Nothing
    BY <1>7, <2>1 DEF TypeInv
  <2>3. ~Has(Nothing, "verify")
    BY DEF Has, Nothing
  <2>4. UnverifiedOnlyIfUnanimous'
    BY <2>2, <2>3 DEF UnverifiedOnlyIfUnanimous, InsecureSkipVerify
  <2>5. (BestSourceWins /\ ConfiguredScopeIsUsable)'
    BY <1>7 DEF BestSourceWins, ConfiguredScopeIsUsable
  <2> QED
    BY <1>7, <2>1, <2>2, <2>4, <2>5, Unused DEF IInv
<1>8. SUFFICES ASSUME ~(stage' = "refused" /\ UNCHANGED <<cloud, opts, scopes>>) PROVE IInv'
  BY <1>7
<1> DEFINE m == Merged(c)
           o == ParsedOptions(c.options, m)
           files == Files(c)
           scope == IF Has(c.options, "Scope") THEN c.options["Scope"] ELSE ParsedScope(c.options, m)
<1>2. /\ stage = "start" /\ UNCHANGED <<kept, logins, touched>> /\ TypeInv
      /\ config'.from = "clouds" /\ config'.c = c /\ cloud' = m
  BY <1>1, <1>8 DEF Parse, IInv
<1>3. /\ TypeInv' /\ stage' \in {"ready", "panic"}
      /\ stage' = "ready" => /\ opts'.fields = o
                             /\ DOMAIN scope = {} \/ opts'.scope # 0
                             /\ opts'.scope # 0 => ScopeOf(opts)' = scope
  <2>1. CASE stage' = "panic" /\ UNCHANGED <<opts, scopes>>
    BY <1>2, <2>1 DEF TypeInv
  <2>2. CASE Ready("gophercloud", o, scope)
    <3> HIDE DEF o, scope
    <3>1. /\ stage' = "ready" /\ IsSequence(scopes)' /\ IsOptions(opts)' /\ opts'.fields = o
          /\ DOMAIN scope = {} \/ opts'.scope # 0
          /\ opts'.scope # 0 => ScopeOf(opts)' = scope
      BY <1>2, <2>2, ReadyOptions
    <3>2. TypeInv'
      BY <1>2, <3>1 DEF TypeInv
    <3> QED
      BY <3>1, <3>2
  <2> QED
    BY <1>1, <1>8, <2>1, <2>2
<1>4. BestSourceWins'
  <2> SUFFICES ASSUME stage' = "ready", NEW f \in DOMAIN Keys
               PROVE  LET F == Files(c)
                          somewhere == \E i \in DOMAIN F : \E k \in DOMAIN Keys[f] : Has(F[i], Keys[f][k])
                      IN  IF Has(c.options, f) THEN Has(opts'.fields, f) /\ opts'.fields[f] = c.options[f]
                          ELSE IF somewhere
                          THEN LET p == Best(F, Keys[f]) IN Has(opts'.fields, f) /\ opts'.fields[f] = F[p[2]][Keys[f][p[1]]]
                          ELSE ~Has(opts'.fields, f)
    BY <1>2 DEF BestSourceWins
  <2>1. opts'.fields = o
    BY <1>3
  <2> QED
    BY <2>1, FieldsFromTheBest
<1>5. UnverifiedOnlyIfUnanimous'
  <2>1. Has(m, "verify") /\ ~m["verify"][2] => \A i \in {1, 2, 3} : Has(files[i], "verify") => ~files[i]["verify"][2]
    BY MergedFiles
  <2>2. InsecureSkipVerify(c.options, m) =>
          \/ Has(c.options, "insecure") /\ c.options["insecure"]
          \/ \A i \in 1..3 : LET file == Files(c)[i] IN Has(file, "verify") => ~file["verify"][2]
    <3>1. CASE Has(c.options, "insecure")
      BY <3>1 DEF InsecureSkipVerify
    <3>2. CASE ~Has(c.options, "insecure")
      <4>1. InsecureSkipVerify(c.options, m) => Has(m, "verify") /\ ~m["verify"][2]
        BY <3>2 DEF InsecureSkipVerify
      <4>2. 1..3 = {1, 2, 3}
        OBVIOUS
      <4> HIDE DEF m
      <4> QED
        BY <2>1, <4>1, <4>2
    <3> QED
      BY <3>1, <3>2
  <2> QED
    BY <1>2, <2>2 DEF UnverifiedOnlyIfUnanimous
<1>6. ConfiguredScopeIsUsable'
  <2> DEFINE s == ParsedScope(c.options, m)
  <2>1. /\ Invalid(s) => /\ DOMAIN s = {"ProjectName"}
                         /\ HasNone(m, {"project_domain_id", "project_domain_name", "domain_id", "domain_name",
                                        "project_id", "trust_id", "system_scope"})
        /\ DOMAIN s = {} => ~Has(c.options, "TenantName") /\ ~Has(m, "project_name")
    BY ParsedScopeFits
  <2>2. DOMAIN s = {} => ~Has(o, "TenantName")
    <3>1. "TenantName" \in DOMAIN Keys /\ DOMAIN Keys["TenantName"] = {1} /\ Keys["TenantName"][1] = "project_name"
      BY DEF Keys
    <3>2. Has(o, "TenantName") <=> Has(c.options, "TenantName") \/ \E i \in DOMAIN Keys["TenantName"] : Has(m, Keys["TenantName"][i])
      BY <3>1, ParsedFields
    <3> HIDE DEF o, s, m
    <3> QED
      BY <2>1, <3>1, <3>2
  <2>3. DOMAIN s = {} => ~Invalid(DefaultScope(o))
    BY <2>2, DefaultIsValid
  <2>4. ~Has(c.options, "Scope") => scope = s
    OBVIOUS
  <2> HIDE DEF o, s, m, scope
  <2> QED
    BY <1>2, <1>3, <2>1, <2>3, <2>4 DEF ConfiguredScopeIsUsable
<1> QED
  BY <1>2, <1>3, <1>4, <1>5, <1>6, Unused DEF IInv

(* What the options were made from no longer changes. *)
LEMMA ConfigurationStays ==
  ASSUME IInv, UNCHANGED <<config, cloud>>, stage' # "ready"
  PROVE  (BestSourceWins /\ UnverifiedOnlyIfUnanimous /\ ConfiguredScopeIsUsable)'
<1>1. UnverifiedOnlyIfUnanimous'
  BY DEF IInv, UnverifiedOnlyIfUnanimous
<1> QED
  BY <1>1 DEF BestSourceWins, ConfiguredScopeIsUsable

-----------------------------------------------------------------------------
(* The theorems. *)

LEMMA IInvInit == Init => IInv
<1> SUFFICES ASSUME Init PROVE IInv
  OBVIOUS
<1>1. /\ stage = "start" /\ config.from = "nowhere" /\ cloud = Nothing /\ kept = NoOptions
      /\ scopes = <<>> /\ logins = <<>> /\ touched = FALSE
  BY DEF Init
<1>2. IsSequence(<<>>)
  BY SingleSequence
<1>3. TypeInv
  BY <1>1, <1>2 DEF TypeInv
<1> QED
  BY <1>1, <1>3 DEF IInv, KeptInv, UsedInv, BestSourceWins, UnverifiedOnlyIfUnanimous, ConfiguredScopeIsUsable,
                    LoginIsWhole, LaterLoginsRepeat

LEMMA IInvStep == IInv /\ [Next]_vars => IInv'
<1> SUFFICES ASSUME IInv, [Next]_vars PROVE IInv'
  OBVIOUS
<1>1. CASE Write
  BY <1>1, WriteStep
<1>2. CASE AuthOptionsFromEnv
  BY <1>2, EnvStep
<1>3. CASE Parse
  BY <1>3, ParseStep
<1>4. CASE Login
  <2>1. UNCHANGED <<config, cloud>> /\ stage' \in {"refused", "in"}
    BY <1>4 DEF Login
  <2> QED
    BY <1>4, <2>1, LoginStep, ConfigurationStays DEF IInv, LaterLoginsRepeat
<1>5. CASE EditScope
  <2>1. UNCHANGED <<config, cloud>> /\ stage' = "in"
    BY <1>5 DEF EditScope
  <2> QED
    BY <1>5, <2>1, EditScopeStep, ConfigurationStays DEF IInv, LaterLoginsRepeat
<1>6. CASE Relogin
  <2>1. UNCHANGED <<config, cloud>> /\ stage' = "reauthenticated"
    BY <1>6 DEF Relogin
  <2> QED
    BY <1>6, <2>1, ReloginStep, ConfigurationStays DEF IInv
<1>7. CASE LoginAgain
  <2>1. UNCHANGED <<config, cloud>> /\ stage' = "again"
    BY <1>7 DEF LoginAgain
  <2> QED
    BY <1>7, <2>1, LoginAgainStep, ConfigurationStays DEF IInv
<1>8. ASSUME NEW f \in Editable, EditField(f) PROVE IInv'
  <2>1. UNCHANGED <<config, cloud>> /\ stage' = "in"
    BY <1>8 DEF EditField
  <2> QED
    BY <1>8, <2>1, EditFieldStep, ConfigurationStays DEF IInv, LaterLoginsRepeat
<1>9. CASE UNCHANGED vars
  <2>1. TypeInv' /\ KeptInv' /\ UsedInv'
    BY <1>9 DEF IInv, vars, TypeInv, IsOptions, KeptInv, UsedInv, Settled, Passthrough, ScopeOf, Asked
  <2>2. (BestSourceWins /\ UnverifiedOnlyIfUnanimous /\ ConfiguredScopeIsUsable)'
    BY <1>9 DEF IInv, vars, BestSourceWins, UnverifiedOnlyIfUnanimous, ConfiguredScopeIsUsable, ScopeOf
  <2>3. (LoginIsWhole /\ LaterLoginsRepeat)'
    BY <1>9 DEF IInv, vars, LoginIsWhole, LaterLoginsRepeat
  <2> QED
    BY <2>1, <2>2, <2>3 DEF IInv
<1> QED
  BY <1>1, <1>2, <1>3, <1>4, <1>5, <1>6, <1>7, <1>8, <1>9 DEF Next

LEMMA Inductive == Spec => []IInv
  BY IInvInit, IInvStep, PTL DEF Spec

(* Parse (clouds.go): every field of the options comes from the option for  *)
(* it, else from the most special of its keys that any file has, and of the *)
(* files that have it from secure.yaml, clouds.yaml or the public profile,  *)
(* in this order; whatever the three files hold.                            *)
THEOREM EveryFieldIsFromTheBestSource == Spec => []BestSourceWins
<1>1. IInv => BestSourceWins
  BY DEF IInv
<1> QED
  BY <1>1, Inductive, PTL

(* mergeClouds and Parse: unless an option says so, certificates go         *)
(* unverified only when every file with an opinion is against verifying.    *)
THEOREM UnverifiedIsUnanimous == Spec => []UnverifiedOnlyIfUnanimous
<1>1. IInv => UnverifiedOnlyIfUnanimous
  BY DEF IInv
<1> QED
  BY <1>1, Inductive, PTL

(* AuthOptionsFromEnv and Parse: the scope they work out passes             *)
(* ToTokenV3ScopeMap, but for one, a project's name without a domain in     *)
(* clouds.yaml.                                                             *)
THEOREM ScopesAreUsable == Spec => []ConfiguredScopeIsUsable
<1>1. IInv => ConfiguredScopeIsUsable
  BY DEF IInv
<1> QED
  BY <1>1, Inductive, PTL

(* ToTokenV3CreateMap: whatever the options, what is sent is whole: each    *)
(* method has its secret and names one user, the same in all of them.       *)
THEOREM LoginsAreWhole == Spec => []LoginIsWhole
<1>1. IInv => LoginIsWhole
  BY DEF IInv
<1> QED
  BY <1>1, Inductive, PTL

(* v3auth: a reauthentication sends what the first login sent, whatever the *)
(* application has made of its options since, the Scope they point to       *)
(* excepted.                                                                *)
THEOREM ReauthenticationRepeats == Spec => []LaterLoginsRepeat
<1>1. IInv => LaterLoginsRepeat
  BY DEF IInv
<1> QED
  BY <1>1, Inductive, PTL
=============================================================================
