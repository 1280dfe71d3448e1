---------------------------- MODULE EndpointSearch ---------------------------
(***************************************************************************)
(* From the URL of an identity service to a client of another service:     *)
(* ChooseVersion picks the identity version, the authentication brings the *)
(* catalog of that version, New<Service> locates an endpoint in it         *)
(* (V2Endpoint or V3Endpoint, with version discovery in between), and      *)
(* RequireMicroversion asks that endpoint what it supports.                *)
(*                                                                         *)
(* A catalog is the sequence of its endpoints in the order of the two      *)
(* nested loops, each with the type and the name of its entry:             *)
(*   [type, name, region, regionID, urls]                                  *)
(* where urls gives a path for each availability.  An endpoint of version  *)
(* 3 has one interface; under the others it has NoURL, as a version 2      *)
(* entry does that leaves a URL out.                                       *)
(***************************************************************************)
EXTENDS Versions

CONSTANTS
  ServiceTypeAliases,  \* the aliases of each official service type
  ImpliedVersion,      \* extractServiceTypeVersion: "volumev2" |-> 2, 0 for most types
  Published,           \* versions documents of identity services
  Catalogs,            \* the catalogs of each identity version, "v2" and "v3"
  Queries,             \* calls of a New<Service> function
  Documents,           \* versions documents of the services
  Microversions,       \* microversions an application may require
  NoURL                \* no URL for this availability

Availabilities == {"public", "internal", "admin"}
Priority == [v2 |-> 20, v3 |-> 30]
NoEndpoint == [version |-> "none", href |-> "none"]

IdentityValues == [version : {"v2", "v3", "other"}, status : Text, href : {"given", "other", "none"}]
Endpoints == [type : DOMAIN ImpliedVersion, name : Text, region : Text, regionID : Text,
              urls : [Availabilities -> {NoURL} \cup Seq(DOMAIN VersionOf)]]
Options == [type : Text, aliases : SUBSET Text, name : Text, region : Text,
            version : Nat, availability : Text]

ASSUME EndpointSearchAssumption ==
  /\ DOMAIN ServiceTypeAliases \subseteq Text
  /\ ServiceTypeAliases \in [DOMAIN ServiceTypeAliases -> SUBSET Text]
  /\ ImpliedVersion \in [DOMAIN ImpliedVersion -> Nat]
  /\ Published \subseteq Seq(IdentityValues)
  /\ Catalogs \in [DOMAIN Priority -> SUBSET Seq(Endpoints)]
  /\ Queries \subseteq [opts : Options, service : Text, version : Nat]
  /\ Documents \subseteq VersionsDocuments
  /\ Microversions \subseteq Nat \X Nat

VARIABLES
  pc,        \* where the application is
  suffix,    \* the version at the end of the IdentityEndpoint, "none" for no version
  values,    \* what the identity service published, and has not been looked at
  published, \* all of it
  highest,   \* the best version so far and its endpoint; the choice in the end
  catalog,   \* the catalog the EndpointLocator has captured
  query,     \* the call of New<Service>
  opts,      \* its EndpointOpts, after ApplyDefaults
  at,        \* the endpoint the search looks at
  verdict,   \* for each endpoint, what the search concluded
  requests,  \* for each endpoint, how often its service was asked
  micro      \* the outcome of RequireMicroversion

choice == <<suffix, values, published, highest>>
search == <<query, opts, at, verdict, requests>>
vars == <<pc, choice, catalog, search, micro>>

NoMicro == [said |-> "nothing", wanted |-> Zero, min |-> Zero, max |-> Zero]
NoOpts == [type |-> "", aliases |-> {}, name |-> "", region |-> "", version |-> 0, availability |-> ""]

Init ==
  /\ pc = "new" /\ suffix \in {"none", "v2", "v3"}
  /\ values = <<>> /\ published = <<>> /\ highest = NoEndpoint
  /\ catalog = <<>>
  /\ query = [opts |-> NoOpts, service |-> "", version |-> 0] /\ opts = NoOpts
  /\ at = 0 /\ verdict = <<>> /\ requests = <<>>
  /\ micro = NoMicro

-----------------------------------------------------------------------------
(* ChooseVersion *)

(* The endpoint the user gave ends in a version. *)
ChooseBySuffix ==
  /\ pc = "new" /\ suffix # "none"
  /\ highest' = [version |-> suffix, href |-> "given"]
  /\ pc' = "chosen"
  /\ UNCHANGED <<suffix, values, published, catalog, search, micro>>

AskIdentity ==
  /\ pc = "new" /\ suffix = "none"
  /\ \/ pc' = "failed" /\ UNCHANGED <<values, published>>
     \/ \E document \in Published : values' = document /\ published' = document /\ pc' = "walking"
  /\ UNCHANGED <<suffix, highest, catalog, search, micro>>

(* Broken: the last version wins. *)
Better_Last(value) == TRUE

Better(value) == highest = NoEndpoint \/ Priority[value.version] > Priority[highest.version]

Good(value) == value.status \in {"current", "supported", "stable"}

(* One value of the document.  Its id names at most one version that is
   recognized; its self link, if any, may be the endpoint the user gave. *)
WalkValue ==
  /\ pc = "walking" /\ values # <<>>
  /\ LET value == Head(values)
         known == value.version \in DOMAIN Priority
     IN  IF known /\ value.href = "given"
         THEN highest' = [version |-> value.version, href |-> "given"] /\ pc' = "chosen"
         ELSE /\ highest' = IF known /\ Good(value) /\ Better(value)
                            THEN [version |-> value.version, href |-> value.href]
                            ELSE highest
              /\ UNCHANGED pc
  /\ values' = Tail(values)
  /\ UNCHANGED <<suffix, published, catalog, search, micro>>

WalkEnds ==
  /\ pc = "walking" /\ values = <<>>
  /\ pc' = IF highest = NoEndpoint \/ highest.href = "none" THEN "failed" ELSE "chosen"
  /\ UNCHANGED <<choice, catalog, search, micro>>

(* v2auth or v3auth succeeds and captures the catalog in the locator. *)
Authenticated ==
  /\ pc = "chosen"
  /\ catalog' \in Catalogs[highest.version]
  /\ pc' = "ready"
  /\ suffix' = "none" /\ values' = <<>> /\ published' = <<>>
  /\ UNCHANGED <<highest, search, micro>>

-----------------------------------------------------------------------------
(* New<Service>, V2Endpoint and V3Endpoint *)

(* ApplyDefaults; an alias asked for is replaced by its official type. *)
ApplyDefaults(o, service) ==
  LET type == IF o.type = "" THEN service ELSE o.type
      official == {t \in DOMAIN ServiceTypeAliases : type \in ServiceTypeAliases[t]}
      T == IF type \in DOMAIN ServiceTypeAliases \/ official = {} \/ o.aliases # {} THEN type
           ELSE CHOOSE t \in official : TRUE
  IN  [o EXCEPT !.type = T,
                !.availability = IF @ = "" THEN "public" ELSE @,
                !.aliases = IF @ = {} /\ T \in DOMAIN ServiceTypeAliases
                            THEN ServiceTypeAliases[T] ELSE @]

(* initClientOpts, and what V3Endpoint does before its loops. A q.version of 0
   stands for NewIdentityV2, NewIdentityV3 and the calls an application makes of
   EndpointLocator itself, which set no version. *)
NewServiceClient ==
  /\ pc = "ready"
  /\ \E q \in Queries :
       LET o == ApplyDefaults(q.opts, q.service)
       IN  /\ query' = q
           /\ opts' = [o EXCEPT !.version = IF q.version = 0 THEN @ ELSE q.version]
           /\ pc' = IF \/ q.version # 0 /\ o.version \notin {0, q.version}
                       \/ highest.version = "v3" /\ o.availability \notin Availabilities
                    THEN "failed" ELSE "searching"
  /\ at' = 1
  /\ verdict' = [j \in DOMAIN catalog |-> "unseen"]
  /\ requests' = [j \in DOMAIN catalog |-> 0]
  /\ UNCHANGED <<choice, catalog, micro>>

(* Broken: the region is compared with the region's name only. *)
InRegion_ByName(e) == opts.region \in {"", e.region}

(* The conditions of the loops, up to the version. *)
InRegion(e) ==
  \/ opts.region = ""
  \/ e.region = opts.region
  \/ highest.version = "v3" /\ e.regionID = opts.region

Serves(e) ==
  /\ e.type \in {opts.type} \cup opts.aliases
  /\ opts.name \in {"", e.name}
  /\ InRegion(e)
  /\ highest.version = "v3" => e.urls[opts.availability] # NoURL

(* A missing URL of a version 2 endpoint becomes "/" in NormalizeURL; nothing
   answers there. *)
Path(e) == IF e.urls[opts.availability] = NoURL THEN <<>> ELSE e.urls[opts.availability]

Answers(e) ==
  {NoDocument} \cup (IF e.urls[opts.availability] = NoURL THEN {} ELSE Documents)

(* endpointSupportsVersion, where document is what a request brings. *)
PathOf(e) == BaseVersionedEndpoint(Path(e))

(* Broken: the version in an old-style type is ignored. *)
WrongByType_Never(e) == FALSE

WrongByType(e) == ImpliedVersion[e.type] \notin {0, opts.version}

Trusted(e) == opts.version = 0 \/ e.type = "object-store"

MustAsk(e) == ~Trusted(e) /\ ~WrongByType(e) /\ NeedsDocument(PathOf(e), FALSE)

SupportsVersion(e, document) ==
  LET answer == GetServiceVersions(PathOf(e), FALSE, document)
  IN  CASE Trusted(e) -> "yes"
        [] ~Trusted(e) /\ WrongByType(e) -> "no"
        [] ~Trusted(e) /\ ~WrongByType(e) /\ ~answer.ok -> "error"
        [] OTHER -> IF \E v \in answer.versions : v.major = opts.version THEN "yes" ELSE "no"

Searching == pc = "searching" /\ at <= Len(catalog)

SkipEndpoint ==
  /\ Searching /\ ~Serves(catalog[at])
  /\ at' = at + 1
  /\ UNCHANGED <<pc, choice, catalog, query, opts, verdict, requests, micro>>

(* V2Endpoint looks at the availability when it has found an entry. *)
UnknownAvailability ==
  /\ Searching /\ opts.availability \notin Availabilities
  /\ Serves(catalog[at])
  /\ pc' = "failed"
  /\ UNCHANGED <<choice, catalog, search, micro>>

(* Broken: an error is passed over. *)
Conclude_SkipsErrors(v) ==
  /\ verdict' = [verdict EXCEPT ![at] = v]
  /\ IF v = "yes" THEN pc' = "located" /\ UNCHANGED at ELSE at' = at + 1 /\ UNCHANGED pc

Conclude(v) ==
  /\ verdict' = [verdict EXCEPT ![at] = v]
  /\ CASE v = "yes"   -> pc' = "located" /\ UNCHANGED at
       [] v = "no"    -> at' = at + 1 /\ UNCHANGED pc
       [] v = "error" -> pc' = "failed" /\ UNCHANGED at

TryEndpoint ==
  /\ Searching /\ opts.availability \in Availabilities
  /\ LET e == catalog[at]
     IN  /\ Serves(e)
         /\ IF MustAsk(e)
            THEN /\ requests' = [requests EXCEPT ![at] = @ + 1]
                 /\ \E document \in Answers(e) : Conclude(SupportsVersion(e, document))
            ELSE UNCHANGED requests /\ Conclude(SupportsVersion(e, NoDocument))
  /\ UNCHANGED <<choice, catalog, query, opts, micro>>

(* V2EndpointURL and V3EndpointURL, the deprecated copies of the search: the
   place of the endpoint they return, 0 for an error.  *)
EndpointURL ==
  LET fits == {j \in DOMAIN catalog :
                 LET e == catalog[j]
                 IN  /\ e.type \in {opts.type} \cup opts.aliases
                     /\ opts.name = "" \/ opts.name = e.name
                     /\ opts.region \in {"", e.region} \cup
                          (IF highest.version = "v3" THEN {e.regionID} ELSE {})
                     /\ highest.version = "v2" \/ e.urls[opts.availability] # NoURL}
  IN  IF opts.availability \notin Availabilities \/ fits = {} THEN 0
      ELSE CHOOSE j \in fits : \A i \in fits : j <= i

SearchExhausted ==
  /\ pc = "searching" /\ at > Len(catalog)
  /\ pc' = "notfound"
  /\ UNCHANGED <<choice, catalog, search, micro>>

-----------------------------------------------------------------------------
(* RequireMicroversion, on a client with the endpoint that was found.  What is
   required is <<X, Y>>, or a string of another form. *)
Malformed == <<>>

RequireMicroversion ==
  /\ pc = "located"
  /\ \E required \in Microversions \cup {Malformed}, document \in Answers(catalog[at]) :
       LET answer == GetServiceVersions(Path(catalog[at]), TRUE, document)
           entry == CHOOSE e \in answer.versions : TRUE
       IN  IF ~MicroversionsKnown(answer) \/ required = Malformed
           THEN micro' = [NoMicro EXCEPT !.said = "error", !.wanted = required]
           ELSE micro' = [said |-> IF IsSupported(required, entry.min, entry.max)
                                   THEN "supported" ELSE "not supported",
                          wanted |-> required, min |-> entry.min, max |-> entry.max]
  /\ pc' = "done"
  /\ UNCHANGED <<choice, catalog, search>>

Finished == pc \in {"failed", "notfound", "done"} /\ UNCHANGED vars

Progress ==
  \/ ChooseBySuffix \/ AskIdentity \/ WalkValue \/ WalkEnds \/ Authenticated
  \/ NewServiceClient
  \/ SkipEndpoint \/ UnknownAvailability \/ TryEndpoint \/ SearchExhausted
  \/ RequireMicroversion

Next == Progress \/ Finished

Spec == Init /\ [][Next]_vars

-----------------------------------------------------------------------------
(* ChooseVersion: the version at the end of the endpoint, or else the first
   version published at exactly that endpoint, or else the version of the
   highest priority among those with a good status, at its own endpoint,
   which is refused when it has none even if a lesser version has one. *)
Known == {k \in DOMAIN published : published[k].version \in DOMAIN Priority}
Exact == {k \in Known : published[k].href = "given"}
Best  == {k \in Known : /\ Good(published[k])
                        /\ \A j \in Known : Good(published[j]) =>
                             Priority[published[j].version] <= Priority[published[k].version]}
FirstOf(S) == published[CHOOSE k \in S : \A j \in S : k <= j]

IdentityVersionIsBest ==
  /\ pc = "chosen" =>
       IF suffix # "none" THEN highest.version = suffix
       ELSE /\ Exact \cup Best # {}
            /\ LET value == FirstOf(IF Exact # {} THEN Exact ELSE Best)
               IN  highest = [version |-> value.version, href |-> value.href]
            /\ highest.href # "none"
  /\ pc = "failed" /\ published # <<>> =>
       Exact = {} /\ (Best # {} => FirstOf(Best).href = "none")

(* Two names of one service type. *)
SameService(s, t) ==
  s = t \/ \E o \in DOMAIN ServiceTypeAliases : {s, t} \subseteq {o} \cup ServiceTypeAliases[o]

(* The version that an element of a URL names to a reader of the code: one
   without its "v" is a version only where the URL ends. *)
Names(url, k) == IF url[k] \in Marked \/ k = Len(url) THEN VersionOf[url[k]] ELSE 0

(* The endpoint found is one the caller asked for: of that service under any
   of its names, of that name and region, with a URL for that availability,
   and of no other major version by its type or by its URL.  The exceptions
   are the code's: object-store is believed, and a version 2 entry without a
   URL counts when no version is asked for. *)
FoundFitsTheQuery ==
  pc \in {"located", "done"} =>
    LET e == catalog[at]
        asked == query.opts
        type == IF asked.type = "" THEN query.service ELSE asked.type
        version == IF query.version = 0 THEN asked.version ELSE query.version
        availability == IF asked.availability = "" THEN "public" ELSE asked.availability
        url == e.urls[availability]
    IN  /\ SameService(e.type, type) \/ e.type \in asked.aliases
        /\ asked.name # "" => e.name = asked.name
        /\ asked.region # "" => asked.region \in {e.region, e.regionID}
        /\ asked.version # 0 => asked.version = version
        /\ url = NoURL => highest.version = "v2" /\ (version = 0 \/ e.type = "object-store")
        /\ version # 0 /\ e.type # "object-store" =>
             /\ ImpliedVersion[e.type] \in {0, version}
             /\ url # NoURL /\ url # <<>> => Names(url, 1) \in {0, version}

(* An endpoint that was passed does not fit, or was shown not to support the
   version. *)
Passed(j) == IF Serves(catalog[j]) THEN verdict[j] = "no" ELSE verdict[j] = "unseen"

SearchedInOrder ==
  /\ pc \in {"searching", "located", "notfound"} =>
       \A j \in 1..(at - 1) : Passed(j)
  /\ pc = "located" => verdict[at] = "yes" /\ \A j \in DOMAIN catalog : j > at => verdict[j] = "unseen"
  /\ pc = "notfound" => at = Len(catalog) + 1
  /\ \A j \in DOMAIN verdict : verdict[j] = "error" =>
       pc = "failed" /\ j = at /\ requests[j] = 1 /\ \A i \in 1..(j - 1) : Passed(i)

AskedOnlyIfNeeded ==
  \A j \in DOMAIN requests :
    /\ requests[j] <= 1
    /\ requests[j] = 1 => LET e == catalog[j]
                          IN  /\ Serves(e) /\ opts.version # 0 /\ e.type # "object-store"
                              /\ ImpliedVersion[e.type] \in {0, opts.version}
                              /\ \A k \in DOMAIN Path(e) : Names(Path(e), k) # 0 =>
                                   \E i \in 1..(k - 1) : Path(e)[i] \in Marked

(* The search takes the first endpoint that supports the version, not any: it
   reports none only when none does, and fails only at an endpoint that had to
   be asked and came before any that would do.  No service is asked twice, nor
   at all if its endpoint does not fit or its URL or type settles the version. *)
FirstThatSupports == SearchedInOrder /\ AskedOnlyIfNeeded

(* RequireMicroversion accepts no microversion outside the interval that the
   service published.  It refuses one inside only where the interval spans
   several majors, since IsSupported compares the minors on their own. *)
NotAfter(v, w) == v[1] < w[1] \/ (v[1] = w[1] /\ v[2] <= w[2])
Inside(v, min, max) == NotAfter(min, v) /\ NotAfter(v, max)

MicroversionIsInside ==
  /\ micro.said = "supported" => Inside(micro.wanted, micro.min, micro.max)
  /\ micro.said = "not supported" => \/ ~Inside(micro.wanted, micro.min, micro.max)
                                     \/ micro.min[1] < micro.max[1]

(* Without a version the search and its deprecated copies agree. *)
DeprecatedSearchAgrees ==
  opts.version = 0 =>
    /\ pc \in {"located", "done"} => EndpointURL = at
    /\ pc = "notfound" => EndpointURL = 0

=============================================================================
