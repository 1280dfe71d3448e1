------------------------ MODULE EndpointSearchProofs ------------------------
(***************************************************************************)
(* The search for an endpoint, for any catalogs, queries and documents:    *)
(* the identity version chosen is the best one published, the endpoint     *)
(* found fits the query and is the first that supports the version, and a  *)
(* microversion accepted is one of the interval published.                 *)
(***************************************************************************)
EXTENDS EndpointSearch, FiniteSetTheorems, TLAPS

Located == {"located", "done"}
SearchPlaces == {"searching", "notfound"} \cup Located
Verdicts == {"unseen", "yes", "no", "error"}
Highest == [version : {"none", "v2", "v3"}, href : {"none", "given", "other"}]

TypeInv ==
  /\ pc \in {"new", "walking", "chosen", "ready", "failed"} \cup SearchPlaces
  /\ suffix \in {"none", "v2", "v3"}
  /\ values \in Seq(IdentityValues) /\ published \in Seq(IdentityValues)
  /\ highest \in Highest
  /\ catalog \in Seq(Endpoints)
  /\ query \in [opts : Options, service : Text, version : Nat] /\ opts \in Options
  /\ at \in Nat
  /\ verdict \in [DOMAIN verdict -> Verdicts]
  /\ requests \in [DOMAIN verdict -> Nat]
  /\ DOMAIN verdict \subseteq DOMAIN catalog
  /\ pc \in SearchPlaces => DOMAIN verdict = DOMAIN catalog
  /\ pc \notin SearchPlaces \cup {"failed"} => DOMAIN verdict = {}

-----------------------------------------------------------------------------
(* The choice of the identity version. *)
GoodKnown == {k \in Known : Good(published[k])}
Walked == Len(published) - Len(values)

(* No endpoint among the first n values is exactly the one given, and highest
   is the first of the best among them. *)
BestSoFar(n) ==
  /\ \A k \in Exact : k > n
  /\ IF \E k \in GoodKnown : k <= n
     THEN \E k \in GoodKnown :
            /\ k <= n
            /\ highest = [version |-> published[k].version, href |-> published[k].href]
            /\ \A j \in GoodKnown : j <= n =>
                 /\ Priority[published[j].version] <= Priority[published[k].version]
                 /\ j < k => Priority[published[j].version] < Priority[published[k].version]
     ELSE highest = NoEndpoint

ChoiceInv ==
  /\ pc = "new" => published = <<>> /\ values = <<>> /\ highest = NoEndpoint
  /\ pc = "walking" =>
       /\ suffix = "none"
       /\ Len(values) <= Len(published)
       /\ \A k \in DOMAIN values : values[k] = published[Walked + k]
       /\ BestSoFar(Walked)
  /\ pc \in {"chosen", "ready"} \cup SearchPlaces => highest.version \in DOMAIN Priority
  /\ pc \in {"ready"} \cup SearchPlaces => published = <<>>

-----------------------------------------------------------------------------
(* The search. *)

(* What New<Service> makes of the options, and when it goes on with them. *)
QueryInv ==
  pc \in SearchPlaces =>
    /\ LET o == ApplyDefaults(query.opts, query.service)
       IN  opts = [o EXCEPT !.version = IF query.version = 0 THEN @ ELSE query.version]
    /\ query.version # 0 => query.opts.version \in {0, query.version}

(* There is an answer after which the endpoint supports the version. *)
Vouched(e) == \E document \in Answers(e) : SupportsVersion(e, document) = "yes"

(* What each verdict says about its endpoint, and each request. *)
VerdictsInv ==
  \A j \in DOMAIN verdict :
    /\ verdict[j] = "yes" => Serves(catalog[j]) /\ Vouched(catalog[j])
    /\ verdict[j] = "no" => ~Trusted(catalog[j])
    /\ requests[j] \in {0, 1}
    /\ requests[j] = 1 =>
         Serves(catalog[j]) /\ MustAsk(catalog[j]) /\ opts.availability \in Availabilities

OrderInv ==
  /\ pc \in SearchPlaces => at \in 1..(Len(catalog) + 1) /\ \A j \in 1..(at - 1) : Passed(j)
  /\ pc \in {"searching"} \cup Located =>
       \A j \in DOMAIN catalog : j >= at /\ (j = at => pc = "searching") =>
         verdict[j] = "unseen" /\ requests[j] = 0
  /\ pc = "notfound" => at = Len(catalog) + 1
  /\ pc \in Located => /\ at \in DOMAIN catalog /\ verdict[at] = "yes"
                       /\ opts.availability \in Availabilities
  /\ \A j \in DOMAIN verdict : verdict[j] = "error" =>
       pc = "failed" /\ j = at /\ requests[j] = 1 /\ \A i \in 1..(j - 1) : Passed(i)

IInv == TypeInv /\ ChoiceInv /\ IdentityVersionIsBest /\ QueryInv /\ VerdictsInv /\ OrderInv /\ MicroversionIsInside

-----------------------------------------------------------------------------
(* The first of several places. *)

LEMMA HasLeast ==
  ASSUME NEW n \in Nat, NEW S \in SUBSET (1..n), S # {}
  PROVE  \E k \in S : \A j \in S : k <= j
<1> DEFINE Below(x) == {y \in S : y <= x}
           T == {Below(x) : x \in S}
<1>1. IsFiniteSet(S) /\ S \subseteq Nat
  <2>1. IsFiniteSet(1..n) /\ S \subseteq 1..n
    BY FS_Interval
  <2>2. IsFiniteSet(S)
    BY <2>1, FS_Subset
  <2> QED
    BY <2>2
<1>2. T \subseteq FiniteSubsetsOf(S) /\ T # {}
  <2>1. FiniteSubsetsOf(S) = SUBSET S
    BY <1>1, FS_FiniteSubsetsOfFinite
  <2>2. T \subseteq SUBSET S /\ T # {}
    OBVIOUS
  <2> QED
    BY <2>1, <2>2
<1>3. PICK t \in T : \A u \in T : ~(<<u, t>> \in StrictSubsetOrdering(S))
  BY <1>2, FS_StrictSubsetOrderingWellFounded, WFMin
<1>4. PICK k \in S : t = Below(k)
  BY <1>3
<1>5. ASSUME NEW j \in S, ~(k <= j) PROVE FALSE
  <2>1. k \in Nat /\ j \in Nat /\ j < k
    BY <1>1, <1>5
  <2>2. \A z \in S : z <= j => z <= k
    BY <1>1, <2>1
  <2>3. k \in Below(k) /\ k \notin Below(j)
    BY <2>1
  <2>4. <<Below(j), Below(k)>> \in StrictSubsetOrdering(S)
    BY <2>2, <2>3 DEF StrictSubsetOrdering
  <2> QED
    BY <1>3, <1>4, <2>4
<1> QED
  BY <1>5

LEMMA TheLeast ==
  ASSUME NEW S \in SUBSET Nat, NEW k \in S, \A j \in S : k <= j
  PROVE  (CHOOSE i \in S : \A j \in S : i <= j) = k
<1>1. \A i \in S : (\A j \in S : i <= j) => i = k
  OBVIOUS
<1> QED
  BY <1>1

-----------------------------------------------------------------------------
(* Version discovery, whatever the elements and their versions are. *)

LEMMA MarksOf ==
  ASSUME NEW path \in Seq(DOMAIN VersionOf)
  PROVE  \/ /\ \A k \in DOMAIN path : path[k] \notin Marked
            /\ BaseVersionedEndpoint(path) = path
         \/ \E k \in DOMAIN path :
              /\ path[k] \in Marked /\ \A i \in 1..(k - 1) : path[i] \notin Marked
              /\ BaseVersionedEndpoint(path) = SubSeq(path, 1, k)
              /\ ExtractVersion(BaseVersionedEndpoint(path)) = VersionOf[path[k]]
<1> DEFINE marks == {k \in DOMAIN path : path[k] \in Marked}
<1>1. CASE marks = {}
  BY <1>1 DEF BaseVersionedEndpoint
<1>2. CASE marks # {}
  <2>1. marks \in SUBSET (1..Len(path)) /\ Len(path) \in Nat
    OBVIOUS
  <2>2. PICK k \in marks : \A j \in marks : k <= j
    <3> HIDE DEF marks
    <3> QED
      BY <1>2, <2>1, HasLeast
  <2>3. (CHOOSE i \in marks : \A j \in marks : i <= j) = k
    <3>1. marks \in SUBSET Nat
      BY <2>1
    <3> HIDE DEF marks
    <3> QED
      BY <2>2, <3>1, TheLeast
  <2>4. BaseVersionedEndpoint(path) = SubSeq(path, 1, k)
    BY <1>2, <2>3 DEF BaseVersionedEndpoint
  <2>5. SubSeq(path, 1, k) # <<>> /\ Len(SubSeq(path, 1, k)) = k /\ SubSeq(path, 1, k)[k] = path[k]
    BY <2>1, <2>2
  <2>6. \A i \in 1..(k - 1) : path[i] \notin Marked
    BY <2>1, <2>2
  <2> QED
    BY <2>2, <2>4, <2>5, <2>6 DEF ExtractVersion
<1> QED
  BY <1>1, <1>2

(* A URL that is cut at its first mark and then names no version: every
   version in it stands behind a mark that names none. *)
LEMMA UnknownVersion ==
  ASSUME NEW path \in Seq(DOMAIN VersionOf), ExtractVersion(BaseVersionedEndpoint(path)) = 0,
         NEW k \in DOMAIN path, Names(path, k) # 0
  PROVE  \E i \in 1..(k - 1) : path[i] \in Marked
<1>1. CASE \A j \in DOMAIN path : path[j] \notin Marked
  <2>1. BaseVersionedEndpoint(path) = path
    BY <1>1, MarksOf
  <2>2. k = Len(path) /\ path # <<>>
    BY <1>1 DEF Names
  <2> QED
    BY <2>1, <2>2 DEF ExtractVersion, Names
<1>2. CASE \E j \in DOMAIN path : path[j] \in Marked
  <2>1. PICK i \in DOMAIN path :
          /\ path[i] \in Marked /\ \A j \in 1..(i - 1) : path[j] \notin Marked
          /\ ExtractVersion(BaseVersionedEndpoint(path)) = VersionOf[path[i]]
    BY <1>2, MarksOf
  <2>2. i # k
    BY <2>1 DEF Names
  <2>3. i \in 1..Len(path) /\ k \in 1..Len(path)
    OBVIOUS
  <2>4. ~(k < i)
    <3> SUFFICES ASSUME k < i PROVE FALSE
      OBVIOUS
    <3>1. path[k] \notin Marked /\ k # Len(path)
      BY <2>1, <2>3
    <3> QED
      BY <3>1 DEF Names
  <2> QED
    BY <2>1, <2>2, <2>3, <2>4
<1> QED
  BY <1>1, <1>2

(* A URL whose first element names a version names that one. *)
LEMMA FirstElement ==
  ASSUME NEW path \in Seq(DOMAIN VersionOf), path # <<>>, Names(path, 1) # 0
  PROVE  ExtractVersion(BaseVersionedEndpoint(path)) = Names(path, 1)
<1>1. Len(path) \in Nat \ {0} /\ 1 \in DOMAIN path
  OBVIOUS
<1>2. CASE \A j \in DOMAIN path : path[j] \notin Marked
  <2>1. BaseVersionedEndpoint(path) = path
    BY <1>2, MarksOf
  <2>2. Len(path) = 1
    BY <1>1, <1>2 DEF Names
  <2> QED
    BY <2>1, <2>2 DEF ExtractVersion, Names
<1>3. CASE \E j \in DOMAIN path : path[j] \in Marked
  <2>1. PICK i \in DOMAIN path :
          /\ path[i] \in Marked /\ \A j \in 1..(i - 1) : path[j] \notin Marked
          /\ ExtractVersion(BaseVersionedEndpoint(path)) = VersionOf[path[i]]
    BY <1>3, MarksOf
  <2>2. i = 1
    <3>1. i \in 1..Len(path)
      OBVIOUS
    <3>2. CASE i > 1
      <4>1. path[1] \notin Marked /\ Len(path) # 1
        BY <1>1, <2>1, <3>1, <3>2
      <4> QED
        BY <4>1 DEF Names
    <3> QED
      BY <3>1, <3>2
  <2> QED
    BY <2>1, <2>2 DEF Names
<1> QED
  BY <1>2, <1>3

(* The documents decoded are versions with their microversions. *)
LEMMA VersionTypes ==
  ASSUME NEW path \in Seq(DOMAIN VersionOf), NEW discover \in BOOLEAN,
         NEW document \in VersionsDocuments \cup {NoDocument}
  PROVE  GetServiceVersions(path, discover, document).versions \subseteq VersionEntries
<1>1. Zero \in Nat \X Nat /\ "" \in Text
  BY SMT DEF Zero, Text
<1>2. VersionInURL(path) \in VersionEntries
  <2>1. ExtractVersion(path) \in Nat
    BY VersionsAssumption DEF ExtractVersion
  <2> QED
    BY <1>1, <2>1 DEF VersionInURL, VersionEntries
<1>3. Decoded(document) \subseteq VersionEntries
  <2>1. document.entries \subseteq VersionEntries
    BY DEF VersionsDocuments, NoDocument
  <2>2. \A e \in VersionEntries : [e EXCEPT !.status = "", !.min = Zero, !.max = Zero] \in VersionEntries
    BY <1>1 DEF VersionEntries
  <2> QED
    BY <2>1, <2>2 DEF Decoded
<1> QED
  BY <1>2, <1>3 DEF GetServiceVersions

(* The separate comparison of the minors accepts only what lies between, and
   all of it unless the interval spans several majors. *)
LEMMA SupportedIsInside ==
  ASSUME NEW v \in Nat \X Nat, NEW min \in Nat \X Nat, NEW max \in Nat \X Nat
  PROVE  /\ IsSupported(v, min, max) => Inside(v, min, max)
         /\ Inside(v, min, max) => IsSupported(v, min, max) \/ min[1] < max[1]
<1>1. /\ v[1] \in Nat /\ v[2] \in Nat /\ min[1] \in Nat /\ min[2] \in Nat
      /\ max[1] \in Nat /\ max[2] \in Nat
  OBVIOUS
<1> QED
  BY <1>1 DEF IsSupported, Inside, NotAfter

-----------------------------------------------------------------------------
(* Defaults and the conditions of the loops. *)

LEMMA DefaultsApplied ==
  ASSUME NEW o \in Options, NEW service \in Text
  PROVE  LET type == IF o.type = "" THEN service ELSE o.type
             d == ApplyDefaults(o, service)
         IN  /\ d \in Options
             /\ d.name = o.name /\ d.region = o.region /\ d.version = o.version
             /\ d.availability = IF o.availability = "" THEN "public" ELSE o.availability
             /\ \A t \in {d.type} \cup d.aliases : SameService(t, type) \/ t \in o.aliases
<1> DEFINE type == IF o.type = "" THEN service ELSE o.type
           official == {t \in DOMAIN ServiceTypeAliases : type \in ServiceTypeAliases[t]}
           T == IF type \in DOMAIN ServiceTypeAliases \/ official = {} \/ o.aliases # {} THEN type
                ELSE CHOOSE t \in official : TRUE
           aliases == IF o.aliases = {} /\ T \in DOMAIN ServiceTypeAliases
                      THEN ServiceTypeAliases[T] ELSE o.aliases
           availability == IF o.availability = "" THEN "public" ELSE o.availability
           d == [o EXCEPT !.type = T, !.availability = availability, !.aliases = aliases]
<1>1. ApplyDefaults(o, service) = d
  BY DEF ApplyDefaults
<1>2. T = type \/ (T \in DOMAIN ServiceTypeAliases /\ type \in ServiceTypeAliases[T])
  <2>1. official # {} => (CHOOSE t \in official : TRUE) \in official
    OBVIOUS
  <2> QED
    BY <2>1
<1>3. type \in Text /\ o.aliases \in SUBSET Text /\ availability \in Text
  BY DEF Options, Text
<1>4. T \in Text
  BY <1>2, <1>3, EndpointSearchAssumption
<1>5. aliases \in SUBSET Text
  BY <1>3, EndpointSearchAssumption
<1>6. /\ d \in Options /\ d.type = T /\ d.aliases = aliases /\ d.availability = availability
      /\ d.name = o.name /\ d.region = o.region /\ d.version = o.version
  <2> HIDE DEF T, aliases, availability
  <2> QED
    BY <1>3, <1>4, <1>5 DEF Options
<1>7. ASSUME NEW t \in {T} \cup aliases PROVE SameService(t, type) \/ t \in o.aliases
  <2>1. CASE t = T
    <3> HIDE DEF type, official, T, aliases, availability, d
    <3>1. T = type \/ (T \in DOMAIN ServiceTypeAliases /\ {T, type} \subseteq {T} \cup ServiceTypeAliases[T])
      BY <1>2
    <3> QED
      BY <2>1, <3>1 DEF SameService
  <2>2. CASE t \in aliases /\ t \notin o.aliases
    <3>1. T \in DOMAIN ServiceTypeAliases /\ t \in ServiceTypeAliases[T]
      BY <2>2
    <3> HIDE DEF type, official, T, aliases, availability, d
    <3>2. {t, type} \subseteq {T} \cup ServiceTypeAliases[T]
      BY <1>2, <3>1
    <3> QED
      BY <3>1, <3>2 DEF SameService
  <2> QED
    BY <1>7, <2>1, <2>2
<1> HIDE DEF T, aliases, d
<1> QED
  BY <1>1, <1>6, <1>7

(* What the search concludes depends on the options and on the version of the
   identity service only. *)
LEMMA ConclusionsStable ==
  ASSUME UNCHANGED <<opts, highest>>
  PROVE  /\ \A e : Serves(e)' <=> Serves(e)
         /\ \A e : Trusted(e)' <=> Trusted(e)
         /\ \A e : MustAsk(e)' <=> MustAsk(e)
         /\ \A e : Vouched(e)' <=> Vouched(e)
<1>1. \A e : (Path(e))' = Path(e) /\ (PathOf(e))' = PathOf(e) /\ (Answers(e))' = Answers(e)
  BY DEF Path, PathOf, Answers
<1>2. \A e : (Trusted(e)' <=> Trusted(e)) /\ (WrongByType(e)' <=> WrongByType(e))
  BY DEF Trusted, WrongByType
<1>3. \A e : Serves(e)' <=> Serves(e)
  BY DEF Serves, InRegion
<1>4. \A e : MustAsk(e)' <=> MustAsk(e)
  BY <1>1, <1>2 DEF MustAsk
<1>5. \A e, document : (SupportsVersion(e, document))' = SupportsVersion(e, document)
  BY <1>1, <1>2 DEF SupportsVersion
<1>6. \A e : Vouched(e)' <=> Vouched(e)
  BY <1>1, <1>5 DEF Vouched
<1> QED
  BY <1>2, <1>3, <1>4, <1>6

(* Where no document is needed the URL and the type settle the version. *)
LEMMA NoNeedToAsk ==
  ASSUME NEW e, ~MustAsk(e), NEW document
  PROVE  SupportsVersion(e, document) = SupportsVersion(e, NoDocument)
         /\ SupportsVersion(e, document) # "error"
<1>1. CASE Trusted(e) \/ WrongByType(e)
  BY <1>1 DEF SupportsVersion
<1>2. CASE ~Trusted(e) /\ ~WrongByType(e)
  <2>1. ~NeedsDocument(PathOf(e), FALSE)
    BY <1>2 DEF MustAsk
  <2>2. ASSUME NEW d
        PROVE  SupportsVersion(e, d) =
                 IF VersionInURL(PathOf(e)).major = opts.version THEN "yes" ELSE "no"
    <3>1. GetServiceVersions(PathOf(e), FALSE, d).ok
      BY <2>1 DEF GetServiceVersions
    <3>2. GetServiceVersions(PathOf(e), FALSE, d).versions = {VersionInURL(PathOf(e))}
      BY <2>1 DEF GetServiceVersions
    <3> QED
      BY <1>2, <3>1, <3>2 DEF SupportsVersion
  <2> QED
    BY <2>2
<1> QED
  BY <1>1, <1>2

LEMMA ConclusionTypes ==
  ASSUME NEW e, NEW document
  PROVE  /\ SupportsVersion(e, document) \in {"yes", "no", "error"}
         /\ SupportsVersion(e, document) = "no" => ~Trusted(e)
<1> QED
  BY DEF SupportsVersion

-----------------------------------------------------------------------------
(* The types.  Everything but the search leaves the search alone. *)

LEMMA EmptySequence ==
  ASSUME NEW S
  PROVE  <<>> \in Seq(S) /\ DOMAIN <<>> = {} /\ <<>> \in [{} -> S]
<1>1. <<>> \in Seq(S) /\ Len(<<>>) = 0
  OBVIOUS
<1>2. <<>> \in [1..0 -> S]
  BY <1>1
<1>3. 1..0 = {}
  OBVIOUS
<1> QED
  BY <1>1, <1>2, <1>3

LEMMA Initially == Init => IInv
<1> SUFFICES ASSUME Init PROVE IInv
  OBVIOUS
<1>1. NoOpts \in Options /\ "" \in Text
  BY DEF NoOpts, Options, Text
<1>2. TypeInv
  <2>1. /\ pc = "new" /\ suffix \in {"none", "v2", "v3"} /\ highest = NoEndpoint /\ NoEndpoint \in Highest
        /\ at \in Nat
    BY DEF Init, NoEndpoint, Highest
  <2>2. values \in Seq(IdentityValues) /\ published \in Seq(IdentityValues) /\ catalog \in Seq(Endpoints)
    <3>1. values = <<>> /\ published = <<>> /\ catalog = <<>>
      BY DEF Init
    <3> QED
      BY <3>1, EmptySequence
  <2>3. query \in [opts : Options, service : Text, version : Nat] /\ opts \in Options
    BY <1>1 DEF Init
  <2>4. /\ verdict = <<>> /\ requests = <<>> /\ DOMAIN verdict = {}
        /\ verdict \in [{} -> Verdicts] /\ requests \in [{} -> Nat]
    <3>1. verdict = <<>> /\ requests = <<>>
      BY DEF Init
    <3> QED
      BY <3>1, EmptySequence
  <2>5. verdict \in [DOMAIN verdict -> Verdicts] /\ requests \in [DOMAIN verdict -> Nat]
    BY <2>4
  <2> QED
    BY <2>1, <2>2, <2>3, <2>4, <2>5 DEF TypeInv, SearchPlaces, Located
<1>3. ChoiceInv /\ QueryInv /\ IdentityVersionIsBest /\ MicroversionIsInside
  BY DEF Init, ChoiceInv, QueryInv, IdentityVersionIsBest, MicroversionIsInside, NoMicro, SearchPlaces, Located
<1>4. VerdictsInv /\ OrderInv
  <2>1. DOMAIN verdict = {}
    BY EmptySequence DEF Init
  <2> QED
    BY <2>1 DEF Init, VerdictsInv, OrderInv, SearchPlaces, Located
<1> QED
  BY <1>2, <1>3, <1>4 DEF IInv

LEMMA ChoiceTypes ==
  ASSUME TypeInv, ChoiceInv, ChooseBySuffix \/ AskIdentity \/ WalkValue \/ WalkEnds \/ Authenticated
  PROVE  TypeInv' /\ UNCHANGED <<search, micro>> /\ pc \notin SearchPlaces /\ pc' \notin SearchPlaces
<1>1. UNCHANGED <<search, micro>> /\ pc \notin SearchPlaces /\ pc' \notin SearchPlaces
  BY DEF ChooseBySuffix, AskIdentity, WalkValue, WalkEnds, Authenticated, choice, search, SearchPlaces, Located
<1>2. /\ pc' \in {"walking", "chosen", "ready", "failed"} /\ pc # "failed"
      /\ suffix' \in {"none", "v2", "v3"}
  <2>1. suffix \in {"none", "v2", "v3"}
    BY DEF TypeInv
  <2>2. CASE WalkValue
    BY <2>1, <2>2 DEF WalkValue
  <2>3. CASE ~WalkValue
    BY <2>1, <2>3 DEF ChooseBySuffix, AskIdentity, WalkEnds, Authenticated, choice
  <2> QED
    BY <2>2, <2>3
<1>3. values' \in Seq(IdentityValues) /\ published' \in Seq(IdentityValues)
  <2>1. values \in Seq(IdentityValues) /\ published \in Seq(IdentityValues)
    BY DEF TypeInv
  <2>2. CASE AskIdentity
    BY <2>1, <2>2, EndpointSearchAssumption DEF AskIdentity
  <2>3. CASE WalkValue
    BY <2>1, <2>3 DEF WalkValue
  <2>4. CASE Authenticated
    BY <2>4, EmptySequence DEF Authenticated
  <2>5. CASE ChooseBySuffix \/ WalkEnds
    BY <2>1, <2>5 DEF ChooseBySuffix, WalkEnds, choice
  <2> QED
    BY <2>2, <2>3, <2>4, <2>5
<1>4. highest' \in Highest
  <2>1. CASE WalkValue
    <3>1. Head(values) \in IdentityValues
      BY <2>1 DEF WalkValue, TypeInv
    <3> QED
      BY <2>1, <3>1 DEF WalkValue, TypeInv, Highest, IdentityValues, Priority
  <2>2. CASE ~WalkValue
    BY <2>2 DEF ChooseBySuffix, AskIdentity, WalkEnds, Authenticated, choice, TypeInv, Highest
  <2> QED
    BY <2>1, <2>2
<1>5. catalog' \in Seq(Endpoints) /\ DOMAIN verdict' \subseteq DOMAIN catalog'
  <2>1. CASE Authenticated
    <3>1. highest.version \in DOMAIN Priority /\ verdict' = verdict /\ DOMAIN verdict = {}
      BY <1>1, <2>1 DEF Authenticated, ChoiceInv, TypeInv, search
    <3> QED
      BY <2>1, <3>1, EndpointSearchAssumption DEF Authenticated
  <2>2. CASE ~Authenticated
    BY <1>1, <2>2 DEF ChooseBySuffix, AskIdentity, WalkValue, WalkEnds, TypeInv, search
  <2> QED
    BY <2>1, <2>2
<1> QED
  BY <1>1, <1>2, <1>3, <1>4, <1>5 DEF TypeInv, search

-----------------------------------------------------------------------------
(* The choice of the identity version. *)

LEMMA Priorities ==
  DOMAIN Priority = {"v2", "v3"} /\ \A v \in DOMAIN Priority : Priority[v] \in Nat
  BY DEF Priority

LEMMA PublishedStable ==
  ASSUME UNCHANGED published
  PROVE  Known' = Known /\ Exact' = Exact /\ GoodKnown' = GoodKnown /\ Best' = Best
<1>1. Known' = Known
  BY DEF Known
<1>2. \A value : Good(value)' <=> Good(value)
  BY DEF Good
<1>3. Exact' = Exact /\ GoodKnown' = GoodKnown
  BY <1>1, <1>2 DEF Exact, GoodKnown
<1> QED
  BY <1>1, <1>2, <1>3 DEF Best

LEMMA KnownPlaces ==
  ASSUME TypeInv
  PROVE  /\ Known \subseteq 1..Len(published) /\ Len(published) \in Nat /\ Len(values) \in Nat
         /\ Exact \subseteq Known /\ GoodKnown \subseteq Known /\ Best \subseteq GoodKnown
         /\ \A k \in Known : /\ published[k].version \in {"v2", "v3"}
                            /\ Priority[published[k].version] \in Nat
<1>1. published \in Seq(IdentityValues) /\ values \in Seq(IdentityValues)
  BY DEF TypeInv
<1> QED
  BY <1>1, Priorities DEF Known, Exact, GoodKnown, Best

(* When every value has been looked at, the best version so far is the best. *)
LEMMA BestInTheEnd ==
  ASSUME TypeInv, BestSoFar(Len(published))
  PROVE  /\ Exact = {}
         /\ highest = NoEndpoint => Best = {}
         /\ highest # NoEndpoint => \E k \in Best :
              /\ highest = [version |-> published[k].version, href |-> published[k].href]
              /\ \A j \in Best : k <= j
<1>1. Exact = {}
  BY KnownPlaces DEF BestSoFar
<1>2. CASE GoodKnown = {}
  BY <1>1, <1>2, KnownPlaces DEF BestSoFar
<1>3. CASE GoodKnown # {}
  <2>1. \E k \in GoodKnown : k <= Len(published)
    BY <1>3, KnownPlaces
  <2>2. PICK k \in GoodKnown :
          /\ highest = [version |-> published[k].version, href |-> published[k].href]
          /\ \A j \in GoodKnown : j <= Len(published) =>
               /\ Priority[published[j].version] <= Priority[published[k].version]
               /\ j < k => Priority[published[j].version] < Priority[published[k].version]
    BY <2>1 DEF BestSoFar
  <2>3. \A j \in GoodKnown : j <= Len(published)
    BY KnownPlaces
  <2>4. k \in Best
    BY <2>2, <2>3 DEF Best, GoodKnown
  <2>5. ASSUME NEW j \in Best PROVE k <= j
    <3>1. Priority[published[k].version] <= Priority[published[j].version]
      BY <2>2, <2>5 DEF Best, GoodKnown
    <3>2. j \in GoodKnown /\ j \in Nat /\ k \in Nat
      BY <2>5, KnownPlaces
    <3> QED
      BY <2>2, <2>3, <3>1, <3>2, KnownPlaces
  <2>6. highest # NoEndpoint
    BY <2>2, KnownPlaces DEF NoEndpoint
  <2> QED
    BY <1>1, <2>2, <2>4, <2>5, <2>6
<1> QED
  BY <1>2, <1>3

(* One more value. *)
LEMMA OneMore ==
  ASSUME TypeInv, NEW n \in Nat, n + 1 \in DOMAIN published, BestSoFar(n),
         UNCHANGED published, n + 1 \notin Exact,
         highest' = IF n + 1 \in GoodKnown /\ Better(published[n + 1])
                    THEN [version |-> published[n + 1].version, href |-> published[n + 1].href]
                    ELSE highest
  PROVE  BestSoFar(n + 1)'
<1> DEFINE P(k) == Priority[published[k].version]
           Leads(k, m, h) ==
             /\ k <= m
             /\ h = [version |-> published[k].version, href |-> published[k].href]
             /\ \A j \in GoodKnown : j <= m => P(j) <= P(k) /\ (j < k => P(j) < P(k))
<1>1. Exact' = Exact /\ GoodKnown' = GoodKnown
  BY PublishedStable
<1>2. /\ \A k \in GoodKnown : k \in Nat /\ P(k) \in Nat /\ published[k].version \in {"v2", "v3"}
      /\ \A k \in Exact : k \in Nat
  BY KnownPlaces
<1>3. \A k \in Exact : k > n + 1
  BY <1>2 DEF BestSoFar
<1>4. CASE \E k \in GoodKnown : k <= n
  <2>1. PICK k \in GoodKnown : Leads(k, n, highest)
    BY <1>4 DEF BestSoFar
  <2>2. highest # NoEndpoint /\ highest.version = published[k].version
    BY <1>2, <2>1 DEF NoEndpoint
  <2>3. CASE n + 1 \in GoodKnown /\ Better(published[n + 1])
    <3>1. P(n + 1) > P(k)
      BY <2>2, <2>3 DEF Better
    <3>2. Leads(n + 1, n + 1, highest')
      BY <1>2, <2>1, <2>3, <3>1
    <3> QED
      BY <1>1, <1>3, <2>3, <3>2 DEF BestSoFar
  <2>4. CASE ~(n + 1 \in GoodKnown /\ Better(published[n + 1]))
    <3>1. n + 1 \in GoodKnown => ~(P(n + 1) > P(k))
      BY <2>2, <2>4 DEF Better
    <3>2. Leads(k, n + 1, highest')
      BY <1>2, <2>1, <2>4, <3>1
    <3> QED
      BY <1>1, <1>3, <3>2 DEF BestSoFar
  <2> QED
    BY <2>3, <2>4
<1>5. CASE ~\E k \in GoodKnown : k <= n
  <2>1. highest = NoEndpoint
    BY <1>5 DEF BestSoFar
  <2>2. CASE n + 1 \in GoodKnown
    <3>1. Leads(n + 1, n + 1, highest')
      BY <1>2, <1>5, <2>1, <2>2 DEF Better
    <3> QED
      BY <1>1, <1>3, <2>2, <3>1 DEF BestSoFar
  <2>3. CASE n + 1 \notin GoodKnown
    <3>1. highest' = NoEndpoint /\ ~\E k \in GoodKnown : k <= n + 1
      BY <1>2, <1>5, <2>1, <2>3
    <3> QED
      BY <1>1, <1>3, <3>1 DEF BestSoFar
  <2> QED
    BY <2>2, <2>3
<1> QED
  BY <1>4, <1>5

LEMMA WalkValueStep ==
  ASSUME TypeInv, ChoiceInv, WalkValue
  PROVE  ChoiceInv' /\ IdentityVersionIsBest'
<1> DEFINE value == Head(values)
<1>0. PICK n \in Nat : n = Walked
  <2>1. Len(values) <= Len(published)
    BY DEF ChoiceInv, WalkValue
  <2>2. Walked \in Nat
    BY <2>1, KnownPlaces DEF Walked
  <2> QED
    BY <2>2
<1>1. /\ suffix = "none" /\ BestSoFar(n) /\ Len(values) <= Len(published)
      /\ \A k \in DOMAIN values : values[k] = published[n + k]
      /\ UNCHANGED <<suffix, published>> /\ values # <<>> /\ values' = Tail(values)
  BY <1>0 DEF WalkValue, ChoiceInv
<1>2. /\ published \in Seq(IdentityValues) /\ values \in Seq(IdentityValues)
      /\ DOMAIN published = 1..Len(published) /\ DOMAIN values = 1..Len(values)
      /\ Len(published) \in Nat /\ Len(values) \in Nat \ {0}
      /\ Len(Tail(values)) = Len(values) - 1
      /\ \A k \in 1..(Len(values) - 1) : Tail(values)[k] = values[k + 1]
  BY <1>1 DEF TypeInv
<1>3. /\ n \in Nat /\ n + 1 \in DOMAIN published /\ value = published[n + 1] /\ Walked' = n + 1
  BY <1>0, <1>1, <1>2 DEF Walked
<1>4. /\ Known' = Known /\ Exact' = Exact
      /\ n + 1 \in Known <=> value.version \in DOMAIN Priority
      /\ n + 1 \in Exact <=> n + 1 \in Known /\ value.href = "given"
      /\ n + 1 \in GoodKnown <=> n + 1 \in Known /\ Good(value)
  BY <1>1, <1>3, PublishedStable DEF Known, Exact, GoodKnown
<1> HIDE DEF value
<1>5. CASE n + 1 \in Exact
  <2>1. /\ highest' = [version |-> value.version, href |-> "given"] /\ pc' = "chosen"
        /\ value.version \in DOMAIN Priority
    BY <1>4, <1>5 DEF WalkValue, value
  <2>2. \A k \in Exact : n + 1 <= k /\ k \in Nat
    <3>1. Exact \subseteq Nat
      BY KnownPlaces
    <3> QED
      BY <1>1, <1>3, <3>1 DEF BestSoFar
  <2>3. (FirstOf(IF Exact # {} THEN Exact ELSE Best))' = value
    <3> DEFINE S == IF Exact' # {} THEN Exact' ELSE Best'
    <3>1. S \in SUBSET Nat /\ n + 1 \in S /\ \A j \in S : n + 1 <= j
      BY <1>4, <1>5, <2>2
    <3>2. (CHOOSE k \in S : \A j \in S : k <= j) = n + 1
      <4> HIDE DEF S
      <4> QED
        BY <3>1, TheLeast
    <3> QED
      BY <1>1, <1>3, <3>2 DEF FirstOf
  <2>4. value.href = "given" /\ highest'.href = "given" /\ highest'.version = value.version
    BY <1>4, <1>5, <2>1
  <2>5. IdentityVersionIsBest'
    BY <1>1, <1>4, <1>5, <2>1, <2>3, <2>4 DEF IdentityVersionIsBest
  <2> QED
    BY <2>1, <2>4, <2>5 DEF ChoiceInv, SearchPlaces, Located
<1>6. CASE n + 1 \notin Exact
  <2>1. /\ pc' = "walking"
        /\ highest' = IF n + 1 \in GoodKnown /\ Better(published[n + 1])
                      THEN [version |-> published[n + 1].version, href |-> published[n + 1].href]
                      ELSE highest
    BY <1>3, <1>4, <1>6 DEF WalkValue, value
  <2>2. BestSoFar(n + 1)'
    BY <1>1, <1>3, <1>6, <2>1, OneMore
  <2>3. Len(values') <= Len(published')
    BY <1>1, <1>2
  <2>4. ASSUME NEW k \in DOMAIN values' PROVE values'[k] = published'[n + 1 + k]
    <3>1. k \in 1..(Len(values) - 1) /\ values'[k] = values[k + 1]
      BY <1>1, <1>2, <2>4
    <3>2. k + 1 \in DOMAIN values
      BY <1>2, <3>1
    <3>3. n + (k + 1) = n + 1 + k
      BY <3>1
    <3> QED
      BY <1>1, <3>1, <3>2, <3>3
  <2>5. BestSoFar(Walked)'
    BY <1>3, <2>2 DEF BestSoFar
  <2>6. IdentityVersionIsBest'
    BY <2>1 DEF IdentityVersionIsBest
  <2> QED
    BY <1>1, <1>3, <2>1, <2>3, <2>4, <2>5, <2>6 DEF ChoiceInv, SearchPlaces, Located
<1> QED
  BY <1>5, <1>6

LEMMA WalkEndsStep ==
  ASSUME TypeInv, ChoiceInv, WalkEnds
  PROVE  ChoiceInv' /\ IdentityVersionIsBest'
<1>1. /\ suffix = "none" /\ BestSoFar(Walked) /\ UNCHANGED choice /\ values = <<>>
      /\ pc' = IF highest = NoEndpoint \/ highest.href = "none" THEN "failed" ELSE "chosen"
  BY DEF WalkEnds, ChoiceInv
<1>2. BestSoFar(Len(published))
  <2>1. Walked = Len(published)
    BY <1>1, KnownPlaces DEF Walked
  <2> QED
    BY <1>1, <2>1
<1>3. /\ Exact = {} /\ Exact' = {} /\ Best' = Best
      /\ UNCHANGED <<suffix, published, highest>>
  BY <1>1, <1>2, BestInTheEnd, PublishedStable DEF choice
<1>4. CASE highest = NoEndpoint
  <2>1. Best' = {} /\ pc' = "failed"
    BY <1>1, <1>2, <1>3, <1>4, BestInTheEnd
  <2> QED
    BY <1>3, <2>1 DEF ChoiceInv, IdentityVersionIsBest, SearchPlaces, Located
<1>5. CASE highest # NoEndpoint
  <2>1. PICK k \in Best : /\ highest = [version |-> published[k].version, href |-> published[k].href]
                         /\ \A j \in Best : k <= j
    BY <1>2, <1>5, BestInTheEnd
  <2>2. k \in Known /\ Best \subseteq Nat
    BY KnownPlaces
  <2>3. (CHOOSE i \in Best' : \A j \in Best' : i <= j) = k
    BY <1>3, <2>1, <2>2, TheLeast
  <2>4. (FirstOf(Best))' = published[k]
    BY <1>3, <2>3 DEF FirstOf
  <2>5. (FirstOf(IF Exact # {} THEN Exact ELSE Best))' = published[k]
    <3> DEFINE S == IF Exact' # {} THEN Exact' ELSE Best'
    <3>1. S \in SUBSET Nat /\ k \in S /\ \A j \in S : k <= j
      BY <1>3, <2>1, <2>2
    <3>2. (CHOOSE i \in S : \A j \in S : i <= j) = k
      <4> HIDE DEF S
      <4> QED
        BY <3>1, TheLeast
    <3> QED
      BY <1>3, <3>2 DEF FirstOf
  <2>6. highest'.version \in DOMAIN Priority /\ highest'.href = published[k].href
    BY <1>3, <2>1, <2>2, KnownPlaces, Priorities
  <2>7. IdentityVersionIsBest'
    <3>1. CASE pc' = "failed"
      BY <1>1, <1>3, <1>5, <2>1, <2>4, <3>1 DEF IdentityVersionIsBest
    <3>2. CASE pc' = "chosen"
      BY <1>1, <1>3, <1>5, <2>1, <2>5, <3>2 DEF IdentityVersionIsBest
    <3> QED
      BY <1>1, <3>1, <3>2
  <2> QED
    BY <1>1, <2>6, <2>7 DEF ChoiceInv, SearchPlaces, Located
<1> QED
  BY <1>4, <1>5

LEMMA ChoiceStep ==
  ASSUME TypeInv, ChoiceInv, ChooseBySuffix \/ AskIdentity \/ WalkValue \/ WalkEnds \/ Authenticated
  PROVE  ChoiceInv' /\ IdentityVersionIsBest'
<1>1. CASE ChooseBySuffix
  <2>1. highest'.version = suffix /\ suffix \in DOMAIN Priority /\ pc' = "chosen" /\ suffix' = suffix
    BY <1>1, Priorities DEF ChooseBySuffix, TypeInv
  <2> QED
    BY <1>1, <2>1 DEF ChooseBySuffix, ChoiceInv, IdentityVersionIsBest, SearchPlaces, Located
<1>2. CASE AskIdentity /\ pc' = "failed"
  BY <1>2 DEF AskIdentity, ChoiceInv, IdentityVersionIsBest, SearchPlaces, Located
<1>3. CASE AskIdentity /\ pc' = "walking"
  <2>1. /\ suffix' = "none" /\ values' = published' /\ published' \in Seq(IdentityValues)
        /\ highest' = NoEndpoint
    BY <1>3, EndpointSearchAssumption DEF AskIdentity, ChoiceInv
  <2>2. Walked' = 0 /\ \A k \in DOMAIN published' : k \in Nat /\ k > 0
    BY <2>1 DEF Walked
  <2>3. \A k \in Exact' \cup GoodKnown' : k > 0 /\ k \in Nat
    BY <2>2 DEF Exact, GoodKnown, Known
  <2>4. BestSoFar(Walked)'
    BY <2>1, <2>2, <2>3 DEF BestSoFar
  <2>5. Len(values') <= Len(published') /\ \A k \in DOMAIN values' : values'[k] = published'[0 + k]
    BY <2>1, <2>2
  <2> QED
    BY <1>3, <2>1, <2>2, <2>4, <2>5 DEF ChoiceInv, IdentityVersionIsBest, SearchPlaces, Located
<1>4. CASE Authenticated
  BY <1>4 DEF Authenticated, ChoiceInv, IdentityVersionIsBest, SearchPlaces, Located
<1>5. AskIdentity => pc' \in {"failed", "walking"}
  BY DEF AskIdentity
<1> QED
  BY <1>1, <1>2, <1>3, <1>4, <1>5, WalkValueStep, WalkEndsStep

-----------------------------------------------------------------------------
(* The search. *)

(* A call of New<Service> starts the search anew, or fails. *)
LEMMA NewServiceClientStep ==
  ASSUME TypeInv, ChoiceInv, NewServiceClient
  PROVE  TypeInv' /\ ChoiceInv' /\ IdentityVersionIsBest' /\ QueryInv' /\ VerdictsInv' /\ OrderInv'
<1>1. PICK q \in Queries :
        LET o == ApplyDefaults(q.opts, q.service)
        IN  /\ query' = q
            /\ opts' = [o EXCEPT !.version = IF q.version = 0 THEN @ ELSE q.version]
            /\ pc' = IF \/ q.version # 0 /\ o.version \notin {0, q.version}
                        \/ highest.version = "v3" /\ o.availability \notin Availabilities
                     THEN "failed" ELSE "searching"
  BY DEF NewServiceClient
<1> DEFINE o == ApplyDefaults(q.opts, q.service)
<1>2. q \in [opts : Options, service : Text, version : Nat]
  BY EndpointSearchAssumption
<1>3. o \in Options /\ o.version = q.opts.version
  BY <1>2, DefaultsApplied
<1>4. /\ opts' = [o EXCEPT !.version = IF q.version = 0 THEN @ ELSE q.version]
      /\ query' = q /\ pc' \in {"failed", "searching"}
      /\ pc' = "searching" => (q.version # 0 => o.version \in {0, q.version})
  BY <1>1
<1> HIDE DEF o
<1>5. /\ pc = "ready" /\ at' = 1 /\ UNCHANGED <<choice, catalog>>
      /\ verdict' = [j \in DOMAIN catalog |-> "unseen"]
      /\ requests' = [j \in DOMAIN catalog |-> 0]
  BY DEF NewServiceClient
<1>6. catalog \in Seq(Endpoints) /\ published = <<>> /\ highest.version \in DOMAIN Priority
  BY <1>5 DEF TypeInv, ChoiceInv
<1>7. TypeInv'
  <2>1. opts' \in Options
    BY <1>2, <1>3, <1>4 DEF Options
  <2>2. verdict' \in [DOMAIN verdict' -> Verdicts] /\ requests' \in [DOMAIN verdict' -> Nat]
    BY <1>5 DEF Verdicts
  <2>3. DOMAIN verdict' = DOMAIN catalog
    BY <1>5
  <2> QED
    BY <1>2, <1>4, <1>5, <1>6, <2>1, <2>2, <2>3 DEF TypeInv, choice, SearchPlaces, Located
<1>8. ChoiceInv' /\ IdentityVersionIsBest'
  BY <1>4, <1>5, <1>6 DEF choice, ChoiceInv, IdentityVersionIsBest, SearchPlaces, Located
<1>9. QueryInv'
  <2>1. pc' = "searching" /\ query'.version # 0 => query'.opts.version \in {0, query'.version}
    BY <1>3, <1>4
  <2>2. pc' \in SearchPlaces => pc' = "searching"
    BY <1>4 DEF SearchPlaces, Located
  <2> QED
    BY <1>4, <2>1, <2>2 DEF QueryInv, ApplyDefaults, o
<1>10. VerdictsInv'
  BY <1>5 DEF VerdictsInv
<1>11. OrderInv'
  <2>1. Len(catalog) \in Nat /\ DOMAIN catalog = 1..Len(catalog)
    BY <1>6
  <2> QED
    BY <1>4, <1>5, <2>1 DEF OrderInv, SearchPlaces, Located
<1> QED
  BY <1>7, <1>8, <1>9, <1>10, <1>11

(* What a step of the search changes. *)
LEMMA SearchActions ==
  ASSUME TypeInv, SkipEndpoint \/ UnknownAvailability \/ TryEndpoint \/ SearchExhausted \/ RequireMicroversion
  PROVE  /\ UNCHANGED <<suffix, values, published, highest, catalog, query, opts>>
         /\ pc \in SearchPlaces /\ pc' \in {"failed"} \cup SearchPlaces
<1>1. UNCHANGED <<suffix, values, published, highest, catalog, query, opts>>
  BY DEF SkipEndpoint, UnknownAvailability, TryEndpoint, SearchExhausted, RequireMicroversion, choice, search
<1>2. pc \in SearchPlaces
  BY DEF SkipEndpoint, UnknownAvailability, TryEndpoint, SearchExhausted, RequireMicroversion, Searching,
         SearchPlaces, Located
<1>3. CASE TryEndpoint
  <2>1. PICK v : Conclude(v) /\ v \in {"yes", "no", "error"}
    BY <1>3, ConclusionTypes DEF TryEndpoint
  <2>2. pc' \in {pc, "located", "failed"}
    BY <2>1 DEF Conclude
  <2> QED
    BY <1>1, <1>2, <2>2 DEF SearchPlaces, Located
<1>4. CASE ~TryEndpoint
  <2>1. pc' \in {pc, "failed", "notfound", "done"}
    BY <1>4 DEF SkipEndpoint, UnknownAvailability, SearchExhausted, RequireMicroversion
  <2> QED
    BY <1>1, <1>2, <2>1 DEF SearchPlaces, Located
<1> QED
  BY <1>3, <1>4

(* What an endpoint that was tried has shown. *)
LEMMA Tried ==
  ASSUME TypeInv, TryEndpoint
  PROVE  LET e == catalog[at]
         IN  \E v \in {"yes", "no", "error"} :
              /\ Serves(e)
              /\ v = "yes" => Vouched(e) /\ pc' = "located" /\ at' = at
              /\ v = "no" => ~Trusted(e) /\ pc' = pc /\ at' = at + 1
              /\ v = "error" => MustAsk(e) /\ pc' = "failed" /\ at' = at
              /\ verdict' = [verdict EXCEPT ![at] = v]
              /\ requests' = IF MustAsk(e) THEN [requests EXCEPT ![at] = @ + 1] ELSE requests
<1> DEFINE e == catalog[at]
<1>1. Serves(e)
  BY DEF TryEndpoint
<1>2. PICK document \in Answers(e) :
        /\ Conclude(SupportsVersion(e, document))
        /\ requests' = IF MustAsk(e) THEN [requests EXCEPT ![at] = @ + 1] ELSE requests
  <2>1. NoDocument \in Answers(e)
    BY DEF Answers
  <2> QED
    BY <2>1 DEF TryEndpoint
<1> DEFINE v == SupportsVersion(e, document)
<1>3. /\ v \in {"yes", "no", "error"}
      /\ v = "no" => ~Trusted(e)
  BY ConclusionTypes
<1>4. v = "yes" => Vouched(e)
  BY <1>2 DEF Vouched
<1>5. v = "error" => MustAsk(e)
  BY NoNeedToAsk
<1>6. /\ v = "yes" => pc' = "located" /\ at' = at
      /\ v = "no" => pc' = pc /\ at' = at + 1
      /\ v = "error" => pc' = "failed" /\ at' = at
      /\ verdict' = [verdict EXCEPT ![at] = v]
  <2> HIDE DEF v
  <2>1. Conclude(v)
    BY <1>2 DEF v
  <2> QED
    BY <2>1 DEF Conclude
<1> HIDE DEF v
<1> QED
  BY <1>1, <1>2, <1>3, <1>4, <1>5, <1>6

(* Steps that leave the verdicts and the requests as they are. *)
LEMMA QuietStep ==
  ASSUME TypeInv, VerdictsInv, OrderInv, SkipEndpoint \/ UnknownAvailability \/ SearchExhausted \/ RequireMicroversion
  PROVE  TypeInv' /\ VerdictsInv' /\ OrderInv'
<1>1. /\ UNCHANGED <<suffix, values, published, highest, catalog, query, opts, verdict, requests>>
      /\ pc \in SearchPlaces /\ pc' \in {"failed"} \cup SearchPlaces
  BY SearchActions DEF SkipEndpoint, UnknownAvailability, SearchExhausted, RequireMicroversion, search
<1>2. at' \in Nat
  <2>1. at' = at \/ at' = at + 1
    BY DEF SkipEndpoint, UnknownAvailability, SearchExhausted, RequireMicroversion, search
  <2> QED
    BY <2>1 DEF TypeInv
<1>3. TypeInv'
  BY <1>1, <1>2 DEF TypeInv
<1>4. VerdictsInv'
  BY <1>1, ConclusionsStable DEF VerdictsInv
<1>5. \A j : Passed(j)' <=> Passed(j)
  BY <1>1, ConclusionsStable DEF Passed
<1>6. /\ at \in 1..(Len(catalog) + 1) /\ \A j \in 1..(at - 1) : Passed(j)
      /\ \A j \in DOMAIN verdict : verdict[j] # "error"
      /\ catalog \in Seq(Endpoints) /\ DOMAIN catalog = 1..Len(catalog) /\ Len(catalog) \in Nat
      /\ DOMAIN verdict = DOMAIN catalog
  BY <1>1 DEF OrderInv, TypeInv, SearchPlaces, Located
<1>7. \A j \in DOMAIN verdict' : verdict'[j] # "error"
  BY <1>1, <1>6
<1>8. CASE SkipEndpoint
  <2>1. /\ pc = "searching" /\ pc' = pc /\ at' = at + 1 /\ at <= Len(catalog) /\ ~Serves(catalog[at])
    BY <1>8 DEF SkipEndpoint, Searching
  <2>2. /\ \A j \in DOMAIN catalog : j >= at => verdict[j] = "unseen" /\ requests[j] = 0
    BY <2>1 DEF OrderInv
  <2>3. Passed(at)
    BY <1>6, <2>1, <2>2 DEF Passed
  <2>4. at' \in 1..(Len(catalog') + 1) /\ \A j \in 1..(at' - 1) : Passed(j)'
    <3>1. \A j \in 1..at : Passed(j)
      BY <1>6, <2>3
    <3>2. at' \in 1..(Len(catalog') + 1) /\ 1..(at' - 1) = 1..at
      BY <1>1, <1>6, <2>1
    <3> QED
      BY <1>5, <3>1, <3>2
  <2>5. \A j \in DOMAIN catalog' : j >= at' => verdict'[j] = "unseen" /\ requests'[j] = 0
    BY <1>1, <1>6, <2>1, <2>2
  <2> QED
    BY <1>3, <1>4, <1>7, <2>1, <2>4, <2>5 DEF OrderInv, SearchPlaces, Located
<1>9. CASE UnknownAvailability
  <2>1. pc' = "failed"
    BY <1>9 DEF UnknownAvailability
  <2> QED
    BY <1>3, <1>4, <1>7, <2>1 DEF OrderInv, SearchPlaces, Located
<1>10. CASE SearchExhausted
  <2>1. pc' = "notfound" /\ at' = at /\ at' = Len(catalog') + 1
    BY <1>1, <1>6, <1>10 DEF SearchExhausted, search
  <2>2. at' \in 1..(Len(catalog') + 1) /\ \A j \in 1..(at' - 1) : Passed(j)'
    BY <1>1, <1>5, <1>6, <2>1
  <2> QED
    BY <1>3, <1>4, <1>7, <2>1, <2>2 DEF OrderInv, SearchPlaces, Located
<1>11. CASE RequireMicroversion
  <2>1. pc = "located" /\ pc' = "done" /\ at' = at
    BY <1>11 DEF RequireMicroversion, search
  <2>2. /\ at \in DOMAIN catalog /\ verdict[at] = "yes" /\ opts.availability \in Availabilities
        /\ \A j \in DOMAIN catalog : j >= at /\ j # at => verdict[j] = "unseen" /\ requests[j] = 0
    BY <2>1 DEF OrderInv, Located
  <2>3. /\ at' \in DOMAIN catalog' /\ verdict'[at'] = "yes" /\ opts'.availability \in Availabilities
        /\ \A j \in DOMAIN catalog' : j >= at' /\ j # at' => verdict'[j] = "unseen" /\ requests'[j] = 0
    BY <1>1, <2>1, <2>2
  <2>4. at' \in 1..(Len(catalog') + 1) /\ \A j \in 1..(at' - 1) : Passed(j)'
    BY <1>1, <1>5, <1>6, <2>1
  <2> QED
    BY <1>3, <1>4, <1>7, <2>1, <2>3, <2>4 DEF OrderInv, SearchPlaces, Located
<1> QED
  BY <1>3, <1>4, <1>8, <1>9, <1>10, <1>11

LEMMA TryEndpointStep ==
  ASSUME TypeInv, VerdictsInv, OrderInv, TryEndpoint
  PROVE  TypeInv' /\ VerdictsInv' /\ OrderInv'
<1> DEFINE e == catalog[at]
<1>1. /\ UNCHANGED <<suffix, values, published, highest, catalog, query, opts>>
      /\ pc = "searching" /\ at <= Len(catalog) /\ opts.availability \in Availabilities
  BY SearchActions DEF TryEndpoint, Searching
<1>2. PICK v \in {"yes", "no", "error"} :
        /\ Serves(e)
        /\ v = "yes" => Vouched(e) /\ pc' = "located" /\ at' = at
        /\ v = "no" => ~Trusted(e) /\ pc' = pc /\ at' = at + 1
        /\ v = "error" => MustAsk(e) /\ pc' = "failed" /\ at' = at
        /\ verdict' = [verdict EXCEPT ![at] = v]
        /\ requests' = IF MustAsk(e) THEN [requests EXCEPT ![at] = @ + 1] ELSE requests
  BY Tried
<1>3. /\ at \in 1..(Len(catalog) + 1) /\ \A j \in 1..(at - 1) : Passed(j)
      /\ \A j \in DOMAIN verdict : verdict[j] # "error"
      /\ \A j \in DOMAIN catalog : j >= at => verdict[j] = "unseen" /\ requests[j] = 0
      /\ catalog \in Seq(Endpoints) /\ DOMAIN catalog = 1..Len(catalog) /\ Len(catalog) \in Nat
      /\ verdict \in [DOMAIN catalog -> Verdicts] /\ requests \in [DOMAIN catalog -> Nat]
  BY <1>1 DEF OrderInv, TypeInv, SearchPlaces, Located
<1>4. at \in DOMAIN catalog /\ requests[at] = 0
  BY <1>1, <1>3
<1>5. /\ verdict' \in [DOMAIN catalog -> Verdicts] /\ verdict'[at] = v
      /\ \A j \in DOMAIN catalog : j # at => verdict'[j] = verdict[j]
  BY <1>2, <1>3, <1>4 DEF Verdicts
<1>6. /\ requests' \in [DOMAIN catalog -> Nat] /\ requests'[at] = IF MustAsk(e) THEN 1 ELSE 0
      /\ \A j \in DOMAIN catalog : j # at => requests'[j] = requests[j]
  BY <1>2, <1>3, <1>4
<1>7. TypeInv'
  <2>1. at' \in Nat /\ pc' \in {"failed"} \cup SearchPlaces
    BY <1>1, <1>2, <1>3 DEF SearchPlaces, Located
  <2> QED
    BY <1>1, <1>3, <1>5, <1>6, <2>1 DEF TypeInv
<1>8. VerdictsInv'
  <2>1. DOMAIN verdict' = DOMAIN catalog /\ DOMAIN verdict = DOMAIN catalog
    BY <1>3, <1>5
  <2>2. ASSUME NEW j \in DOMAIN catalog
        PROVE  /\ verdict'[j] = "yes" => Serves(catalog[j]) /\ Vouched(catalog[j])
               /\ verdict'[j] = "no" => ~Trusted(catalog[j])
               /\ requests'[j] \in {0, 1}
               /\ requests'[j] = 1 =>
                    Serves(catalog[j]) /\ MustAsk(catalog[j]) /\ opts.availability \in Availabilities
    <3>1. CASE j = at
      BY <1>1, <1>2, <1>5, <1>6, <3>1
    <3>2. CASE j # at
      BY <1>5, <1>6, <2>1, <3>2 DEF VerdictsInv
    <3> QED
      BY <3>1, <3>2
  <2> QED
    BY <1>1, <2>1, <2>2, ConclusionsStable DEF VerdictsInv
<1>9. \A j \in 1..(at - 1) : Passed(j)'
  <2>1. \A j \in 1..(at - 1) : j \in DOMAIN catalog /\ j # at
    BY <1>3
  <2> QED
    BY <1>1, <1>3, <1>5, <2>1, ConclusionsStable DEF Passed
<1> HIDE DEF e
<1>10. CASE v = "yes"
  <2>1. \A j \in DOMAIN catalog : j >= at /\ j # at => verdict'[j] = "unseen" /\ requests'[j] = 0
    BY <1>3, <1>5, <1>6
  <2>2. \A j \in DOMAIN verdict' : verdict'[j] # "error"
    BY <1>3, <1>5, <1>10
  <2> QED
    BY <1>1, <1>2, <1>3, <1>4, <1>5, <1>7, <1>8, <1>9, <1>10, <2>1, <2>2 DEF OrderInv, SearchPlaces, Located
<1>11. CASE v = "no"
  <2>1. ASSUME NEW j, j = at PROVE Passed(j)'
    BY <1>1, <1>2, <1>5, <1>11, <2>1, ConclusionsStable DEF Passed, e
  <2>2. at' \in 1..(Len(catalog) + 1) /\ \A j \in 1..(at' - 1) : Passed(j)'
    <3>1. at' = at + 1 /\ at' \in 1..(Len(catalog) + 1)
      BY <1>1, <1>2, <1>3, <1>11
    <3>2. \A j \in 1..(at' - 1) : j \in 1..(at - 1) \/ j = at
      BY <1>3, <3>1
    <3> QED
      BY <1>9, <2>1, <3>1, <3>2
  <2>3. \A j \in DOMAIN catalog : j >= at' => verdict'[j] = "unseen" /\ requests'[j] = 0
    BY <1>2, <1>3, <1>5, <1>6, <1>11
  <2>4. \A j \in DOMAIN verdict' : verdict'[j] # "error"
    BY <1>3, <1>5, <1>11
  <2> QED
    BY <1>1, <1>2, <1>7, <1>8, <1>11, <2>2, <2>3, <2>4 DEF OrderInv, SearchPlaces, Located
<1>12. CASE v = "error"
  <2>1. pc' = "failed" /\ at' = at /\ requests'[at] = 1
    BY <1>2, <1>6, <1>12 DEF e
  <2>2. \A j \in DOMAIN verdict' : verdict'[j] = "error" => j = at
    BY <1>3, <1>5
  <2> QED
    BY <1>7, <1>8, <1>9, <2>1, <2>2 DEF OrderInv, SearchPlaces, Located
<1> QED
  BY <1>10, <1>11, <1>12

-----------------------------------------------------------------------------
(* The microversion. *)

LEMMA PathTypes ==
  ASSUME NEW e \in Endpoints, opts.availability \in Availabilities
  PROVE  /\ e.urls[opts.availability] \in {NoURL} \cup Seq(DOMAIN VersionOf)
         /\ Path(e) \in Seq(DOMAIN VersionOf)
         /\ \A document \in Answers(e) : document \in VersionsDocuments \cup {NoDocument}
<1>1. e.urls[opts.availability] \in {NoURL} \cup Seq(DOMAIN VersionOf)
  BY DEF Endpoints
<1>2. Path(e) \in Seq(DOMAIN VersionOf)
  BY <1>1, EmptySequence DEF Path
<1> QED
  BY <1>1, <1>2, EndpointSearchAssumption DEF Answers

LEMMA RequireMicroversionStep ==
  ASSUME TypeInv, OrderInv, RequireMicroversion
  PROVE  MicroversionIsInside'
<1>1. /\ catalog[at] \in Endpoints /\ opts.availability \in Availabilities
  <2>1. at \in DOMAIN catalog /\ opts.availability \in Availabilities
    BY DEF RequireMicroversion, OrderInv, Located
  <2>2. catalog \in Seq(Endpoints)
    BY DEF TypeInv
  <2> QED
    BY <2>1, <2>2
<1>2. PICK required \in Microversions \cup {Malformed}, document \in Answers(catalog[at]) :
       LET answer == GetServiceVersions(Path(catalog[at]), TRUE, document)
           entry == CHOOSE e \in answer.versions : TRUE
       IN  IF ~MicroversionsKnown(answer) \/ required = Malformed
           THEN micro' = [NoMicro EXCEPT !.said = "error", !.wanted = required]
           ELSE micro' = [said |-> IF IsSupported(required, entry.min, entry.max)
                                   THEN "supported" ELSE "not supported",
                          wanted |-> required, min |-> entry.min, max |-> entry.max]
  BY DEF RequireMicroversion
<1> DEFINE answer == GetServiceVersions(Path(catalog[at]), TRUE, document)
           entry == CHOOSE e \in answer.versions : TRUE
<1>3. answer.versions \subseteq VersionEntries
  BY <1>1, PathTypes, VersionTypes
<1>4. CASE ~MicroversionsKnown(answer) \/ required = Malformed
  <2>1. micro' = [NoMicro EXCEPT !.said = "error", !.wanted = required]
    BY <1>2, <1>4
  <2> QED
    BY <2>1 DEF MicroversionIsInside, NoMicro
<1>5. CASE MicroversionsKnown(answer) /\ required # Malformed
  <2>1. entry \in VersionEntries
    <3>1. answer.versions # {}
      BY <1>5 DEF MicroversionsKnown
    <3> HIDE DEF answer
    <3> QED
      BY <1>3, <3>1
  <2>2. micro' = [said |-> IF IsSupported(required, entry.min, entry.max)
                           THEN "supported" ELSE "not supported",
                  wanted |-> required, min |-> entry.min, max |-> entry.max]
    BY <1>2, <1>5
  <2> HIDE DEF entry
  <2>3. entry.min \in Nat \X Nat /\ entry.max \in Nat \X Nat /\ required \in Nat \X Nat
    BY <1>5, <2>1, EndpointSearchAssumption DEF VersionEntries
  <2>4. /\ micro'.said = "supported" => IsSupported(micro'.wanted, micro'.min, micro'.max)
        /\ micro'.said = "not supported" => ~IsSupported(micro'.wanted, micro'.min, micro'.max)
        /\ micro'.wanted = required /\ micro'.min = entry.min /\ micro'.max = entry.max
    BY <2>2
  <2> QED
    BY <2>3, <2>4, SupportedIsInside DEF MicroversionIsInside
<1> QED
  BY <1>4, <1>5

-----------------------------------------------------------------------------
(* The invariant is inductive. *)

LEMMA Stuttering ==
  ASSUME IInv, UNCHANGED vars
  PROVE  IInv'
<1>1. UNCHANGED <<pc, suffix, values, published, highest, catalog, query, opts, at, verdict, requests, micro>>
  BY DEF vars, choice, search
<1>2. TypeInv'
  BY <1>1 DEF IInv, TypeInv
<1>3. ChoiceInv'
  <2>1. Exact' = Exact /\ GoodKnown' = GoodKnown /\ Walked' = Walked
    BY <1>1, PublishedStable DEF Walked
  <2>2. BestSoFar(Walked)' <=> BestSoFar(Walked)
    BY <1>1, <2>1 DEF BestSoFar
  <2> QED
    BY <1>1, <2>1, <2>2 DEF IInv, ChoiceInv
<1>4. IdentityVersionIsBest' /\ MicroversionIsInside'
  <2>1. Exact' = Exact /\ Best' = Best
    BY <1>1, PublishedStable
  <2>2. /\ (FirstOf(IF Exact # {} THEN Exact ELSE Best))' = FirstOf(IF Exact # {} THEN Exact ELSE Best)
        /\ (FirstOf(Best))' = FirstOf(Best)
    BY <1>1, <2>1 DEF FirstOf
  <2>3. IdentityVersionIsBest'
    BY <1>1, <2>1, <2>2 DEF IInv, IdentityVersionIsBest
  <2> QED
    BY <1>1, <2>3 DEF IInv, MicroversionIsInside
<1>5. QueryInv'
  BY <1>1 DEF IInv, QueryInv, ApplyDefaults
<1>6. VerdictsInv' /\ OrderInv'
  BY <1>1, ConclusionsStable DEF IInv, VerdictsInv, OrderInv, Passed
<1> QED
  BY <1>2, <1>3, <1>4, <1>5, <1>6 DEF IInv

LEMMA Inductive == IInv /\ [Next]_vars => IInv'
<1> SUFFICES ASSUME IInv, [Next]_vars PROVE IInv'
  OBVIOUS
<1>1. CASE ChooseBySuffix \/ AskIdentity \/ WalkValue \/ WalkEnds \/ Authenticated
  <2>1. TypeInv' /\ UNCHANGED <<search, micro>> /\ pc' \notin SearchPlaces
    BY <1>1, ChoiceTypes DEF IInv
  <2>2. ChoiceInv' /\ IdentityVersionIsBest'
    BY <1>1, ChoiceStep DEF IInv
  <2>3. QueryInv' /\ MicroversionIsInside'
    BY <2>1 DEF IInv, QueryInv, MicroversionIsInside
  <2>4. VerdictsInv' /\ OrderInv'
    <3>1. pc \notin SearchPlaces \cup {"failed"}
      BY <1>1, ChoiceTypes DEF IInv, ChooseBySuffix, AskIdentity, WalkValue, WalkEnds, Authenticated
    <3>2. DOMAIN verdict = {} /\ verdict' = verdict
      BY <2>1, <3>1 DEF IInv, TypeInv, search
    <3> QED
      BY <2>1, <3>2 DEF VerdictsInv, OrderInv, SearchPlaces, Located
  <2> QED
    BY <2>1, <2>2, <2>3, <2>4 DEF IInv
<1>2. CASE NewServiceClient
  <2>1. MicroversionIsInside'
    BY <1>2 DEF NewServiceClient, IInv, MicroversionIsInside
  <2> QED
    BY <1>2, <2>1, NewServiceClientStep DEF IInv
<1>3. CASE SkipEndpoint \/ UnknownAvailability \/ TryEndpoint \/ SearchExhausted \/ RequireMicroversion
  <2>1. /\ UNCHANGED <<suffix, values, published, highest, catalog, query, opts>>
        /\ pc \in SearchPlaces /\ pc' \in {"failed"} \cup SearchPlaces
    BY <1>3, SearchActions DEF IInv
  <2>2. TypeInv' /\ VerdictsInv' /\ OrderInv'
    BY <1>3, QuietStep, TryEndpointStep DEF IInv
  <2>3. QueryInv'
    BY <2>1 DEF IInv, QueryInv, ApplyDefaults
  <2>4. ChoiceInv' /\ IdentityVersionIsBest'
    BY <2>1 DEF IInv, ChoiceInv, IdentityVersionIsBest, SearchPlaces, Located
  <2>5. MicroversionIsInside'
    <3>1. CASE RequireMicroversion
      BY <3>1, RequireMicroversionStep DEF IInv
    <3>2. CASE ~RequireMicroversion
      <4>1. UNCHANGED micro
        BY <1>3, <3>2 DEF SkipEndpoint, UnknownAvailability, TryEndpoint, SearchExhausted
      <4> QED
        BY <4>1 DEF IInv, MicroversionIsInside
    <3> QED
      BY <3>1, <3>2
  <2> QED
    BY <2>2, <2>3, <2>4, <2>5 DEF IInv
<1>4. CASE Finished \/ UNCHANGED vars
  BY <1>4, Stuttering DEF Finished
<1> QED
  BY <1>1, <1>2, <1>3, <1>4 DEF Next, Progress

(* Every reachable state satisfies the invariant; in particular no catalog is
   read beyond its end. *)
THEOREM Invariance == Spec => []IInv
<1>1. Init => IInv
  BY Initially
<1>2. IInv /\ [Next]_vars => IInv'
  BY Inductive
<1> QED
  BY <1>1, <1>2, PTL DEF Spec

-----------------------------------------------------------------------------
(* What the invariant says of the properties. *)

LEMMA FoundFits == IInv => FoundFitsTheQuery
<1> SUFFICES ASSUME IInv, pc \in Located PROVE FoundFitsTheQuery
  BY DEF FoundFitsTheQuery, Located
<1> DEFINE e == catalog[at]
           asked == query.opts
           type == IF asked.type = "" THEN query.service ELSE asked.type
           version == IF query.version = 0 THEN asked.version ELSE query.version
           availability == IF asked.availability = "" THEN "public" ELSE asked.availability
           url == e.urls[availability]
           o == ApplyDefaults(asked, query.service)
<1>1. /\ at \in DOMAIN catalog /\ verdict[at] = "yes" /\ opts.availability \in Availabilities
      /\ DOMAIN verdict = DOMAIN catalog
      /\ highest.version \in {"v2", "v3"}
  BY Priorities DEF IInv, OrderInv, TypeInv, ChoiceInv, SearchPlaces
<1>2. e \in Endpoints
  BY <1>1 DEF IInv, TypeInv
<1>3. Serves(e) /\ Vouched(e)
  BY <1>1 DEF IInv, VerdictsInv
<1>4. /\ query \in [opts : Options, service : Text, version : Nat] /\ asked \in Options
      /\ opts = [o EXCEPT !.version = IF query.version = 0 THEN @ ELSE query.version]
      /\ query.version # 0 => asked.version \in {0, query.version}
  BY DEF IInv, TypeInv, QueryInv, SearchPlaces
<1>5. /\ o \in Options /\ o.name = asked.name /\ o.region = asked.region /\ o.version = asked.version
      /\ o.availability = availability
      /\ \A t \in {o.type} \cup o.aliases : SameService(t, type) \/ t \in asked.aliases
  BY <1>4, DefaultsApplied
<1> HIDE DEF o, e
<1>6. /\ opts.name = asked.name /\ opts.region = asked.region /\ opts.version = version
      /\ opts.availability = availability /\ opts.type = o.type /\ opts.aliases = o.aliases
  BY <1>4, <1>5 DEF Options
<1>7. /\ SameService(e.type, type) \/ e.type \in asked.aliases
      /\ asked.name # "" => e.name = asked.name
      /\ asked.region # "" => asked.region \in {e.region, e.regionID}
      /\ url = NoURL => highest.version = "v2"
  BY <1>1, <1>3, <1>5, <1>6 DEF Serves, InRegion
<1>8. asked.version # 0 => asked.version = version
  BY <1>4
<1>9. CASE Trusted(e)
  <2>1. version = 0 \/ e.type = "object-store"
    BY <1>6, <1>9 DEF Trusted
  <2> QED
    BY <1>7, <1>8, <2>1 DEF FoundFitsTheQuery, e
<1>10. CASE ~Trusted(e)
  <2>1. PICK document \in Answers(e) : SupportsVersion(e, document) = "yes"
    BY <1>3 DEF Vouched
  <2>2. /\ ~WrongByType(e)
        /\ GetServiceVersions(PathOf(e), FALSE, document).ok
        /\ \E v \in GetServiceVersions(PathOf(e), FALSE, document).versions : v.major = opts.version
    BY <1>10, <2>1 DEF SupportsVersion
  <2>3. /\ url \in {NoURL} \cup Seq(DOMAIN VersionOf)
        /\ Path(e) = IF url = NoURL THEN <<>> ELSE url
        /\ Answers(e) = IF url = NoURL THEN {NoDocument} ELSE {NoDocument} \cup Documents
    BY <1>1, <1>2, <1>6, PathTypes DEF Path, Answers
  <2>4. ImpliedVersion[e.type] \in {0, version}
    BY <1>6, <2>2 DEF WrongByType
  <2>5. url # NoURL
    <3> SUFFICES ASSUME url = NoURL PROVE FALSE
      OBVIOUS
    <3>1. Path(e) = <<>> /\ document = NoDocument
      BY <2>1, <2>3
    <3>2. BaseVersionedEndpoint(<<>>) = <<>>
      <4>1. <<>> \in Seq(DOMAIN VersionOf) /\ DOMAIN <<>> = {}
        BY EmptySequence
      <4> QED
        BY <4>1, MarksOf
    <3>3. ExtractVersion(PathOf(e)) = 0
      BY <3>1, <3>2 DEF PathOf, ExtractVersion
    <3>4. ~GetServiceVersions(PathOf(e), FALSE, NoDocument).ok
      BY <3>3 DEF GetServiceVersions, NeedsDocument, NoDocument
    <3> QED
      BY <2>2, <3>1, <3>4
  <2>6. ASSUME url # <<>>, Names(url, 1) # 0 PROVE Names(url, 1) = version
    <3>1. ExtractVersion(PathOf(e)) = Names(url, 1)
      BY <2>3, <2>5, <2>6, FirstElement DEF PathOf
    <3>2. GetServiceVersions(PathOf(e), FALSE, document).versions = {VersionInURL(PathOf(e))}
      BY <2>6, <3>1 DEF GetServiceVersions, NeedsDocument
    <3>3. VersionInURL(PathOf(e)).major = Names(url, 1)
      BY <3>1 DEF VersionInURL
    <3> QED
      BY <1>6, <2>2, <3>2, <3>3
  <2>7. url # NoURL /\ url # <<>> => Names(url, 1) \in {0, version}
    BY <2>6
  <2> QED
    BY <1>7, <1>8, <2>4, <2>5, <2>7 DEF FoundFitsTheQuery, e
<1> QED
  BY <1>9, <1>10

LEMMA FirstSupports == IInv => FirstThatSupports
<1> SUFFICES ASSUME IInv PROVE FirstThatSupports
  OBVIOUS
<1>1. SearchedInOrder
  <2>1. /\ at \in Nat /\ catalog \in Seq(Endpoints) /\ DOMAIN catalog \subseteq Nat
    BY DEF IInv, TypeInv
  <2> QED
    BY <2>1 DEF IInv, OrderInv, SearchedInOrder, SearchPlaces, Located
<1>2. ASSUME NEW j \in DOMAIN requests
      PROVE  /\ requests[j] <= 1
             /\ requests[j] = 1 => LET e == catalog[j]
                                   IN  /\ Serves(e) /\ opts.version # 0 /\ e.type # "object-store"
                                       /\ ImpliedVersion[e.type] \in {0, opts.version}
                                       /\ \A k \in DOMAIN Path(e) : Names(Path(e), k) # 0 =>
                                            \E i \in 1..(k - 1) : Path(e)[i] \in Marked
  <2>1. /\ j \in DOMAIN verdict /\ j \in DOMAIN catalog /\ catalog[j] \in Endpoints
    BY DEF IInv, TypeInv
  <2>2. /\ requests[j] \in {0, 1}
        /\ requests[j] = 1 => /\ Serves(catalog[j]) /\ MustAsk(catalog[j])
                              /\ opts.availability \in Availabilities
    BY <2>1 DEF IInv, VerdictsInv
  <2>3. ASSUME requests[j] = 1, NEW k \in DOMAIN Path(catalog[j]), Names(Path(catalog[j]), k) # 0
        PROVE  \E i \in 1..(k - 1) : Path(catalog[j])[i] \in Marked
    <3>1. Path(catalog[j]) \in Seq(DOMAIN VersionOf)
      BY <2>1, <2>2, <2>3, PathTypes
    <3>2. ExtractVersion(BaseVersionedEndpoint(Path(catalog[j]))) = 0
      BY <2>2, <2>3 DEF MustAsk, NeedsDocument, PathOf
    <3> QED
      BY <2>3, <3>1, <3>2, UnknownVersion
  <2>4. requests[j] = 1 => /\ opts.version # 0 /\ catalog[j].type # "object-store"
                           /\ ImpliedVersion[catalog[j].type] \in {0, opts.version}
    BY <2>2 DEF MustAsk, Trusted, WrongByType
  <2>5. requests[j] <= 1
    BY <2>2
  <2> QED
    BY <2>2, <2>3, <2>4, <2>5
<1>3. AskedOnlyIfNeeded
  BY <1>2 DEF AskedOnlyIfNeeded
<1> QED
  BY <1>1, <1>3 DEF FirstThatSupports

LEMMA DeprecatedAgrees == IInv => DeprecatedSearchAgrees
<1> SUFFICES ASSUME IInv, opts.version = 0, pc \in SearchPlaces PROVE DeprecatedSearchAgrees
  BY DEF DeprecatedSearchAgrees, SearchPlaces, Located
<1> DEFINE fits == {j \in DOMAIN catalog :
                      LET e == catalog[j]
                      IN  /\ e.type \in {opts.type} \cup opts.aliases
                          /\ opts.name = "" \/ opts.name = e.name
                          /\ opts.region \in {"", e.region} \cup
                               (IF highest.version = "v3" THEN {e.regionID} ELSE {})
                          /\ highest.version = "v2" \/ e.urls[opts.availability] # NoURL}
<1>1. highest.version \in {"v2", "v3"}
  BY Priorities DEF IInv, ChoiceInv
<1>2. fits \subseteq DOMAIN catalog /\ \A j \in DOMAIN catalog : j \in fits <=> Serves(catalog[j])
  BY <1>1 DEF Serves, InRegion
<1>3. /\ catalog \in Seq(Endpoints) /\ DOMAIN catalog = 1..Len(catalog) /\ Len(catalog) \in Nat
      /\ at \in 1..(Len(catalog) + 1) /\ \A j \in 1..(at - 1) : Passed(j)
      /\ DOMAIN verdict = DOMAIN catalog
  BY DEF IInv, TypeInv, OrderInv
<1>4. \A j \in 1..(at - 1) : j \notin fits
  <2> SUFFICES ASSUME NEW j \in 1..(at - 1), j \in fits PROVE FALSE
    OBVIOUS
  <2>1. j \in DOMAIN catalog /\ verdict[j] = "no"
    BY <1>2, <1>3 DEF Passed
  <2>2. ~Trusted(catalog[j])
    BY <1>3, <2>1 DEF IInv, VerdictsInv
  <2> QED
    BY <2>2 DEF Trusted
<1>5. CASE pc \in Located
  <2>1. /\ at \in DOMAIN catalog /\ verdict[at] = "yes" /\ opts.availability \in Availabilities
    BY <1>5 DEF IInv, OrderInv
  <2>2. at \in fits
    BY <1>2, <1>3, <2>1 DEF IInv, VerdictsInv
  <2>3. fits \in SUBSET Nat /\ \A j \in fits : at <= j
    <3> HIDE DEF fits
    <3> QED
      BY <1>2, <1>3, <1>4
  <2>4. (CHOOSE j \in fits : \A i \in fits : j <= i) = at
    <3> HIDE DEF fits
    <3> QED
      BY <2>2, <2>3, TheLeast
  <2>5. EndpointURL = at
    BY <2>1, <2>2, <2>4 DEF EndpointURL
  <2> QED
    BY <1>5, <2>5 DEF DeprecatedSearchAgrees, Located
<1>6. CASE pc = "notfound"
  <2>1. fits = {}
    <3>1. at = Len(catalog) + 1
      BY <1>6 DEF IInv, OrderInv
    <3> HIDE DEF fits
    <3> QED
      BY <1>2, <1>3, <1>4, <3>1
  <2>2. EndpointURL = 0
    BY <2>1 DEF EndpointURL
  <2> QED
    BY <1>6, <2>2 DEF DeprecatedSearchAgrees
<1>7. CASE pc = "searching"
  BY <1>7 DEF DeprecatedSearchAgrees
<1> QED
  BY <1>5, <1>6, <1>7 DEF SearchPlaces

(* ChooseVersion picks the version of the endpoint, or the first that the
   service publishes at that endpoint, or the best with its own. *)
THEOREM TheBestVersionIsChosen == Spec => []IdentityVersionIsBest
<1>1. IInv => IdentityVersionIsBest
  BY DEF IInv
<1> QED
  BY <1>1, Invariance, PTL

(* V2Endpoint and V3Endpoint return what the caller asked for. *)
THEOREM TheEndpointFits == Spec => []FoundFitsTheQuery
  BY FoundFits, Invariance, PTL

(* ... and the first such endpoint that supports the version; no service is
   asked whose URL or type settles it. *)
THEOREM TheFirstIsTaken == Spec => []FirstThatSupports
  BY FirstSupports, Invariance, PTL

(* RequireMicroversion stays within the published interval. *)
THEOREM AcceptedIsPublished == Spec => []MicroversionIsInside
<1>1. IInv => MicroversionIsInside
  BY DEF IInv
<1> QED
  BY <1>1, Invariance, PTL

(* V2EndpointURL and V3EndpointURL find the same endpoint when no version is
   asked for. *)
THEOREM DeprecatedCopiesAgree == Spec => []DeprecatedSearchAgrees
  BY DeprecatedAgrees, Invariance, PTL
=============================================================================
