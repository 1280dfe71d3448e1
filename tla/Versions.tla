------------------------------ MODULE Versions ------------------------------
(***************************************************************************)
(* Version discovery: openstack/utils/base_endpoint.go and discovery.go,   *)
(* as operators on what the code reads.                                    *)
(*                                                                         *)
(* The path of a URL is a sequence of elements.  VersionOf says which of   *)
(* them the expression of ParseVersion accepts, and as which major         *)
(* version (0 for the rest); Marked holds those in which the unanchored    *)
(* expression of parseEndpoint finds something, "dev1" as well as "v1".    *)
(* Neither implies the other: the "v" is optional to ParseVersion alone,   *)
(* so that "3" is an unmarked version.  What follows the match within an   *)
(* element ("v1beta") is cut by the code and kept here.                    *)
(* An entry of a versions document is                                      *)
(*   [readable, major, status, min, max]                                   *)
(* where readable says that its id and its microversions can be parsed,    *)
(* and min and max are microversions <<X, Y>>, both Zero when the service  *)
(* names none.  The minor version of an entry, used for sorting only, is   *)
(* left out.                                                               *)
(***************************************************************************)
EXTENDS Naturals, Sequences, FiniteSets

CONSTANTS
  VersionOf,     \* a function from path elements to major versions, 0 for none
  Marked         \* the path elements that parseEndpoint takes for a version

ASSUME VersionsAssumption == VersionOf \in [DOMAIN VersionOf -> Nat]

(* No microversion: the zero values of SupportedMicroversions. *)
Zero == <<0, 0>>

(* The strings.  Those that the definitions mention are named, since the
   provers do not take a literal for a string. *)
Text == STRING \cup {"", "public"}

VersionEntries ==
  [readable : BOOLEAN, major : Nat, status : Text, min : Nat \X Nat, max : Nat \X Nat]
VersionsDocuments == [shape : {"enveloped", "bare"}, entries : SUBSET VersionEntries]

(* There was no answer, or one that is not a versions document: in both
   cases Request returns an error, since it decodes the answer itself. *)
NoDocument == [shape |-> "none", entries |-> {}]

(* Broken: a project behind the version stays in the URL. *)
BaseVersionedEndpoint_Whole(path) == path

(* BaseVersionedEndpoint: the path up to the first mark. *)
BaseVersionedEndpoint(path) ==
  LET marks == {k \in DOMAIN path : path[k] \in Marked}
  IN  IF marks = {} THEN path
      ELSE SubSeq(path, 1, CHOOSE k \in marks : \A j \in marks : k <= j)

(* extractVersion looks at the last element, and then at the same element
   again instead of the one before it.  A result of 0 is its error. *)
ExtractVersion(path) == IF path = <<>> THEN 0 ELSE VersionOf[path[Len(path)]]

(* What UnmarshalJSON makes of a document.  Of a version object without an
   envelope it keeps the id and nothing else. *)
Decoded(document) ==
  IF document.shape = "bare"
  THEN {[e EXCEPT !.status = "", !.min = Zero, !.max = Zero] : e \in document.entries}
  ELSE document.entries

(* ParseStatus has no case for EXPERIMENTAL. *)
ParsedStatus(status) == status \in {"CURRENT", "STABLE", "SUPPORTED", "DEPRECATED", ""}

(* GetServiceVersions, for the document that the request to the endpoint
   brings, if there is a request. *)
VersionInURL(path) ==
  [readable |-> TRUE, major |-> ExtractVersion(path), status |-> "", min |-> Zero, max |-> Zero]

NeedsDocument(path, discoverVersions) == discoverVersions \/ ExtractVersion(path) = 0

GetServiceVersions(path, discoverVersions, document) ==
  IF ~NeedsDocument(path, discoverVersions) THEN [ok |-> TRUE, versions |-> {VersionInURL(path)}]
  ELSE IF document.shape = "none"
  THEN [ok |-> ExtractVersion(path) # 0,
        versions |-> IF ExtractVersion(path) # 0 THEN {VersionInURL(path)} ELSE {}]
  ELSE [ok |-> \A e \in Decoded(document) : e.readable /\ ParsedStatus(e.status),
        versions |-> Decoded(document)]

(* GetSupportedMicroversions: not for several versions, nor for none, nor for
   a version without microversions. *)
MicroversionsKnown(answer) ==
  /\ answer.ok
  /\ \E e \in answer.versions : answer.versions = {e} /\ (e.min # Zero \/ e.max # Zero)

(* Broken: the minor versions are not compared. *)
IsSupported_MajorsOnly(v, min, max) == min[1] <= v[1] /\ v[1] <= max[1]


(* IsSupported compares the major and the minor versions separately. *)
IsSupported(v, min, max) ==
  /\ min[1] <= v[1] /\ v[1] <= max[1]
  /\ min[2] <= v[2] /\ v[2] <= max[2]
=============================================================================
