---------------------------- MODULE ServiceClient ----------------------------
(***************************************************************************)
(* Calls of Get, Post, ..., Request of service clients, down to the        *)
(* request that doRequest composes: service_client.go, and                 *)
(* provider_client.go 368-432.  The verbs write the body, the target of    *)
(* the response and the headers into the caller's RequestOpts, which the   *)
(* caller may use for several calls, one after the other or at once.       *)
(*                                                                         *)
(* An options object is [json, raw, target, more, omit, keep]: the bodies  *)
(* and the target are named by the call that brought them, more is a map   *)
(* or NoMap (nil), omit a set of header names.  A call given nil makes an  *)
(* object of its own.                                                      *)
(*                                                                         *)
(* Options name headers in any spelling, as keys of a map in Go, and       *)
(* net/http makes one of all spellings of a name.                          *)
(***************************************************************************)
EXTENDS Naturals

CONSTANTS
  Calls,        \* the calls
  Objects,      \* options objects
  InitOptions,  \* what an application may have put in each of them, one function per application
  Clients,      \* service clients: [type, microversion, more]
  Kinds,        \* the calls made: [verb, body, target]
  Canonical,    \* the name that net/http makes of each spelling of a header's name
  Tokens,       \* tokens of the ProviderClient, NoToken among them
  NoToken, None, NoMap

ASSUME ServiceClientAssumption ==
  /\ None \notin Calls
  /\ \A k \in Kinds :
       /\ k.body \in {"none", "json", "raw"} /\ k.target \in BOOLEAN
       /\ k.verb = "Request" => k.body = "none" /\ ~k.target

VARIABLES
  pc,        \* where each call is
  call,      \* its kind, its client and its options object
  options,   \* the options objects
  token,     \* the token of the ProviderClient
  sent,      \* the request of each call: its body, target and headers, and the map some came from
  overlapped \* calls that ran at the same time as another one on their object

vars == <<pc, call, options, token, sent, overlapped>>

NotSent == [body |-> None, target |-> None, headers |-> NoMap, more |-> NoMap]

(* Broken: an entry that is there already is kept. *)
Override_Keep(f, g) == [h \in DOMAIN f \cup DOMAIN g |-> IF h \in DOMAIN f THEN f[h] ELSE g[h]]

(* A map with the entries of g written over those of f. *)
Override(f, g) == [h \in DOMAIN f \cup DOMAIN g |-> IF h \in DOMAIN g THEN g[h] ELSE f[h]]
Without(f, names) == [h \in DOMAIN f \ names |-> f[h]]

Init ==
  /\ pc = [c \in Calls |-> "idle"]
  /\ call = [c \in Calls |-> None]
  /\ options \in InitOptions
  /\ token \in Tokens
  /\ sent = [c \in Calls |-> NotSent]
  /\ overlapped = {}

-----------------------------------------------------------------------------
Active(o) == {c \in Calls : pc[c] \notin {"idle", "done", "refused"} /\ call[c].object = o}

(* The application calls a verb, or Request itself, which has no body and no
   target to put into the options. *)
Start(c, kind, client, o) ==
  /\ pc[c] = "idle"
  /\ pc' = [pc EXCEPT ![c] = IF kind.verb = "Request" THEN "check" ELSE "init"]
  /\ call' = [call EXCEPT ![c] = [kind |-> kind, client |-> client, object |-> o]]
  /\ overlapped' = IF Active(o) = {} THEN overlapped ELSE overlapped \cup Active(o) \cup {c}
  /\ UNCHANGED <<options, token, sent>>

(* Broken: the target is kept that is already there. *)
Initialized_KeepTarget(c, old) ==
  [old EXCEPT !.json   = IF call[c].kind.body = "json" THEN c ELSE @,
              !.raw    = IF call[c].kind.body = "raw" THEN c ELSE @,
              !.target = IF @ = None /\ call[c].kind.target THEN c ELSE @]

(* initReqOpts writes what the call brings and clears nothing. *)
Initialized(c, old) ==
  [old EXCEPT !.json   = IF call[c].kind.body = "json" THEN c ELSE @,
              !.raw    = IF call[c].kind.body = "raw" THEN c ELSE @,
              !.target = IF call[c].kind.target THEN c ELSE @]

InitReqOpts(c) ==
  /\ pc[c] = "init"
  /\ options' = [options EXCEPT ![call[c].object] = Initialized(c, @)]
  /\ pc' = [pc EXCEPT ![c] = "check"]
  /\ UNCHANGED <<call, token, sent, overlapped>>

(* Request tests the map of the headers, makes one, and writes the headers of
   the client into it.  Other calls on the same object may come between. *)
CheckHeaders(c) ==
  /\ pc[c] = "check"
  /\ pc' = [pc EXCEPT ![c] = IF options[call[c].object].more = NoMap THEN "make" ELSE "write"]
  /\ UNCHANGED <<call, options, token, sent, overlapped>>

EmptyMap == [h \in {} |-> None]

MakeHeaders(c) ==
  /\ pc[c] = "make"
  /\ options' = [options EXCEPT ![call[c].object].more = EmptyMap]
  /\ pc' = [pc EXCEPT ![c] = "write"]
  /\ UNCHANGED <<call, token, sent, overlapped>>

(* setMicroversionHeader: most services know a header of their own as well as
   the general one, and some want another name in the general one. *)
ServiceHeader(type) ==
  CASE type = "compute" -> {"X-OpenStack-Nova-API-Version"}
    [] type \in {"shared-file-system", "sharev2", "share"} -> {"X-OpenStack-Manila-API-Version"}
    [] type \in {"block-storage", "block-store", "volume", "volumev3"} -> {"X-OpenStack-Volume-API-Version"}
    [] type = "baremetal" -> {"X-OpenStack-Ironic-API-Version"}
    [] type = "baremetal-introspection" -> {"X-OpenStack-Ironic-Inspector-API-Version"}
    [] OTHER -> {}

ServiceName(type) ==
  CASE type \in {"block-storage", "block-store", "volume", "volumev3"} -> "volume"
    [] type \in {"container-infrastructure-management", "container-infrastructure",
                 "container-infra"} -> "container-infra"
    [] type = "application-container" -> "container"
    [] OTHER -> type

General == "OpenStack-API-Version"

MicroversionHeaders(client) ==
  [h \in IF client.microversion = "" THEN {}
         ELSE ServiceHeader(client.type) \cup (IF client.type = "" THEN {} ELSE {General}) |->
     <<IF h = General THEN ServiceName(client.type) ELSE "", client.microversion>>]

ClientHeaders(client) == Override(MicroversionHeaders(client), client.more)

WriteHeaders(c) ==
  /\ pc[c] = "write"
  /\ options' = [options EXCEPT ![call[c].object].more = Override(@, ClientHeaders(call[c].client))]
  /\ pc' = [pc EXCEPT ![c] = "compose"]
  /\ UNCHANGED <<call, token, sent, overlapped>>

(* doRequest.  The headers of the token come last. *)
Refused(o) == (o.json # None /\ o.raw # None) \/ (o.keep /\ o.target # None)

Defaults(o) == [h \in {"Accept"} \cup (IF o.json # None THEN {"Content-Type"} ELSE {}) |-> "application/json"]
TokenHeaders == [h \in IF token = NoToken THEN {} ELSE {"X-Auth-Token"} |-> token]

(* The headers that Header.Set makes of the entries of a map, taken in any
   order: the last spelling of a name wins. *)
Names(spellings) == {Canonical[h] : h \in spellings}
Last(f) == {spellings \in SUBSET DOMAIN f : Names(spellings) = Names(DOMAIN f)}
Written(f) == {[n \in Names(DOMAIN f) |-> f[CHOOSE h \in last : Canonical[h] = n]] : last \in Last(f)}

(* Broken: the order of the last two steps is swapped, or the token comes
   before the caller's headers. *)
RequestHeaders_OmitFirst(o) ==
  {Override(Override(Without(Defaults(o), Names(o.omit)), m), TokenHeaders) : m \in Written(o.more)}
RequestHeaders_TokenFirst(o) ==
  {Override(Override(Defaults(o), TokenHeaders), m) : m \in Written(o.more)}

RequestHeaders(o) ==
  {Override(Without(Override(Defaults(o), m), Names(o.omit)), TokenHeaders) : m \in Written(o.more)}

Compose(c) ==
  /\ pc[c] = "compose"
  /\ LET o == options[call[c].object]
     IN  IF Refused(o)
         THEN pc' = [pc EXCEPT ![c] = "refused"] /\ UNCHANGED sent
         ELSE /\ pc' = [pc EXCEPT ![c] = "done"]
              /\ \E hs \in RequestHeaders(o) :
                   sent' = [sent EXCEPT ![c] = [body    |-> IF o.raw # None THEN o.raw ELSE o.json,
                                                target  |-> o.target,
                                                headers |-> hs,
                                                more    |-> o.more]]
  /\ UNCHANGED <<call, options, token, overlapped>>

Finished == (\A c \in Calls : pc[c] \in {"done", "refused"}) /\ UNCHANGED vars

Next ==
  \/ \E c \in Calls :
       \/ \E kind \in Kinds, client \in Clients, o \in Objects : Start(c, kind, client, o)
       \/ InitReqOpts(c) \/ CheckHeaders(c) \/ MakeHeaders(c) \/ WriteHeaders(c) \/ Compose(c)
  \/ Finished

Spec == Init /\ [][Next]_vars
-----------------------------------------------------------------------------
Alone(c) == pc[c] = "done" /\ c \notin overlapped
OptionsOf(c) == options[call[c].object]

(* "Values set in this field will be set on all the HTTP requests the service
   client sends", and so is the microversion unless the field says otherwise:
   for a call that shares its options with no other at that time, whatever
   earlier calls have left in them.  OmitHeaders still outranks it, and so may
   another spelling of the header in the caller's map. *)
ClientHeadersAreSent ==
  \A c \in Calls : Alone(c) =>
    LET client == call[c].client
        must == DOMAIN client.more \cup DOMAIN MicroversionHeaders(client)
    IN  \A h \in {g \in must : Canonical[g] \notin Names(OptionsOf(c).omit) \cup {"X-Auth-Token"}} :
          /\ Canonical[h] \in DOMAIN sent[c].headers
          /\ \/ sent[c].headers[Canonical[h]] = IF h \in DOMAIN client.more THEN client.more[h]
                                               ELSE MicroversionHeaders(client)[h]
             \/ \E g \in DOMAIN sent[c].more \ {h} :
                  Canonical[g] = Canonical[h] /\ sent[c].headers[Canonical[h]] = sent[c].more[g]

(* A header that OmitHeaders names is not sent, whoever set it and however it
   is spelled; and no header of the caller or of the service client stands in
   for the token.  Where OmitHeaders names X-Auth-Token itself, nothing is
   claimed: the code sends the token all the same, while
   provider_client.go:337-340 and 402-404 say that any header can be omitted,
   and tokens/requests.go:139-141 asks for this one to be. *)
OmittedIsNotSent ==
  \A c \in Calls : pc[c] = "done" =>
    LET omitted == Names(OptionsOf(c).omit)
        headers == sent[c].headers
    IN  /\ omitted \cap DOMAIN headers \subseteq {"X-Auth-Token"}
        /\ token # NoToken /\ "X-Auth-Token" \notin omitted =>
             "X-Auth-Token" \in DOMAIN headers /\ headers["X-Auth-Token"] = token

(* A call with a body sends that body or is refused: what an earlier call has
   left in the options never takes its place, and a target does not either.
   (A call without a body sends what was left.) *)
OwnBodyOrRefused ==
  \A c \in Calls : Alone(c) =>
    /\ call[c].kind.body # "none" => sent[c].body = c
    /\ call[c].kind.target => sent[c].target = c
=============================================================================
