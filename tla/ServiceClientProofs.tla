------------------------ MODULE ServiceClientProofs -------------------------
(***************************************************************************)
(* Theorems about ServiceClient for any calls, service clients and options *)
(* objects, whatever the application has put in them.                      *)
(***************************************************************************)
EXTENDS ServiceClient, TLAPS

Running == {"init", "check", "make", "write", "compose"}
Places == Running \cup {"idle", "done", "refused"}
CallT == [kind : Kinds, client : Clients, object : Objects]
Object(A) == [json : A, raw : A, target : A, more : A, omit : A, keep : A]

(* What the application has put in its options objects. *)
OptionsAreObjects == \A f \in InitOptions : \E A : f \in [Objects -> Object(A)]

Types ==
  /\ pc \in [Calls -> Places]
  /\ call = [c \in Calls |-> call[c]] /\ \A c \in Calls : pc[c] # "idle" => call[c] \in CallT
  /\ sent = [c \in Calls |-> sent[c]]
  /\ \E A : options \in [Objects -> Object(A)]

(* Calls that run on one object at once have overlapped. *)
Apart ==
  \A c, d \in Calls :
    c # d /\ pc[c] \in Running /\ pc[d] \in Running /\ call[c].object = call[d].object => c \in overlapped

(* The options hold the body, the target and the headers of call c. *)
Carries(c, k, o) ==
  /\ k.kind.body = "json" => o.json = c
  /\ k.kind.body = "raw" => o.raw = c
  /\ k.kind.target => o.target = c
Includes(f, g) == \A h \in DOMAIN g : h \in DOMAIN f /\ f[h] = g[h]

Spares(tk, omit, hs) ==
  /\ Names(omit) \cap DOMAIN hs \subseteq {"X-Auth-Token"}
  /\ tk # NoToken => "X-Auth-Token" \in DOMAIN hs /\ hs["X-Auth-Token"] = tk
HeadersSent(k, omit, hs, more) ==
  \A h \in DOMAIN ClientHeaders(k.client) :
    Canonical[h] \notin Names(omit) /\ Canonical[h] # "X-Auth-Token" =>
      /\ Canonical[h] \in DOMAIN hs
      /\ \/ hs[Canonical[h]] = ClientHeaders(k.client)[h]
         \/ \E g \in DOMAIN more \ {h} : Canonical[g] = Canonical[h] /\ hs[Canonical[h]] = more[g]
BodySent(c, k, s) ==
  /\ k.kind.body # "none" => s.body = c
  /\ k.kind.target => s.target = c

(* What is right about call c at place p, with the calls ov overlapped.     *)
CallOK(c, p, ov, k, o, s, tk) ==
  /\ c \notin ov /\ p \in {"check", "make", "write", "compose"} => Carries(c, k, o)
  /\ c \notin ov /\ p = "compose" => Includes(o.more, ClientHeaders(k.client))
  /\ p = "done" => Spares(tk, o.omit, s.headers)
  /\ c \notin ov /\ p = "done" => HeadersSent(k, o.omit, s.headers, s.more) /\ BodySent(c, k, s)
CallsOK ==
  \A c \in Calls : CallOK(c, pc[c], overlapped, call[c], options[call[c].object], sent[c], token)

IInv == Types /\ Apart /\ CallsOK

-----------------------------------------------------------------------------
(* What another call does to the options leaves this one right. *)
LEMMA Unaffected ==
  ASSUME NEW c, NEW p, NEW ov, NEW ov2, NEW k, NEW o, NEW o2, NEW s, NEW tk,
         CallOK(c, p, ov, k, o, s, tk), ov \subseteq ov2, o2.omit = o.omit,
         o2 = o \/ c \in ov \/ p \notin Running
  PROVE  CallOK(c, p, ov2, k, o2, s, tk)
BY DEF CallOK, Running

LEMMA Overridden ==
  ASSUME NEW f, NEW g
  PROVE  /\ DOMAIN Override(f, g) = DOMAIN f \cup DOMAIN g
         /\ Includes(Override(f, g), g)
         /\ \A h \in DOMAIN f : h \notin DOMAIN g => Override(f, g)[h] = f[h]
BY DEF Override, Includes

(* Every name of a header has the value of one of its spellings. *)
LEMMA OneSpelling ==
  ASSUME NEW f, NEW m \in Written(f)
  PROVE  /\ DOMAIN m = Names(DOMAIN f)
         /\ \A n \in DOMAIN m : \E g \in DOMAIN f : Canonical[g] = n /\ m[n] = f[g]
<1>1. PICK last \in Last(f) : m = [n \in Names(DOMAIN f) |-> f[CHOOSE h \in last : Canonical[h] = n]]
  BY DEF Written
<1>2. last \subseteq DOMAIN f /\ Names(last) = Names(DOMAIN f)
  BY DEF Last
<1>3. DOMAIN m = Names(DOMAIN f)
  BY <1>1
<1>4. ASSUME NEW n \in DOMAIN m
      PROVE  \E g \in DOMAIN f : Canonical[g] = n /\ m[n] = f[g]
  <2>1. n \in Names(last)
    BY <1>2, <1>3
  <2>2. PICK g : g = CHOOSE h \in last : Canonical[h] = n
    OBVIOUS
  <2>3. g \in last /\ Canonical[g] = n
    BY <2>1, <2>2 DEF Names
  <2>4. m[n] = f[g]
    BY <1>1, <1>3, <2>2
  <2> QED
    BY <1>2, <2>3, <2>4
<1> QED
  BY <1>3, <1>4

(* The headers that doRequest makes of the options. *)
LEMMA Composed ==
  ASSUME NEW o, NEW k, NEW r \in RequestHeaders(o)
  PROVE  /\ Spares(token, o.omit, r)
         /\ Includes(o.more, ClientHeaders(k.client)) => HeadersSent(k, o.omit, r, o.more)
<1>1. PICK m \in Written(o.more) :
        r = Override(Without(Override(Defaults(o), m), Names(o.omit)), TokenHeaders)
  BY DEF RequestHeaders
<1>11. /\ DOMAIN m = Names(DOMAIN o.more)
       /\ \A n \in DOMAIN m : \E q \in DOMAIN o.more : Canonical[q] = n /\ m[n] = o.more[q]
  BY OneSpelling
<1>2. PICK f, t : f = Override(Defaults(o), m) /\ t = TokenHeaders
  OBVIOUS
<1>3. PICK g : g = Without(f, Names(o.omit))
  OBVIOUS
<1>4. r = Override(g, t)
  BY <1>1, <1>2, <1>3
<1>5. /\ DOMAIN r = DOMAIN g \cup DOMAIN t /\ Includes(r, t)
      /\ \A h \in DOMAIN g : h \notin DOMAIN t => r[h] = g[h]
  BY <1>4, Overridden
<1>6. DOMAIN g = DOMAIN f \ Names(o.omit) /\ \A h \in DOMAIN f \ Names(o.omit) : g[h] = f[h]
  BY <1>3 DEF Without
<1>7. Includes(f, m)
  BY <1>2, Overridden
<1>8. /\ DOMAIN t = IF token = NoToken THEN {} ELSE {"X-Auth-Token"}
      /\ token # NoToken => t["X-Auth-Token"] = token
  BY <1>2 DEF TokenHeaders
<1>9. Spares(token, o.omit, r)
  BY <1>5, <1>6, <1>8 DEF Spares, Includes
<1>10. ASSUME Includes(o.more, ClientHeaders(k.client))
       PROVE  HeadersSent(k, o.omit, r, o.more)
  <2> SUFFICES ASSUME NEW h \in DOMAIN ClientHeaders(k.client),
                      Canonical[h] \notin Names(o.omit), Canonical[h] # "X-Auth-Token"
               PROVE  /\ Canonical[h] \in DOMAIN r
                      /\ \/ r[Canonical[h]] = ClientHeaders(k.client)[h]
                         \/ \E q \in DOMAIN o.more \ {h} :
                              Canonical[q] = Canonical[h] /\ r[Canonical[h]] = o.more[q]
    BY DEF HeadersSent
  <2>1. h \in DOMAIN o.more /\ o.more[h] = ClientHeaders(k.client)[h]
    BY <1>10 DEF Includes
  <2>2. PICK n : n = Canonical[h]
    OBVIOUS
  <2>3. n \in DOMAIN m
    BY <1>11, <2>1, <2>2 DEF Names
  <2>4. PICK q \in DOMAIN o.more : Canonical[q] = n /\ m[n] = o.more[q]
    BY <1>11, <2>3
  <2>5. n \in DOMAIN f /\ f[n] = m[n]
    BY <1>7, <2>3 DEF Includes
  <2>6. n \in DOMAIN r /\ r[n] = m[n]
    BY <1>5, <1>6, <1>8, <2>2, <2>5
  <2> QED
    BY <2>1, <2>2, <2>4, <2>6
<1> QED
  BY <1>9, <1>10

-----------------------------------------------------------------------------
(* The calls that do not move stay right, and so does the one that does.    *)
LEMMA MoveKeeps ==
  ASSUME IInv, NEW c \in Calls, token' = token, overlapped \subseteq overlapped',
         \A d \in Calls : d # c => pc'[d] = pc[d] /\ call'[d] = call[d] /\ sent'[d] = sent[d],
         \A d \in Calls : d # c /\ pc[d] # "idle" =>
           /\ options'[call[d].object].omit = options[call[d].object].omit
           /\ \/ options'[call[d].object] = options[call[d].object]
              \/ pc[c] \in Running /\ call[d].object = call[c].object,
         CallOK(c, pc'[c], overlapped', call'[c], options'[call'[c].object], sent'[c], token)
  PROVE  CallsOK'
<1>1. ASSUME NEW d \in Calls, d # c
      PROVE  CallOK(d, pc'[d], overlapped', call'[d], options'[call'[d].object], sent'[d], token')
  <2>1. CallOK(d, pc[d], overlapped, call[d], options[call[d].object], sent[d], token)
    BY DEF IInv, CallsOK
  <2>2. CASE pc[d] = "idle"
    BY <1>1, <2>2 DEF CallOK
  <2>3. CASE pc[d] # "idle"
    <3>1. PICK o, o2 : o = options[call[d].object] /\ o2 = options'[call[d].object]
      OBVIOUS
    <3>2. o2.omit = o.omit /\ (o2 = o \/ d \in overlapped \/ pc[d] \notin Running)
      BY <1>1, <2>3, <3>1 DEF IInv, Apart
    <3>3. CallOK(d, pc[d], overlapped', call[d], o2, sent[d], token)
      BY <2>1, <3>1, <3>2, Unaffected
    <3> QED
      BY <1>1, <3>1, <3>3
  <2> QED
    BY <2>2, <2>3
<1> QED
  BY <1>1 DEF CallsOK

LEMMA StartKeeps ==
  ASSUME IInv, NEW c \in Calls, NEW kind \in Kinds, NEW client \in Clients, NEW o \in Objects,
         Start(c, kind, client, o)
  PROVE  IInv'
<1>1. PICK at \in {"init", "check"} :
        at = (IF kind.verb = "Request" THEN "check" ELSE "init") /\ pc' = [pc EXCEPT ![c] = at]
  BY Zenon DEF Start
<1>2. PICK k : k = [kind |-> kind, client |-> client, object |-> o]
  OBVIOUS
<1>3. k \in CallT /\ k.kind = kind /\ k.object = o
  BY <1>2 DEF CallT
<1>4. /\ pc[c] = "idle" /\ call' = [call EXCEPT ![c] = k]
      /\ UNCHANGED <<options, token, sent>>
      /\ overlapped' = IF Active(o) = {} THEN overlapped ELSE overlapped \cup Active(o) \cup {c}
  BY <1>2 DEF Start
<1>5. overlapped \subseteq overlapped'
  BY <1>4
<1>6. /\ pc'[c] = at /\ call'[c] = k
      /\ \A d \in Calls : d # c => pc'[d] = pc[d] /\ call'[d] = call[d]
  BY <1>1, <1>4 DEF IInv, Types
<1>7. Types'
  <2>1. pc' \in [Calls -> Places]
    BY <1>1 DEF IInv, Types, Places, Running
  <2>2. call' = [d \in Calls |-> call'[d]] /\ \A d \in Calls : pc'[d] # "idle" => call'[d] \in CallT
    BY <1>3, <1>4, <1>6 DEF IInv, Types
  <2> QED
    BY <1>4, <2>1, <2>2 DEF IInv, Types
<1>8. Apart'
  <2> SUFFICES ASSUME NEW d \in Calls, NEW e \in Calls, d # e, pc'[d] \in Running, pc'[e] \in Running,
                      call'[d].object = call'[e].object
               PROVE  d \in overlapped'
    BY DEF Apart
  <2>1. \A q \in Calls : q # c /\ pc[q] \in Running /\ call[q].object = o => q \in Active(o)
    BY DEF Active, Running
  <2>2. CASE d = c
    BY <1>3, <1>4, <1>6, <2>1, <2>2
  <2>3. CASE d # c /\ e = c
    BY <1>3, <1>4, <1>6, <2>1, <2>3
  <2>4. CASE d # c /\ e # c
    BY <1>5, <1>6, <2>4 DEF IInv, Apart
  <2> QED
    BY <2>2, <2>3, <2>4
<1>9. CallOK(c, at, overlapped', k, options'[k.object], sent'[c], token)
  <2>1. at = "check" => kind.body = "none" /\ ~kind.target
    BY <1>1, ServiceClientAssumption
  <2> QED
    BY <1>1, <1>3, <2>1 DEF CallOK, Carries
<1>10. CallsOK'
  BY <1>4, <1>5, <1>6, <1>9, MoveKeeps
<1> QED
  BY <1>7, <1>8, <1>10 DEF IInv

(* The call c writes n over its options object. *)
LEMMA WriteKeeps ==
  ASSUME IInv, NEW c \in Calls, pc[c] \in Running, NEW at \in Running, NEW A, NEW n \in Object(A),
         options \in [Objects -> Object(A)], options' = [options EXCEPT ![call[c].object] = n],
         pc' = [pc EXCEPT ![c] = at], UNCHANGED <<call, token, sent, overlapped>>,
         n.omit = options[call[c].object].omit,
         CallOK(c, at, overlapped, call[c], n, sent[c], token)
  PROVE  IInv'
<1>1. call[c] \in CallT /\ call[c].object \in Objects
  BY DEF IInv, Types, CallT, Running
<1>2. /\ options' \in [Objects -> Object(A)] /\ options'[call[c].object] = n
      /\ \A o \in Objects : o # call[c].object => options'[o] = options[o]
  BY <1>1
<1>3. /\ pc' \in [Calls -> Places] /\ pc'[c] = at /\ \A d \in Calls : d # c => pc'[d] = pc[d]
  BY DEF IInv, Types, Places
<1>4. Types'
  BY <1>2, <1>3 DEF IInv, Types, Running
<1>5. Apart'
  BY <1>3 DEF IInv, Apart
<1>6. ASSUME NEW d \in Calls, pc[d] # "idle"
      PROVE  /\ options'[call[d].object].omit = options[call[d].object].omit
             /\ \/ options'[call[d].object] = options[call[d].object]
                \/ pc[c] \in Running /\ call[d].object = call[c].object
  <2>1. call[d].object \in Objects
    BY <1>6 DEF IInv, Types, CallT
  <2> QED
    BY <1>2, <2>1
<1>7. CallOK(c, pc'[c], overlapped', call'[c], options'[call'[c].object], sent'[c], token)
  BY <1>2, <1>3
<1>8. CallsOK'
  BY <1>3, <1>6, <1>7, MoveKeeps
<1> QED
  BY <1>4, <1>5, <1>8 DEF IInv

LEMMA InitReqOptsKeeps ==
  ASSUME IInv, NEW c \in Calls, InitReqOpts(c)
  PROVE  IInv'
<1>1. PICK A0 : options \in [Objects -> Object(A0)]
  BY DEF IInv, Types
<1>2. PICK A : A = A0 \cup {c}
  OBVIOUS
<1>3. PICK o : o = options[call[c].object]
  OBVIOUS
<1>4. pc[c] = "init" /\ call[c] \in CallT
  BY DEF InitReqOpts, IInv, Types
<1>5. o \in Object(A0) /\ o \in Object(A) /\ options \in [Objects -> Object(A)]
  BY <1>1, <1>2, <1>3, <1>4 DEF CallT, Object
<1>6. PICK n : n = Initialized(c, o)
  OBVIOUS
<1>7. n \in Object(A) /\ n.omit = o.omit /\ Carries(c, call[c], n)
  BY <1>2, <1>5, <1>6 DEF Initialized, Object, Carries
<1>8. CallOK(c, "check", overlapped, call[c], n, sent[c], token)
  BY <1>7 DEF CallOK
<1>9. /\ options' = [options EXCEPT ![call[c].object] = n] /\ pc' = [pc EXCEPT ![c] = "check"]
      /\ UNCHANGED <<call, token, sent, overlapped>>
  BY <1>3, <1>6 DEF InitReqOpts
<1> QED
  BY <1>3, <1>4, <1>5, <1>7, <1>8, <1>9, WriteKeeps DEF Running

LEMMA CheckHeadersKeeps ==
  ASSUME IInv, NEW c \in Calls, CheckHeaders(c)
  PROVE  IInv'
<1>1. PICK A : options \in [Objects -> Object(A)]
  BY DEF IInv, Types
<1>2. PICK o : o = options[call[c].object]
  OBVIOUS
<1>3. pc[c] = "check" /\ call[c] \in CallT
  BY DEF CheckHeaders, IInv, Types
<1>4. o \in Object(A) /\ options = [options EXCEPT ![call[c].object] = o]
  BY <1>1, <1>2, <1>3 DEF CallT
<1>5. PICK at \in {"make", "write"} : pc' = [pc EXCEPT ![c] = at]
  BY Zenon DEF CheckHeaders
<1>6. CallOK(c, pc[c], overlapped, call[c], o, sent[c], token)
  BY <1>2 DEF IInv, CallsOK
<1>7. CallOK(c, at, overlapped, call[c], o, sent[c], token)
  BY <1>3, <1>6 DEF CallOK
<1>8. options' = options /\ UNCHANGED <<call, token, sent, overlapped>>
  BY DEF CheckHeaders
<1> QED
  BY <1>1, <1>2, <1>3, <1>4, <1>5, <1>7, <1>8, WriteKeeps DEF Running

LEMMA MakeHeadersKeeps ==
  ASSUME IInv, NEW c \in Calls, MakeHeaders(c)
  PROVE  IInv'
<1>1. PICK A0 : options \in [Objects -> Object(A0)]
  BY DEF IInv, Types
<1>2. PICK A : A = A0 \cup {EmptyMap}
  OBVIOUS
<1>3. PICK o : o = options[call[c].object]
  OBVIOUS
<1>4. pc[c] = "make" /\ call[c] \in CallT
  BY DEF MakeHeaders, IInv, Types
<1>5. o \in Object(A0) /\ o \in Object(A) /\ options \in [Objects -> Object(A)]
  BY <1>1, <1>2, <1>3, <1>4 DEF CallT, Object
<1>6. PICK n : n = [o EXCEPT !.more = EmptyMap]
  OBVIOUS
<1>7. n \in Object(A) /\ n.omit = o.omit /\ n.json = o.json /\ n.raw = o.raw /\ n.target = o.target
  BY <1>2, <1>5, <1>6 DEF Object
<1>8. CallOK(c, pc[c], overlapped, call[c], o, sent[c], token)
  BY <1>3 DEF IInv, CallsOK
<1>9. CallOK(c, "write", overlapped, call[c], n, sent[c], token)
  BY <1>4, <1>7, <1>8 DEF CallOK, Carries
<1>10. /\ options' = [options EXCEPT ![call[c].object] = n] /\ pc' = [pc EXCEPT ![c] = "write"]
       /\ UNCHANGED <<call, token, sent, overlapped>>
  BY <1>3, <1>6 DEF MakeHeaders
<1> QED
  BY <1>3, <1>4, <1>5, <1>7, <1>9, <1>10, WriteKeeps DEF Running

LEMMA WriteHeadersKeeps ==
  ASSUME IInv, NEW c \in Calls, WriteHeaders(c)
  PROVE  IInv'
<1>1. PICK A0 : options \in [Objects -> Object(A0)]
  BY DEF IInv, Types
<1>2. PICK o : o = options[call[c].object]
  OBVIOUS
<1>3. PICK m : m = Override(o.more, ClientHeaders(call[c].client))
  OBVIOUS
<1>4. PICK A : A = A0 \cup {m}
  OBVIOUS
<1>5. pc[c] = "write" /\ call[c] \in CallT
  BY DEF WriteHeaders, IInv, Types
<1>6. o \in Object(A0) /\ o \in Object(A) /\ options \in [Objects -> Object(A)]
  BY <1>1, <1>2, <1>4, <1>5 DEF CallT, Object
<1>7. PICK n : n = [o EXCEPT !.more = m]
  OBVIOUS
<1>8. /\ n \in Object(A) /\ n.omit = o.omit /\ n.json = o.json /\ n.raw = o.raw
      /\ n.target = o.target /\ n.more = m
  BY <1>4, <1>6, <1>7 DEF Object
<1>9. Includes(m, ClientHeaders(call[c].client))
  BY <1>3, Overridden
<1>10. CallOK(c, pc[c], overlapped, call[c], o, sent[c], token)
  BY <1>2 DEF IInv, CallsOK
<1>11. CallOK(c, "compose", overlapped, call[c], n, sent[c], token)
  BY <1>5, <1>8, <1>9, <1>10 DEF CallOK, Carries
<1>12. /\ options' = [options EXCEPT ![call[c].object] = n] /\ pc' = [pc EXCEPT ![c] = "compose"]
       /\ UNCHANGED <<call, token, sent, overlapped>>
  BY <1>2, <1>3, <1>7 DEF WriteHeaders
<1> QED
  BY <1>2, <1>5, <1>6, <1>8, <1>11, <1>12, WriteKeeps DEF Running

LEMMA ComposeKeeps ==
  ASSUME IInv, NEW c \in Calls, Compose(c)
  PROVE  IInv'
<1>1. PICK o, k : o = options[call[c].object] /\ k = call[c]
  OBVIOUS
<1>2. pc[c] = "compose" /\ UNCHANGED <<call, options, token, overlapped>>
  BY DEF Compose
<1>3. k \in CallT /\ k.kind.body \in {"none", "json", "raw"}
  BY <1>1, <1>2, ServiceClientAssumption DEF IInv, Types, CallT
<1>4. CallOK(c, pc[c], overlapped, k, o, sent[c], token)
  BY <1>1 DEF IInv, CallsOK
<1>5. PICK at \in {"done", "refused"} : pc' = [pc EXCEPT ![c] = at]
  BY Zenon DEF Compose
<1>6. /\ pc' \in [Calls -> Places] /\ pc'[c] = at /\ \A d \in Calls : d # c => pc'[d] = pc[d]
      /\ at \notin Running
  BY <1>5 DEF IInv, Types, Places, Running
<1>7. /\ sent' = [d \in Calls |-> sent'[d]] /\ \A d \in Calls : d # c => sent'[d] = sent[d]
      /\ CallOK(c, at, overlapped, k, o, sent'[c], token)
  <2>1. CASE Refused(o)
    <3>1. sent' = sent /\ pc' = [pc EXCEPT ![c] = "refused"]
      BY <1>1, <2>1 DEF Compose
    <3>2. at = "refused"
      BY <1>6, <3>1 DEF IInv, Types
    <3> QED
      BY <3>1, <3>2 DEF IInv, Types, CallOK
  <2>2. CASE ~Refused(o)
    <3>0. PICK hs \in RequestHeaders(o) :
            sent' = [sent EXCEPT ![c] = [body |-> IF o.raw # None THEN o.raw ELSE o.json, target |-> o.target,
                                         headers |-> hs, more |-> o.more]]
      BY <1>1, <2>2 DEF Compose
    <3>1. PICK s : s = [body |-> IF o.raw # None THEN o.raw ELSE o.json, target |-> o.target,
                        headers |-> hs, more |-> o.more]
      OBVIOUS
    <3>2. sent' = [sent EXCEPT ![c] = s]
      BY <3>0, <3>1
    <3>3. sent' = [d \in Calls |-> sent'[d]] /\ sent'[c] = s /\ \A d \in Calls : d # c => sent'[d] = sent[d]
      BY <3>2 DEF IInv, Types
    <3>4. /\ s.body = IF o.raw # None THEN o.raw ELSE o.json
          /\ s.target = o.target /\ s.headers = hs /\ s.more = o.more
      BY <3>1
    <3>5. Spares(token, o.omit, s.headers)
      BY <3>4, Composed
    <3>6. ASSUME c \notin overlapped
          PROVE  HeadersSent(k, o.omit, s.headers, s.more) /\ BodySent(c, k, s)
      <4>1. Carries(c, k, o) /\ Includes(o.more, ClientHeaders(k.client))
        BY <1>2, <1>4, <3>6 DEF CallOK
      <4>2. HeadersSent(k, o.omit, s.headers, s.more)
        BY <3>4, <4>1, Composed
      <4>3. BodySent(c, k, s)
        <5>1. c # None
          BY ServiceClientAssumption
        <5>2. k.kind.body = "json" => s.body = c
          BY <2>2, <3>4, <4>1, <5>1 DEF Carries, Refused
        <5>3. k.kind.body = "raw" => s.body = c
          BY <3>4, <4>1, <5>1 DEF Carries
        <5> QED
          BY <1>3, <3>4, <4>1, <5>2, <5>3 DEF BodySent, Carries
      <4> QED
        BY <4>2, <4>3
    <3> QED
      BY <1>6, <3>3, <3>5, <3>6 DEF CallOK, Running
  <2> QED
    BY <2>1, <2>2
<1>8. Types'
  BY <1>2, <1>6, <1>7 DEF IInv, Types
<1>9. Apart'
  BY <1>2, <1>6 DEF IInv, Apart
<1>10. CallsOK'
  BY <1>1, <1>2, <1>6, <1>7, MoveKeeps
<1> QED
  BY <1>8, <1>9, <1>10 DEF IInv

-----------------------------------------------------------------------------
(* The theorems *)

(* The invariant always holds: calls in flight find their own body, target  *)
(* and headers in the options unless another call has shared them.          *)
THEOREM AlwaysIInv == ASSUME OptionsAreObjects PROVE Spec => []IInv
<1>1. Init => IInv
  <2> SUFFICES ASSUME Init PROVE IInv
    OBVIOUS
  <2>1. \A c \in Calls : pc[c] = "idle"
    BY DEF Init
  <2>2. Types
    BY <2>1 DEF Init, Types, Places, OptionsAreObjects
  <2>3. Apart /\ CallsOK
    BY <2>1 DEF Apart, CallsOK, CallOK, Running
  <2> QED
    BY <2>2, <2>3 DEF IInv
<1>2. IInv /\ [Next]_vars => IInv'
  <2> SUFFICES ASSUME IInv, [Next]_vars PROVE IInv'
    OBVIOUS
  <2>1. CASE UNCHANGED vars
    BY <2>1 DEF vars, IInv, Types, Apart, CallsOK
  <2>2. ASSUME NEW c \in Calls, NEW kind \in Kinds, NEW client \in Clients, NEW o \in Objects,
               Start(c, kind, client, o)
        PROVE  IInv'
    BY <2>2, StartKeeps
  <2>3. ASSUME NEW c \in Calls, InitReqOpts(c) \/ CheckHeaders(c) \/ MakeHeaders(c)
        PROVE  IInv'
    BY <2>3, InitReqOptsKeeps, CheckHeadersKeeps, MakeHeadersKeeps
  <2>4. ASSUME NEW c \in Calls, WriteHeaders(c) \/ Compose(c)
        PROVE  IInv'
    BY <2>4, WriteHeadersKeeps, ComposeKeeps
  <2> QED
    BY <2>1, <2>2, <2>3, <2>4 DEF Next, Finished
<1> QED
  BY <1>1, <1>2, PTL DEF Spec

(* MoreHeaders and Microversion of a service client are on every request it *)
(* sends, for calls that overlap with no other on their options.            *)
THEOREM HeadersOfTheClient == ASSUME OptionsAreObjects PROVE Spec => []ClientHeadersAreSent
<1>1. ASSUME IInv
      PROVE  ClientHeadersAreSent
  <2> SUFFICES ASSUME NEW c \in Calls, Alone(c),
                      NEW h \in DOMAIN call[c].client.more \cup DOMAIN MicroversionHeaders(call[c].client),
                      Canonical[h] \notin Names(OptionsOf(c).omit) \cup {"X-Auth-Token"}
               PROVE  /\ Canonical[h] \in DOMAIN sent[c].headers
                      /\ \/ sent[c].headers[Canonical[h]] =
                              IF h \in DOMAIN call[c].client.more THEN call[c].client.more[h]
                              ELSE MicroversionHeaders(call[c].client)[h]
                         \/ \E g \in DOMAIN sent[c].more \ {h} :
                              Canonical[g] = Canonical[h] /\ sent[c].headers[Canonical[h]] = sent[c].more[g]
    BY DEF ClientHeadersAreSent
  <2>1. PICK k : k = call[c]
    OBVIOUS
  <2>2. CallOK(c, pc[c], overlapped, k, options[k.object], sent[c], token)
    BY <1>1, <2>1 DEF IInv, CallsOK
  <2>3. HeadersSent(k, OptionsOf(c).omit, sent[c].headers, sent[c].more)
    BY <2>1, <2>2 DEF CallOK, Alone, OptionsOf
  <2>4. /\ h \in DOMAIN ClientHeaders(k.client)
        /\ ClientHeaders(k.client)[h] = IF h \in DOMAIN k.client.more THEN k.client.more[h]
                                        ELSE MicroversionHeaders(k.client)[h]
    BY <2>1 DEF ClientHeaders, Override
  <2>5. Canonical[h] \notin Names(OptionsOf(c).omit) /\ Canonical[h] # "X-Auth-Token"
    OBVIOUS
  <2>6. PICK v : v = ClientHeaders(k.client)[h]
    OBVIOUS
  <2>7. /\ Canonical[h] \in DOMAIN sent[c].headers
        /\ \/ sent[c].headers[Canonical[h]] = v
           \/ \E g \in DOMAIN sent[c].more \ {h} :
                Canonical[g] = Canonical[h] /\ sent[c].headers[Canonical[h]] = sent[c].more[g]
    BY <2>3, <2>4, <2>5, <2>6 DEF HeadersSent
  <2>8. v = IF h \in DOMAIN call[c].client.more THEN call[c].client.more[h]
            ELSE MicroversionHeaders(call[c].client)[h]
    BY <2>1, <2>4, <2>6
  <2> QED
    BY <2>7, <2>8
<1> QED
  BY <1>1, AlwaysIInv, PTL

(* What OmitHeaders names is not sent, and no header stands in for the      *)
(* token; where X-Auth-Token itself is to be omitted, nothing is claimed.   *)
THEOREM OmissionsAreRespected == ASSUME OptionsAreObjects PROVE Spec => []OmittedIsNotSent
<1>1. ASSUME IInv
      PROVE  OmittedIsNotSent
  <2>1. ASSUME NEW c \in Calls, pc[c] = "done"
        PROVE  Spares(token, OptionsOf(c).omit, sent[c].headers)
    BY <1>1, <2>1 DEF IInv, CallsOK, CallOK, OptionsOf
  <2> QED
    BY <2>1 DEF OmittedIsNotSent, Spares
<1> QED
  BY <1>1, AlwaysIInv, PTL

(* A call with a body sends it or is refused, whatever earlier calls have   *)
(* left in the options.                                                     *)
THEOREM OwnBody == ASSUME OptionsAreObjects PROVE Spec => []OwnBodyOrRefused
<1>1. ASSUME IInv
      PROVE  OwnBodyOrRefused
  <2>1. ASSUME NEW c \in Calls, Alone(c)
        PROVE  BodySent(c, call[c], sent[c])
    BY <1>1, <2>1 DEF IInv, CallsOK, CallOK, Alone
  <2> QED
    BY <2>1 DEF OwnBodyOrRefused, BodySent
<1> QED
  BY <1>1, AlwaysIInv, PTL
=============================================================================
