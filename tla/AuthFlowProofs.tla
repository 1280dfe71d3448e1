--------------------------- MODULE AuthFlowProofs ---------------------------
(***************************************************************************)
(* Theorems about AuthFlow for any number of goroutines, whatever they     *)
(* call and in whatever order, with the options whose type v3auth knows.   *)
(***************************************************************************)
EXTENDS AuthFlow, SequenceTheorems, TLAPS

(* The places of a frame: outside of Reauthenticate, and in it. *)
Plain ==
  {"choose", "chosen", "create", "store", "install", "headers", "held", "token", "sent"}
Results == {"none", "ok", "error"}
FrameT ==
  [fn : {"auth", "doRequest"},
   at : Plain \cup {"reauthenticate", "joined", "lead", "running", "publish"},
   client : Nat, asks : {"", "service", "identity"}, sent : Nat, future : Nat,
   tac : Nat, err : Results, reauthed : BOOLEAN]
ClientT == [token : Nat, hook : Nat, throwaway : BOOLEAN]

KnownBuilders == \A o \in Options : o.builder # "custom"

Leading(f) == f.at \in {"lead", "running", "publish"}
Reauthenticating(f) == Leading(f) \/ f.at \in {"reauthenticate", "joined"}

(* Only the user's client has a ReauthFunc, so only requests on it get into *)
(* Reauthenticate.                                                          *)
FrameOK(f, cs) ==
  /\ f.client \in 1 .. Len(cs)
  /\ Reauthenticating(f) => f.fn = "doRequest" /\ f.client = User /\ cs[User].hook # 0
  /\ f.at = "running" => f.tac \in 2 .. Len(cs)
FramesOK(s, cs) == \A i \in 1 .. Len(s) : FrameOK(s[i], cs)

(* What lies above a run of ReauthFunc works on its throw-away client, *)
Above(s) ==
  \A i, j \in 1 .. Len(s) :
    i < j /\ s[i].at = "running" => s[j].client = s[i].tac /\ (j = i + 1 => s[j].fn = "auth")

(* and nothing else does. *)
Borrowed(s) ==
  \A j \in 1 .. Len(s) : s[j].client = User \/ \E i \in 1 .. Len(s) : i < j /\ s[i].at = "running"

StackOK(s, cs) == FramesOK(s, cs) /\ Above(s) /\ Borrowed(s)

(* There is one leader at a time, and only while ongoing is set. *)
Leads(s) == {i \in 1 .. Len(s) : Leading(s[i])}
OneLeads(st, on) ==
  /\ \A p, q \in Goroutines : \A i \in Leads(st[p]), j \in Leads(st[q]) : p = q /\ i = j
  /\ \A p \in Goroutines : Leads(st[p]) # {} => on # 0

StacksOK(st, cs, on) ==
  /\ st \in [Goroutines -> Seq(FrameT)]
  /\ \A p \in Goroutines : StackOK(st[p], cs)
  /\ OneLeads(st, on)
Stacks == StacksOK(stack, clients, ongoing)

ClientsOK ==
  /\ clients \in Seq(ClientT) /\ Len(clients) >= 1
  /\ ~clients[User].throwaway /\ clients[User].hook \in {0} \cup 2 .. Len(clients)
  /\ \A c \in 2 .. Len(clients) : clients[c].throwaway /\ clients[c].hook = 0
  /\ \A c \in 1 .. Len(clients) : clients[c].token <= issued

Tokens ==
  /\ opts \in Options
  /\ issued \in Nat /\ owner \in Seq(Nat) /\ Len(owner) = issued
Outcomes ==
  ret \in [Goroutines -> Results] /\ ongoing \in Nat /\ verdict \in Seq(Results)

(* When ReauthFunc has succeeded, its authentication got to its end.        *)
Mature(s, r, cs, wh) ==
  s # <<>> /\ Last(s).at = "running" /\ r = "ok" => cs[Last(s).tac].token \in wh
ReturnedOK(st, rt, cs, wh) == \A p \in Goroutines : Mature(st[p], rt[p], cs, wh)
Returned == ReturnedOK(stack, ret, clients, whole)

IInv == Stacks /\ ClientsOK /\ Tokens /\ Outcomes /\ Returned /\ ReauthTokenIsWhole

-----------------------------------------------------------------------------
(* The ways a stack changes *)

LEMMA Popped ==
  ASSUME NEW S, NEW s \in Seq(S), s # <<>>
  PROVE  /\ Len(s) \in Nat /\ Len(s) >= 1
         /\ Front(s) \in Seq(S) /\ Len(Front(s)) = Len(s) - 1
         /\ \A i \in 1 .. Len(s) - 1 : Front(s)[i] = s[i]
<1>1. Len(s) \in Nat \ {0}
  BY EmptySeq, Zenon
<1>2. PICK n \in Nat : Len(s) = n + 1
  BY <1>1
<1>3. \A i \in 1 .. n : s[i] \in S
  BY <1>2, ElementOfSeq
<1>4. Front(s) = SubSeq(s, 1, n)
  BY <1>2 DEF Front
<1>5. /\ SubSeq(s, 1, n) \in Seq(S)
      /\ Len(SubSeq(s, 1, n)) = IF 1 <= n THEN n - 1 + 1 ELSE 0
      /\ \A i \in 1 .. n - 1 + 1 : SubSeq(s, 1, n)[i] = s[1 + i - 1]
  <2>1. 1 \in Int /\ n \in Int
    OBVIOUS
  <2> QED
    BY <1>3, <2>1, SubSeqProperties
<1>6. Len(Front(s)) = n
  BY <1>4, <1>5
<1>7. \A i \in 1 .. n : Front(s)[i] = s[i]
  <2> TAKE i \in 1 .. n
  <2>1. 1 + i - 1 = i /\ i \in 1 .. n - 1 + 1
    OBVIOUS
  <2> QED
    BY <2>1, <1>4, <1>5
<1> QED
  BY <1>1, <1>2, <1>4, <1>5, <1>6, <1>7

LEMMA Replaced ==
  ASSUME NEW S, NEW s \in Seq(S), s # <<>>, NEW f \in S
  PROVE  /\ Len(s) \in Nat /\ Len(s) >= 1
         /\ Append(Front(s), f) \in Seq(S)
         /\ Len(Append(Front(s), f)) = Len(s)
         /\ Append(Front(s), f)[Len(s)] = f
         /\ \A i \in 1 .. Len(s) : i # Len(s) => Append(Front(s), f)[i] = s[i]
<1>1. /\ Len(s) \in Nat /\ Len(s) >= 1
      /\ Front(s) \in Seq(S) /\ Len(Front(s)) = Len(s) - 1
      /\ \A i \in 1 .. Len(s) - 1 : Front(s)[i] = s[i]
  BY Popped
<1>2. PICK u \in Seq(S) : u = Front(s)
  BY <1>1
<1>3. /\ Append(u, f) \in Seq(S) /\ Len(Append(u, f)) = Len(u) + 1
      /\ \A i \in 1 .. Len(u) : Append(u, f)[i] = u[i]
      /\ Append(u, f)[Len(u) + 1] = f
  BY AppendProperties
<1>4. Len(u) + 1 = Len(s)
  BY <1>1, <1>2
<1>5. \A i \in 1 .. Len(s) : i # Len(s) => i \in 1 .. Len(u)
  BY <1>1, <1>2
<1>6. \A i \in 1 .. Len(s) : i # Len(s) => Append(u, f)[i] = s[i]
  BY <1>1, <1>2, <1>3, <1>5
<1> QED
  BY <1>1, <1>2, <1>3, <1>4, <1>6

LEMMA Pushed ==
  ASSUME NEW S, NEW s \in Seq(S), s # <<>>, NEW f \in S, NEW g \in S
  PROVE  /\ Len(s) \in Nat /\ Len(s) >= 1
         /\ Append(Front(s), f) \o <<g>> \in Seq(S)
         /\ Len(Append(Front(s), f) \o <<g>>) = Len(s) + 1
         /\ (Append(Front(s), f) \o <<g>>)[Len(s)] = f
         /\ (Append(Front(s), f) \o <<g>>)[Len(s) + 1] = g
         /\ \A i \in 1 .. Len(s) : i # Len(s) => (Append(Front(s), f) \o <<g>>)[i] = s[i]
<1> DEFINE t == Append(Front(s), f) \o <<g>>
<1>1. PICK u \in Seq(S) : u = Append(Front(s), f)
  BY Replaced
<1>2. /\ Len(s) \in Nat /\ Len(s) >= 1
      /\ Len(u) = Len(s) /\ u[Len(s)] = f
      /\ \A i \in 1 .. Len(s) : i # Len(s) => u[i] = s[i]
  BY <1>1, Replaced
<1>3. t = Append(u, g)
  BY <1>1, AppendIsConcat
<1> HIDE DEF t
<1>4. /\ Append(u, g) \in Seq(S) /\ Len(Append(u, g)) = Len(u) + 1
      /\ \A i \in 1 .. Len(u) : Append(u, g)[i] = u[i]
      /\ Append(u, g)[Len(u) + 1] = g
  BY AppendProperties
<1>5. Len(s) \in 1 .. Len(u)
  BY <1>2
<1>6. t[Len(s)] = f /\ t[Len(s) + 1] = g /\ Len(t) = Len(s) + 1
  BY <1>2, <1>3, <1>4, <1>5, Zenon
<1>7. \A i \in 1 .. Len(s) : i # Len(s) => t[i] = s[i]
  BY <1>2, <1>3, <1>4, Zenon
<1> QED
  BY <1>2, <1>3, <1>4, <1>6, <1>7 DEF t
(* In a larger set of clients, what was right about a frame is still so.    *)
Grow(cs, ds) ==
  /\ Len(cs) \in Nat /\ Len(ds) \in Nat /\ Len(cs) <= Len(ds)
  /\ cs[User].hook # 0 => ds[User].hook # 0

LEMMA StillOK ==
  ASSUME NEW f, NEW cs, NEW ds, Grow(cs, ds), FrameOK(f, cs)
  PROVE  FrameOK(f, ds)
  BY DEF FrameOK, Grow

(* The top frame goes on as g. *)
LEMMA ContinueKeeps ==
  ASSUME NEW s \in Seq(FrameT), s # <<>>, NEW g \in FrameT, NEW cs, NEW ds, Grow(cs, ds),
         StackOK(s, cs), g.client = Last(s).client, g.fn = Last(s).fn, g.at # "running", FrameOK(g, ds)
  PROVE  LET t == Append(Front(s), g) IN
         /\ t \in Seq(FrameT) /\ t # <<>> /\ Last(t) = g /\ StackOK(t, ds)
         /\ Leads(t) \subseteq Leads(s) \cup {Len(s)}
         /\ Len(s) \in Leads(t) <=> Leading(g)
<1> DEFINE n == Len(s)
<1>1. PICK t \in Seq(FrameT) : t = Append(Front(s), g)
  BY Replaced
<1>2. /\ n \in Nat /\ n >= 1 /\ Len(t) = n /\ t[n] = g
      /\ \A i \in 1 .. n : i # n => t[i] = s[i]
  BY <1>1, Replaced
<1>3. Last(s) = s[n] /\ Last(t) = g /\ t # <<>>
  BY <1>2 DEF Last
<1> HIDE DEF n
<1>4. FramesOK(t, ds)
  BY <1>2, StillOK DEF n, StackOK, FramesOK
<1>5. Above(t)
  <2> SUFFICES ASSUME NEW i \in 1 .. n, NEW j \in 1 .. n, i < j, t[i].at = "running"
               PROVE  t[j].client = t[i].tac /\ (j = i + 1 => t[j].fn = "auth")
    BY <1>2 DEF Above
  <2>1. t[i] = s[i] /\ t[j].client = s[j].client /\ t[j].fn = s[j].fn
    BY <1>2, <1>3
  <2> QED
    BY <2>1 DEF n, StackOK, Above
<1>6. Borrowed(t)
  <2> SUFFICES ASSUME NEW j \in 1 .. n, t[j].client # User
               PROVE  \E i \in 1 .. n : i < j /\ t[i].at = "running"
    BY <1>2 DEF Borrowed
  <2>1. s[j].client # User
    BY <1>2, <1>3
  <2>2. PICK i \in 1 .. n : i < j /\ s[i].at = "running"
    BY <2>1 DEF n, StackOK, Borrowed
  <2>3. i # n
    BY <1>2, <2>2
  <2> QED
    BY <1>2, <2>2, <2>3
<1>7. Leads(t) \subseteq Leads(s) \cup {n} /\ (n \in Leads(t) <=> Leading(g))
  BY <1>2 DEF n, Leads
<1> QED
  BY <1>1, <1>3, <1>4, <1>5, <1>6, <1>7 DEF n, StackOK

(* The top frame becomes f and calls g: it runs ReauthFunc, or what it      *)
(* calls works on the same client.                                          *)
LEMMA CallKeeps ==
  ASSUME NEW s \in Seq(FrameT), s # <<>>, NEW f \in FrameT, NEW g \in FrameT, NEW cs, NEW ds,
         Grow(cs, ds), StackOK(s, cs),
         f.client = Last(s).client, f.fn = Last(s).fn, FrameOK(f, ds), FrameOK(g, ds),
         ~Leading(g), Leading(f) => Leading(Last(s)),
         \/ f.at # "running" /\ g.client = Last(s).client
         \/ f.at = "running" /\ g.client = f.tac /\ g.fn = "auth" /\ Last(s).client = User
  PROVE  LET t == Append(Front(s), f) \o <<g>> IN
         t \in Seq(FrameT) /\ t # <<>> /\ Last(t) = g /\ StackOK(t, ds) /\ Leads(t) \subseteq Leads(s)
<1> DEFINE n == Len(s)
<1>1. PICK t \in Seq(FrameT) : t = Append(Front(s), f) \o <<g>>
  BY Pushed
<1>2. /\ n \in Nat /\ n >= 1 /\ Len(t) = n + 1 /\ t[n] = f /\ t[n + 1] = g
      /\ \A i \in 1 .. n : i # n => t[i] = s[i]
  BY <1>1, Pushed
<1>3. Last(s) = s[n] /\ Last(t) = g /\ t # <<>>
  BY <1>2 DEF Last
<1> HIDE DEF n
<1>4. \A i \in 1 .. n + 1 :
        \/ i \in 1 .. n /\ i # n /\ t[i] = s[i]
        \/ i = n /\ t[i] = f
        \/ i = n + 1 /\ t[i] = g
  BY <1>2
<1>5. FramesOK(t, ds)
  BY <1>2, <1>4, StillOK DEF n, StackOK, FramesOK
<1>6. Above(t)
  <2> SUFFICES ASSUME NEW i \in 1 .. n + 1, NEW j \in 1 .. n + 1, i < j, t[i].at = "running"
               PROVE  t[j].client = t[i].tac /\ (j = i + 1 => t[j].fn = "auth")
    BY <1>2 DEF Above
  <2>1. CASE i = n
    BY <1>2, <2>1
  <2>2. CASE i # n
    <3>1. i \in 1 .. n /\ t[i] = s[i]
      BY <1>2, <2>2
    <3>2. CASE j <= n
      <4>1. j \in 1 .. n /\ t[j].client = s[j].client /\ t[j].fn = s[j].fn
        BY <1>2, <1>3, <3>2
      <4> QED
        BY <3>1, <4>1 DEF n, StackOK, Above
    <3>3. CASE j = n + 1
      <4>1. i < n /\ n \in 1 .. n /\ j # i + 1
        BY <1>2, <2>2, <3>1, <3>3
      <4>2. Last(s).client = s[i].tac
        BY <1>3, <3>1, <4>1 DEF n, StackOK, Above
      <4>3. s[i].tac # User
        BY <3>1 DEF n, StackOK, FramesOK, FrameOK, Grow, User
      <4> QED
        BY <1>2, <3>1, <3>3, <4>1, <4>2, <4>3
    <3> QED
      BY <1>2, <3>2, <3>3
  <2> QED
    BY <2>1, <2>2
<1>7. Borrowed(t)
  <2> SUFFICES ASSUME NEW j \in 1 .. n + 1, t[j].client # User
               PROVE  \E i \in 1 .. n + 1 : i < j /\ t[i].at = "running"
    BY <1>2 DEF Borrowed
  <2>1. CASE j = n + 1 /\ f.at = "running"
    BY <1>2, <2>1
  <2>2. CASE ~(j = n + 1 /\ f.at = "running")
    <3>1. PICK k \in 1 .. n : k <= j /\ s[k].client # User
      <4>1. CASE j = n + 1
        BY <1>2, <1>3, <2>2, <4>1
      <4>2. CASE j # n + 1
        BY <1>2, <1>3, <4>2
      <4> QED
        BY <4>1, <4>2
    <3>2. PICK i \in 1 .. n : i < k /\ s[i].at = "running"
      BY <3>1 DEF n, StackOK, Borrowed
    <3>3. i \in 1 .. n + 1 /\ i < j /\ t[i] = s[i]
      BY <1>2, <3>1, <3>2
    <3> QED
      BY <3>2, <3>3
  <2> QED
    BY <2>1, <2>2
<1>8. Leads(t) \subseteq Leads(s)
  <2> SUFFICES ASSUME NEW i \in 1 .. n + 1, Leading(t[i])
               PROVE  i \in 1 .. n /\ Leading(s[i])
    BY <1>2 DEF n, Leads
  <2> QED
    BY <1>2, <1>3, <1>4
<1> QED
  BY <1>1, <1>3, <1>5, <1>6, <1>7, <1>8 DEF StackOK

(* The top frame returns. *)
LEMMA ReturnKeeps ==
  ASSUME NEW s \in Seq(FrameT), s # <<>>, NEW cs, NEW ds, Grow(cs, ds), StackOK(s, cs)
  PROVE  /\ Front(s) \in Seq(FrameT) /\ StackOK(Front(s), ds)
         /\ Leads(Front(s)) \subseteq Leads(s) \ {Len(s)}
         /\ Front(s) # <<>> /\ Last(Front(s)).at = "running" =>
              Last(s).client = Last(Front(s)).tac /\ Last(s).fn = "auth"
<1> DEFINE n == Len(s)
<1>1. PICK t \in Seq(FrameT) : t = Front(s)
  BY Popped
<1>2. n \in Nat /\ n >= 1 /\ Len(t) = n - 1 /\ \A i \in 1 .. n - 1 : t[i] = s[i]
  BY <1>1, Popped
<1>3. Last(s) = s[n] /\ Last(t) = t[n - 1]
  BY <1>2 DEF Last
<1>4. t # <<>> => n - 1 >= 1
  BY <1>2, EmptySeq
<1> HIDE DEF n
<1>5. FramesOK(t, ds)
  BY <1>2, StillOK DEF n, StackOK, FramesOK
<1>6. Above(t)
  <2> SUFFICES ASSUME NEW i \in 1 .. n - 1, NEW j \in 1 .. n - 1, i < j, t[i].at = "running"
               PROVE  t[j].client = t[i].tac /\ (j = i + 1 => t[j].fn = "auth")
    BY <1>2 DEF Above
  <2>1. i \in 1 .. n /\ j \in 1 .. n /\ t[i] = s[i] /\ t[j] = s[j]
    BY <1>2
  <2> QED
    BY <2>1 DEF n, StackOK, Above
<1>7. Borrowed(t)
  <2> SUFFICES ASSUME NEW j \in 1 .. n - 1, t[j].client # User
               PROVE  \E i \in 1 .. n - 1 : i < j /\ t[i].at = "running"
    BY <1>2 DEF Borrowed
  <2>1. j \in 1 .. n /\ s[j].client # User
    BY <1>2
  <2>2. PICK i \in 1 .. n : i < j /\ s[i].at = "running"
    BY <2>1 DEF n, StackOK, Borrowed
  <2> QED
    BY <1>2, <2>2
<1>8. Leads(t) \subseteq Leads(s) \ {n}
  BY <1>2 DEF n, Leads
<1>9. t # <<>> /\ Last(t).at = "running" => Last(s).client = Last(t).tac /\ Last(s).fn = "auth"
  <2> SUFFICES ASSUME t # <<>>, s[n - 1].at = "running"
               PROVE  s[n].client = s[n - 1].tac /\ s[n].fn = "auth"
    BY <1>2, <1>3, <1>4
  <2>1. n \in 1 .. n /\ n - 1 \in 1 .. n /\ n - 1 < n /\ n = (n - 1) + 1
    BY <1>2, <1>4
  <2> QED
    BY <2>1 DEF n, StackOK, Above
<1> QED
  BY <1>1, <1>5, <1>6, <1>7, <1>8, <1>9 DEF n, StackOK

-----------------------------------------------------------------------------
(* The ways the stacks change: one goroutine's at a time, and its leads     *)
(* stay, go, or begin when nothing is ongoing.                              *)
LEMMA StackStep ==
  ASSUME NEW st, NEW cs, NEW on, StacksOK(st, cs, on), NEW p \in Goroutines,
         NEW t \in Seq(FrameT), NEW ds, NEW on2, Grow(cs, ds), StackOK(t, ds),
         \/ on2 = on /\ Leads(t) \subseteq Leads(st[p])
         \/ Leads(st[p]) # {} /\ Leads(t) = {}
         \/ on = 0 /\ on2 # 0 /\ (\A i, j \in Leads(t) : i = j)
  PROVE  StacksOK([st EXCEPT ![p] = t], ds, on2)
<1>1. PICK st2 : st2 = [st EXCEPT ![p] = t]
  OBVIOUS
<1>2. /\ st2 \in [Goroutines -> Seq(FrameT)] /\ st2[p] = t
      /\ \A q \in Goroutines : q # p => st2[q] = st[q]
  BY <1>1 DEF StacksOK
<1>3. \A q \in Goroutines : StackOK(st[q], ds)
  BY StillOK DEF StacksOK, StackOK, FramesOK
<1>4. \A q \in Goroutines : StackOK(st2[q], ds)
  BY <1>2, <1>3, Zenon
<1>5. OneLeads(st, on)
  BY DEF StacksOK
<1>6. OneLeads(st2, on2)
  <2>1. CASE on2 = on /\ Leads(t) \subseteq Leads(st[p])
    <3>1. \A q \in Goroutines : Leads(st2[q]) \subseteq Leads(st[q])
      BY <1>2, <2>1, Zenon
    <3>2. ASSUME NEW q \in Goroutines, NEW r \in Goroutines,
                 NEW i \in Leads(st2[q]), NEW j \in Leads(st2[r])
          PROVE  q = r /\ i = j
      <4>1. i \in Leads(st[q]) /\ j \in Leads(st[r])
        BY <3>1, Zenon
      <4> QED
        BY <1>5, <4>1, Zenon DEF OneLeads
    <3>3. ASSUME NEW q \in Goroutines, Leads(st2[q]) # {}
          PROVE  on2 # 0
      <4>1. Leads(st[q]) # {}
        BY <3>1, <3>3
      <4> QED
        BY <1>5, <2>1, <4>1, Zenon DEF OneLeads
    <3> QED
      BY <3>2, <3>3 DEF OneLeads
  <2>2. CASE Leads(st[p]) # {} /\ Leads(t) = {}
    <3>1. \A q \in Goroutines : q # p => Leads(st[q]) = {}
      BY <1>5, <2>2, Zenon DEF OneLeads
    <3>2. \A q \in Goroutines : Leads(st2[q]) = {}
      BY <1>2, <2>2, <3>1, Zenon
    <3> QED
      BY <3>2, Zenon DEF OneLeads
  <2>3. CASE on = 0 /\ on2 # 0 /\ (\A i, j \in Leads(t) : i = j)
    <3>1. \A q \in Goroutines : q # p => Leads(st2[q]) = {}
      BY <1>2, <1>5, <2>3, Zenon DEF OneLeads
    <3> QED
      BY <1>2, <2>3, <3>1, Zenon DEF OneLeads
  <2> QED
    BY <2>1, <2>2, <2>3
<1> QED
  BY <1>1, <1>2, <1>4, <1>6 DEF StacksOK

LeadsOn(f, g, on, on2) ==
  \/ on2 = on /\ (Leading(g) => Leading(f))
  \/ Leading(f) /\ ~Leading(g)
  \/ on = 0 /\ on2 # 0

LEMMA ContinueStep ==
  ASSUME NEW st, NEW cs, NEW on, StacksOK(st, cs, on), NEW p \in Goroutines, st[p] # <<>>,
         NEW g \in FrameT, NEW t, t = Append(Front(st[p]), g), NEW ds, NEW on2, Grow(cs, ds),
         g.client = Last(st[p]).client, g.fn = Last(st[p]).fn, g.at # "running", FrameOK(g, ds),
         LeadsOn(Last(st[p]), g, on, on2)
  PROVE  StacksOK([st EXCEPT ![p] = t], ds, on2) /\ t # <<>> /\ Last(t) = g
<1>1. PICK s \in Seq(FrameT) : s = st[p]
  BY DEF StacksOK
<1>2. StackOK(s, cs) /\ s # <<>>
  BY <1>1 DEF StacksOK
<1>3. t = Append(Front(s), g)
  BY <1>1
<1>4. /\ t \in Seq(FrameT) /\ t # <<>> /\ Last(t) = g /\ StackOK(t, ds)
      /\ Leads(t) \subseteq Leads(s) \cup {Len(s)}
      /\ Len(s) \in Leads(t) <=> Leading(g)
  BY <1>1, <1>2, <1>3, ContinueKeeps
<1>5. Len(s) \in 1 .. Len(s) /\ Last(s) = s[Len(s)]
  BY <1>2, Popped DEF Last
<1>6. Len(s) \in Leads(s) <=> Leading(Last(s))
  BY <1>5 DEF Leads
<1>7. \A i, j \in Leads(s) : i = j
  BY <1>1, Zenon DEF StacksOK, OneLeads
<1>8. on = 0 => Leads(s) = {}
  BY <1>1, Zenon DEF StacksOK, OneLeads
<1>9. \/ on2 = on /\ Leads(t) \subseteq Leads(s)
      \/ Leads(s) # {} /\ Leads(t) = {}
      \/ on = 0 /\ on2 # 0 /\ (\A i, j \in Leads(t) : i = j)
  BY <1>1, <1>4, <1>6, <1>7, <1>8 DEF LeadsOn
<1> QED
  BY <1>1, <1>3, <1>4, <1>9, StackStep

(* The frame e, the top of s, becomes f and calls g. *)
Called(s, f, g) == Append(Front(s), f) \o <<g>>
CallsOn(e, f, g) ==
  /\ f.client = e.client /\ f.fn = e.fn /\ (Leading(f) => Leading(e)) /\ ~Leading(g)
  /\ \/ f.at # "running" /\ g.client = e.client
     \/ f.at = "running" /\ g.client = f.tac /\ g.fn = "auth" /\ e.client = User

LEMMA CallStep ==
  ASSUME NEW st, NEW cs, NEW on, StacksOK(st, cs, on), NEW p \in Goroutines, st[p] # <<>>,
         NEW f \in FrameT, NEW g \in FrameT, NEW t, t = Called(st[p], f, g),
         NEW ds, Grow(cs, ds),
         FrameOK(f, ds), FrameOK(g, ds), CallsOn(Last(st[p]), f, g)
  PROVE  StacksOK([st EXCEPT ![p] = t], ds, on) /\ t # <<>> /\ Last(t) = g
<1>1. PICK s \in Seq(FrameT) : s = st[p]
  BY DEF StacksOK
<1>2. StackOK(s, cs) /\ s # <<>>
  BY <1>1 DEF StacksOK
<1>3. t = Append(Front(s), f) \o <<g>>
  BY <1>1 DEF Called
<1>4. t \in Seq(FrameT) /\ t # <<>> /\ Last(t) = g /\ StackOK(t, ds) /\ Leads(t) \subseteq Leads(s)
  BY <1>1, <1>2, <1>3, CallKeeps DEF CallsOn
<1> QED
  BY <1>1, <1>3, <1>4, StackStep

LEMMA ReturnStep ==
  ASSUME NEW st, NEW cs, NEW on, StacksOK(st, cs, on), NEW p \in Goroutines, st[p] # <<>>,
         NEW t, t = Front(st[p]), NEW ds, NEW on2, Grow(cs, ds), on2 = on \/ Leading(Last(st[p]))
  PROVE  /\ StacksOK([st EXCEPT ![p] = t], ds, on2)
         /\ t # <<>> /\ Last(t).at = "running" =>
              Last(st[p]).client = Last(t).tac /\ Last(st[p]).fn = "auth"
<1>1. PICK s \in Seq(FrameT) : s = st[p]
  BY DEF StacksOK
<1>2. StackOK(s, cs) /\ s # <<>>
  BY <1>1 DEF StacksOK
<1>3. t = Front(s)
  BY <1>1
<1>4. /\ t \in Seq(FrameT) /\ StackOK(t, ds) /\ Leads(t) \subseteq Leads(s) \ {Len(s)}
      /\ t # <<>> /\ Last(t).at = "running" => Last(s).client = Last(t).tac /\ Last(s).fn = "auth"
  BY <1>1, <1>2, <1>3, ReturnKeeps
<1>5. Len(s) \in 1 .. Len(s) /\ Last(s) = s[Len(s)]
  BY <1>2, Popped DEF Last
<1>6. Leading(Last(s)) => Len(s) \in Leads(s)
  BY <1>5 DEF Leads
<1>7. \A i, j \in Leads(s) : i = j
  BY <1>1, Zenon DEF StacksOK, OneLeads
<1>8. \/ on2 = on /\ Leads(t) \subseteq Leads(s)
      \/ Leads(s) # {} /\ Leads(t) = {}
  BY <1>1, <1>4, <1>6, <1>7
<1>9. StacksOK([st EXCEPT ![p] = t], ds, on2)
  BY <1>1, <1>4, <1>8, StackStep
<1> QED
  BY <1>1, <1>3, <1>4, <1>9

-----------------------------------------------------------------------------
(* While one goroutine works on a throw-away client, no other one is about  *)
(* to return to its run of ReauthFunc.                                      *)
LEMMA NotMine ==
  ASSUME NEW st, NEW cs, NEW on, StacksOK(st, cs, on),
         NEW p \in Goroutines, NEW q \in Goroutines, p # q, st[p] # <<>>, st[q] # <<>>,
         Last(st[p]).client # User
  PROVE  Last(st[q]).at # "running"
<1> SUFFICES ASSUME Last(st[q]).at = "running"
             PROVE  FALSE
  OBVIOUS
<1>1. PICK s \in Seq(FrameT), u \in Seq(FrameT) : s = st[p] /\ u = st[q]
  BY DEF StacksOK
<1>2. s # <<>> /\ u # <<>> /\ Borrowed(s)
  BY <1>1 DEF StacksOK, StackOK
<1>3. /\ Len(s) \in 1 .. Len(s) /\ Last(s) = s[Len(s)]
      /\ Len(u) \in 1 .. Len(u) /\ Last(u) = u[Len(u)]
  BY <1>2, Popped DEF Last
<1>4. PICK i \in 1 .. Len(s) : s[i].at = "running"
  BY <1>1, <1>2, <1>3 DEF Borrowed
<1>5. i \in Leads(s) /\ Len(u) \in Leads(u)
  BY <1>1, <1>3, <1>4 DEF Leads, Leading
<1> QED
  BY <1>1, <1>5, Zenon DEF StacksOK, OneLeads

(* The throw-away client of a run of ReauthFunc is one of the copies. *)
LEMMA TacIsACopy ==
  ASSUME NEW st, NEW cs, NEW on, StacksOK(st, cs, on), NEW p \in Goroutines, st[p] # <<>>
  PROVE  /\ FrameOK(Last(st[p]), cs) /\ Last(st[p]) \in FrameT
         /\ Last(st[p]).at = "running" => Last(st[p]).tac \in 2 .. Len(cs)
<1>1. PICK s \in Seq(FrameT) : s = st[p]
  BY DEF StacksOK
<1>2. s # <<>> /\ FramesOK(s, cs)
  BY <1>1 DEF StacksOK, StackOK
<1>3. Len(s) \in 1 .. Len(s) /\ Last(s) = s[Len(s)]
  BY <1>2, Popped DEF Last
<1>4. s[Len(s)] \in FrameT
  BY <1>3, ElementOfSeq
<1> QED
  BY <1>1, <1>2, <1>3, <1>4 DEF FramesOK, FrameOK

(* What other goroutines return to is still right when one moves and no     *)
(* token they wait for changes.                                             *)
SameTokens(st, p, cs, ds) ==
  \A q \in Goroutines : q # p /\ st[q] # <<>> /\ Last(st[q]).at = "running" =>
    ds[Last(st[q]).tac].token = cs[Last(st[q]).tac].token

LEMMA ReturnedStep ==
  ASSUME NEW st, NEW rt, NEW cs, NEW wh, ReturnedOK(st, rt, cs, wh),
         NEW p \in Goroutines, NEW t, NEW rt2, NEW cs2, NEW wh2, wh \subseteq wh2,
         st \in [Goroutines -> Seq(FrameT)], \A q \in Goroutines : q # p => rt2[q] = rt[q],
         SameTokens(st, p, cs, cs2), Mature(t, rt2[p], cs2, wh2)
  PROVE  ReturnedOK([st EXCEPT ![p] = t], rt2, cs2, wh2)
<1>1. PICK st2 : st2 = [st EXCEPT ![p] = t]
  OBVIOUS
<1>2. st2[p] = t /\ \A q \in Goroutines : q # p => st2[q] = st[q]
  BY <1>1
<1>3. ASSUME NEW q \in Goroutines
      PROVE  Mature(st2[q], rt2[q], cs2, wh2)
  <2>1. CASE q = p
    BY <1>2, <2>1
  <2>2. CASE q # p
    <3>1. st2[q] = st[q] /\ rt2[q] = rt[q] /\ Mature(st[q], rt[q], cs, wh)
      BY <1>2, <2>2 DEF ReturnedOK
    <3> QED
      BY <2>2, <3>1 DEF Mature, SameTokens
  <2> QED
    BY <2>1, <2>2
<1> QED
  BY <1>1, <1>3 DEF ReturnedOK

LEMMA SameClients ==
  ASSUME NEW st, NEW p, NEW cs
  PROVE  SameTokens(st, p, cs, cs)
BY DEF SameTokens

-----------------------------------------------------------------------------
(* Moves that change neither a client nor a token *)

Quiet == UNCHANGED <<input, clients, tokens>> /\ Outcomes'

LEMMA QuietContinue ==
  ASSUME IInv, NEW p \in Goroutines, stack[p] # <<>>, NEW g \in FrameT, Continue(p, g), Quiet,
         g.client = Top(p).client, g.fn = Top(p).fn, g.at # "running", FrameOK(g, clients),
         LeadsOn(Top(p), g, ongoing, ongoing')
  PROVE  IInv'
<1>1. Grow(clients, clients)
  BY DEF IInv, ClientsOK, Grow
<1>2. PICK t : t = Append(Front(stack[p]), g)
  OBVIOUS
<1>3. StacksOK([stack EXCEPT ![p] = t], clients, ongoing') /\ t # <<>> /\ Last(t) = g
  <2>1. StacksOK(stack, clients, ongoing)
    BY DEF IInv, Stacks
  <2>2. /\ g.client = Last(stack[p]).client /\ g.fn = Last(stack[p]).fn
        /\ LeadsOn(Last(stack[p]), g, ongoing, ongoing')
    BY DEF Top
  <2> QED
    BY <1>1, <1>2, <2>1, <2>2, ContinueStep
<1>4. stack' = [stack EXCEPT ![p] = t] /\ ret' = ret /\ clients' = clients /\ whole' = whole
  BY <1>2 DEF Continue, Quiet, tokens
<1>5. Stacks'
  BY <1>3, <1>4 DEF Stacks
<1>6. Returned'
  <2>1. ReturnedOK(stack, ret, clients, whole) /\ stack \in [Goroutines -> Seq(FrameT)]
    BY DEF IInv, Stacks, StacksOK, Returned
  <2>2. Mature(t, ret[p], clients, whole)
    BY <1>3 DEF Mature
  <2>3. ReturnedOK([stack EXCEPT ![p] = t], ret, clients, whole)
    BY <2>1, <2>2, ReturnedStep, SameClients
  <2> QED
    BY <1>4, <2>3 DEF Returned
<1>7. ClientsOK' /\ Tokens' /\ ReauthTokenIsWhole'
  BY DEF IInv, Quiet, tokens, input, ClientsOK, Tokens, ReauthTokenIsWhole
<1> QED
  BY <1>5, <1>6, <1>7 DEF IInv, Quiet

LEMMA QuietCall ==
  ASSUME IInv, NEW p \in Goroutines, stack[p] # <<>>, NEW f \in FrameT, NEW g \in FrameT,
         stack' = [stack EXCEPT ![p] = Append(Front(stack[p]), f) \o <<g>>],
         ret' = ret, ongoing' = ongoing, Quiet,
         f.client = Top(p).client, f.fn = Top(p).fn, FrameOK(f, clients), FrameOK(g, clients),
         ~Reauthenticating(g), Leading(f) => Leading(Top(p)),
         \/ f.at # "running" /\ g.client = Top(p).client
         \/ f.at = "running" /\ g.client = f.tac /\ g.fn = "auth" /\ Top(p).client = User
  PROVE  IInv'
<1>1. Grow(clients, clients) /\ ~Leading(g) /\ g.at # "running"
  BY DEF IInv, ClientsOK, Grow, Reauthenticating, Leading
<1>2. PICK t : t = Called(stack[p], f, g)
  OBVIOUS
<1>3. StacksOK([stack EXCEPT ![p] = t], clients, ongoing) /\ t # <<>> /\ Last(t) = g
  <2>1. StacksOK(stack, clients, ongoing)
    BY DEF IInv, Stacks
  <2>2. CallsOn(Last(stack[p]), f, g)
    BY <1>1 DEF Top, CallsOn
  <2>3. /\ p \in Goroutines /\ stack[p] # <<>> /\ f \in FrameT /\ g \in FrameT
        /\ FrameOK(f, clients) /\ FrameOK(g, clients) /\ Grow(clients, clients)
    BY <1>1
  <2> QED
    BY ONLY <1>2, <2>1, <2>2, <2>3, CallStep
<1>4. stack' = [stack EXCEPT ![p] = t] /\ clients' = clients /\ whole' = whole
  BY <1>2 DEF Quiet, tokens, Called
<1>5. Stacks'
  BY <1>3, <1>4 DEF Stacks
<1>6. Returned'
  <2>1. ReturnedOK(stack, ret, clients, whole) /\ stack \in [Goroutines -> Seq(FrameT)]
    BY DEF IInv, Stacks, StacksOK, Returned
  <2>2. Mature(t, ret[p], clients, whole)
    BY <1>1, <1>3 DEF Mature
  <2>3. ReturnedOK([stack EXCEPT ![p] = t], ret, clients, whole)
    BY <2>1, <2>2, ReturnedStep, SameClients
  <2> QED
    BY <1>4, <2>3 DEF Returned
<1>7. ClientsOK' /\ Tokens' /\ ReauthTokenIsWhole'
  BY DEF IInv, Quiet, tokens, input, ClientsOK, Tokens, ReauthTokenIsWhole
<1> QED
  BY <1>5, <1>6, <1>7 DEF IInv, Quiet

LEMMA QuietReturn ==
  ASSUME IInv, NEW p \in Goroutines, stack[p] # <<>>, NEW r, Return(p, r), Quiet,
         ongoing' = ongoing \/ Leading(Top(p)), r = "ok" => Top(p).fn # "auth"
  PROVE  IInv'
<1>1. Grow(clients, clients)
  BY DEF IInv, ClientsOK, Grow
<1>2. PICK t : t = Front(stack[p])
  OBVIOUS
<1>3. /\ StacksOK([stack EXCEPT ![p] = t], clients, ongoing')
      /\ t # <<>> /\ Last(t).at = "running" => Top(p).fn = "auth"
  BY <1>1, <1>2, ReturnStep DEF IInv, Stacks, Top
<1>4. /\ stack' = [stack EXCEPT ![p] = t] /\ ret' = [ret EXCEPT ![p] = r]
      /\ clients' = clients /\ whole' = whole
  BY <1>2 DEF Return, Quiet, tokens
<1>5. Stacks'
  BY <1>3, <1>4 DEF Stacks
<1>6. ret'[p] = r /\ \A q \in Goroutines : q # p => ret'[q] = ret[q]
  BY <1>4 DEF IInv, Outcomes
<1>7. Returned'
  <2>1. ReturnedOK(stack, ret, clients, whole) /\ stack \in [Goroutines -> Seq(FrameT)]
    BY DEF IInv, Stacks, StacksOK, Returned
  <2>2. Mature(t, ret'[p], clients, whole)
    BY <1>3, <1>6 DEF Mature
  <2>3. ReturnedOK([stack EXCEPT ![p] = t], ret', clients, whole)
    BY <1>6, <2>1, <2>2, ReturnedStep, SameClients
  <2> QED
    BY <1>4, <2>3 DEF Returned
<1>8. ClientsOK' /\ Tokens' /\ ReauthTokenIsWhole'
  BY DEF IInv, Quiet, tokens, input, ClientsOK, Tokens, ReauthTokenIsWhole
<1> QED
  BY <1>5, <1>7, <1>8 DEF IInv, Quiet

LEMMA TopOK ==
  ASSUME IInv, NEW p \in Goroutines, stack[p] # <<>>
  PROVE  Top(p) \in FrameT /\ FrameOK(Top(p), clients)
BY TacIsACopy DEF IInv, Stacks, Top

LEMMA QuietGoto ==
  ASSUME IInv, NEW p \in Goroutines, stack[p] # <<>>, NEW at \in Plain, Goto(p, at), Quiet,
         ongoing' = ongoing
  PROVE  IInv'
<1>1. PICK g : g = [Top(p) EXCEPT !.at = at]
  OBVIOUS
<1>2. g \in FrameT /\ g.client = Top(p).client /\ g.fn = Top(p).fn /\ g.at = at
  BY <1>1, TopOK DEF FrameT, Plain
<1>3. g.at # "running" /\ ~Leading(g) /\ FrameOK(g, clients)
  BY <1>2, TopOK DEF Plain, Leading, Reauthenticating, FrameOK
<1>4. LeadsOn(Top(p), g, ongoing, ongoing') /\ Continue(p, g)
  BY <1>1, <1>3 DEF LeadsOn, Goto
<1> QED
  BY <1>2, <1>3, <1>4, QuietContinue

LEMMA Subcalled ==
  ASSUME NEW f \in FrameT, NEW at \in Plain, NEW cs, FrameOK(f, cs)
  PROVE  LET g == [f EXCEPT !.at = at]
             h == DoRequest(f.client, "identity")
         IN  /\ g \in FrameT /\ h \in FrameT /\ FrameOK(g, cs) /\ FrameOK(h, cs)
             /\ g.client = f.client /\ g.fn = f.fn /\ g.at # "running" /\ h.client = f.client
             /\ ~Leading(g) /\ ~Reauthenticating(h) /\ ~Leading(h) /\ h.at # "running"
<1> DEFINE g == [f EXCEPT !.at = at]
<1> DEFINE h == DoRequest(f.client, "identity")
<1>1. g \in FrameT /\ g.client = f.client /\ g.fn = f.fn /\ g.at = at
  BY DEF FrameT, Plain
<1>2. h \in FrameT /\ h.client = f.client /\ h.at = "headers" /\ f.client \in Nat
  BY DEF FrameT, DoRequest, Frame, Plain, Results
<1>3. f.client \in 1 .. Len(cs)
  BY DEF FrameOK
<1> HIDE DEF g, h
<1>4. ~Reauthenticating(g) /\ ~Reauthenticating(h) /\ g.at # "running" /\ h.at # "running"
  BY <1>1, <1>2 DEF Reauthenticating, Leading, Plain
<1>5. FrameOK(g, cs) /\ FrameOK(h, cs)
  BY <1>1, <1>2, <1>3, <1>4 DEF FrameOK
<1> QED
  BY <1>1, <1>2, <1>4, <1>5 DEF g, h, Reauthenticating

LEMMA QuietSubcall ==
  ASSUME IInv, NEW p \in Goroutines, stack[p] # <<>>, NEW at \in Plain,
         Call(p, at, DoRequest(Top(p).client, "identity")), Quiet, ongoing' = ongoing
  PROVE  IInv'
<1>1. PICK f, g : f = [Top(p) EXCEPT !.at = at] /\ g = DoRequest(Top(p).client, "identity")
  OBVIOUS
<1>2. /\ f \in FrameT /\ g \in FrameT /\ FrameOK(f, clients) /\ FrameOK(g, clients)
      /\ f.client = Top(p).client /\ f.fn = Top(p).fn /\ f.at # "running" /\ g.client = Top(p).client
      /\ ~Leading(f) /\ ~Reauthenticating(g)
  BY <1>1, TopOK, Subcalled
<1>3. stack' = [stack EXCEPT ![p] = Append(Front(stack[p]), f) \o <<g>>] /\ ret' = ret
  BY <1>1 DEF Call, Top
<1> QED
  BY <1>2, <1>3, QuietCall

-----------------------------------------------------------------------------
(* The steps *)

LEMMA StartKeeps ==
  ASSUME IInv, NEW p \in Goroutines, Start(p)
  PROVE  IInv'
<1>1. PICK g : g = IF job[p] = "request" THEN DoRequest(User, "service") ELSE Auth(User, "choose")
  OBVIOUS
<1>2. PICK t : t = <<g>>
  OBVIOUS
<1>3. g \in FrameT /\ g.client = User /\ g.at \in {"headers", "choose"}
  BY <1>1 DEF FrameT, DoRequest, Auth, Frame, User, Plain, Results
<1>4. ~Reauthenticating(g) /\ ~Leading(g) /\ g.at # "running"
  BY <1>3 DEF Reauthenticating, Leading
<1>5. t \in Seq(FrameT) /\ Len(t) = 1 /\ t[1] = g /\ Last(t) = g
  BY <1>2, <1>3 DEF Last
<1>6. FrameOK(g, clients) /\ Grow(clients, clients)
  BY <1>3, <1>4 DEF IInv, ClientsOK, FrameOK, User, Grow
<1>7. StackOK(t, clients) /\ Leads(t) = {}
  BY <1>3, <1>4, <1>5, <1>6 DEF StackOK, FramesOK, Above, Borrowed, Leads
<1>8. stack' = [stack EXCEPT ![p] = t] /\ ret' = ret /\ clients' = clients /\ whole' = whole /\ ongoing' = ongoing
  BY <1>1, <1>2 DEF Start, tokens, flight
<1>9. Leads(t) \subseteq Leads(stack[p])
  BY <1>7
<1>10. StacksOK(stack, clients, ongoing)
  BY DEF IInv, Stacks
<1>11. StacksOK([stack EXCEPT ![p] = t], clients, ongoing)
  BY <1>5, <1>6, <1>7, <1>9, <1>10, StackStep
<1>12. Stacks'
  BY <1>8, <1>11 DEF Stacks
<1>13. Returned'
  <2>1. ReturnedOK(stack, ret, clients, whole) /\ stack \in [Goroutines -> Seq(FrameT)]
    BY DEF IInv, Stacks, StacksOK, Returned
  <2>2. Mature(t, ret[p], clients, whole)
    BY <1>4, <1>5 DEF Mature
  <2>3. ReturnedOK([stack EXCEPT ![p] = t], ret, clients, whole)
    BY <2>1, <2>2, ReturnedStep, SameClients
  <2> QED
    BY <1>8, <2>3 DEF Returned
<1>14. ClientsOK' /\ Tokens' /\ ReauthTokenIsWhole' /\ Outcomes'
  BY DEF Start, flight, IInv, tokens, input, ClientsOK, Tokens, Outcomes, ReauthTokenIsWhole
<1> QED
  BY <1>12, <1>13, <1>14 DEF IInv

LEMMA ChooseKeeps ==
  ASSUME IInv, NEW p \in Goroutines, Choose(p)
  PROVE  IInv'
<1>1. stack[p] # <<>> /\ Quiet /\ ongoing' = ongoing
  BY DEF Choose, At, Quiet, flight, Goto, Call, Continue, IInv, Outcomes
<1>2. "create" \in Plain /\ "chosen" \in Plain
  BY DEF Plain
<1>3. CASE Goto(p, "create")
  BY <1>1, <1>2, <1>3, QuietGoto
<1>4. CASE Call(p, "chosen", DoRequest(Top(p).client, "identity"))
  BY <1>1, <1>2, <1>4, QuietSubcall
<1> QED
  BY <1>3, <1>4 DEF Choose

LEMMA ChosenKeeps ==
  ASSUME IInv, NEW p \in Goroutines, Chosen(p)
  PROVE  IInv'
<1>1. stack[p] # <<>> /\ Quiet /\ ongoing' = ongoing
  BY DEF Chosen, At, Quiet, flight, Goto, Return, Continue, IInv, Outcomes, Results
<1>2. CASE Goto(p, "create")
  BY <1>1, <1>2, QuietGoto DEF Plain
<1>3. CASE Return(p, "error")
  BY <1>1, <1>3, QuietReturn
<1> QED
  BY <1>2, <1>3 DEF Chosen

LEMMA HeadersKeeps ==
  ASSUME IInv, NEW p \in Goroutines, Headers(p)
  PROVE  IInv'
<1>1. stack[p] # <<>> /\ Quiet /\ ongoing' = ongoing
  BY DEF Headers, At, Quiet, flight, Continue, IInv, Outcomes
<1>2. PICK at \in {"sent", "token", "held"} :
        Continue(p, [Top(p) EXCEPT !.at = at, !.future = ongoing, !.sent = 0])
  BY Zenon DEF Headers
<1>3. PICK g : g = [Top(p) EXCEPT !.at = at, !.future = ongoing, !.sent = 0]
  OBVIOUS
<1>4. g \in FrameT /\ g.client = Top(p).client /\ g.fn = Top(p).fn /\ g.at = at
  BY <1>1, <1>3, TopOK DEF FrameT, Plain, IInv, Outcomes
<1>5. g.at # "running" /\ ~Leading(g) /\ FrameOK(g, clients)
  BY <1>1, <1>4, TopOK DEF Leading, Reauthenticating, FrameOK
<1>6. LeadsOn(Top(p), g, ongoing, ongoing')
  BY <1>1, <1>5 DEF LeadsOn
<1> QED
  BY <1>1, <1>2, <1>3, <1>4, <1>5, <1>6, QuietContinue

LEMMA HeldKeeps ==
  ASSUME IInv, NEW p \in Goroutines, Held(p)
  PROVE  IInv'
<1>1. stack[p] # <<>> /\ Quiet /\ ongoing' = ongoing
  BY DEF Held, At, Quiet, flight, Goto, Continue, IInv, Outcomes
<1>2. Goto(p, "token") /\ "token" \in Plain
  BY DEF Held, Plain
<1> QED
  BY <1>1, <1>2, QuietGoto

LEMMA SendKeeps ==
  ASSUME IInv, NEW p \in Goroutines, Send(p)
  PROVE  IInv'
<1>1. stack[p] # <<>> /\ Quiet /\ ongoing' = ongoing
  BY DEF Send, At, Quiet, flight, Continue, IInv, Outcomes
<1>2. PICK g : g = [Top(p) EXCEPT !.at = "sent", !.sent = Mine(p).token]
  OBVIOUS
<1>3. Mine(p).token \in Nat
  <2>1. Top(p).client \in 1 .. Len(clients) /\ clients \in Seq(ClientT)
    BY <1>1, TopOK DEF FrameOK, IInv, ClientsOK
  <2>2. clients[Top(p).client] \in ClientT
    BY <2>1, ElementOfSeq
  <2> QED
    BY <2>2 DEF Mine, ClientT
<1>4. g \in FrameT /\ g.client = Top(p).client /\ g.fn = Top(p).fn /\ g.at = "sent"
  BY <1>1, <1>2, <1>3, TopOK DEF FrameT, Plain
<1>5. g.at # "running" /\ ~Leading(g) /\ FrameOK(g, clients)
  BY <1>1, <1>4, TopOK DEF Leading, Reauthenticating, FrameOK
<1>6. LeadsOn(Top(p), g, ongoing, ongoing') /\ Continue(p, g)
  BY <1>1, <1>2, <1>5 DEF LeadsOn, Send
<1> QED
  BY <1>1, <1>4, <1>5, <1>6, QuietContinue

LEMMA AnswerKeeps ==
  ASSUME IInv, NEW p \in Goroutines, Accepted(p) \/ Failed(p)
  PROVE  IInv'
<1>1. stack[p] # <<>> /\ Quiet /\ ongoing' = ongoing /\ Top(p).fn # "auth"
  BY DEF Accepted, Failed, At, Quiet, flight, Return, IInv, Outcomes, Results
<1>2. Return(p, "ok") \/ Return(p, "error")
  BY DEF Accepted, Failed
<1> QED
  BY <1>1, <1>2, QuietReturn

(* Only a request on the client that has a ReauthFunc gets here: the user's. *)
LEMMA UnauthorizedKeeps ==
  ASSUME IInv, NEW p \in Goroutines, Unauthorized(p)
  PROVE  IInv'
<1>1. stack[p] # <<>> /\ Quiet /\ ongoing' = ongoing /\ Top(p).fn = "doRequest"
  BY DEF Unauthorized, At, Quiet, flight, Goto, Continue, Return, IInv, Outcomes, Results
<1>2. CASE Return(p, "error")
  BY <1>1, <1>2, QuietReturn
<1>3. CASE Mine(p).hook # 0 /\ Goto(p, "reauthenticate")
  <2>1. PICK g : g = [Top(p) EXCEPT !.at = "reauthenticate"]
    OBVIOUS
  <2>2. g \in FrameT /\ g.client = Top(p).client /\ g.fn = Top(p).fn /\ g.at = "reauthenticate"
    BY <1>1, <2>1, TopOK DEF FrameT
  <2>3. Top(p).client \in 1 .. Len(clients)
    BY <1>1, TopOK DEF FrameOK
  <2>4. Top(p).client = User
    BY <1>3, <2>3 DEF Mine, IInv, ClientsOK, User
  <2>5. g.at # "running" /\ ~Leading(g) /\ FrameOK(g, clients)
    BY <1>1, <1>3, <2>2, <2>3, <2>4 DEF Leading, FrameOK, Mine
  <2>6. LeadsOn(Top(p), g, ongoing, ongoing') /\ Continue(p, g)
    BY <1>1, <1>3, <2>1, <2>5 DEF LeadsOn, Goto
  <2> QED
    BY <1>1, <2>2, <2>5, <2>6, QuietContinue
<1> QED
  BY <1>2, <1>3 DEF Unauthorized

LEMMA EnterKeeps ==
  ASSUME IInv, NEW p \in Goroutines, Enter(p)
  PROVE  IInv'
<1>1. stack[p] # <<>> /\ Top(p).at = "reauthenticate" /\ ongoing \in Nat /\ Len(verdict) \in Nat
  BY DEF Enter, At, IInv, Outcomes
<1>2. FrameOK(Top(p), clients) /\ Top(p) \in FrameT
  BY <1>1, TopOK
<1>3. CASE ongoing # 0
  <2>1. PICK g : g = [Top(p) EXCEPT !.at = "joined", !.future = ongoing]
    OBVIOUS
  <2>2. g \in FrameT /\ g.client = Top(p).client /\ g.fn = Top(p).fn /\ g.at = "joined"
    BY <1>1, <1>2, <2>1 DEF FrameT
  <2>3. g.at # "running" /\ ~Leading(g) /\ FrameOK(g, clients)
    BY <1>1, <1>2, <2>2 DEF FrameOK, Leading, Reauthenticating
  <2>4. Continue(p, g) /\ Quiet /\ ongoing' = ongoing
    BY <1>3, <2>1 DEF Enter, Quiet, flight, IInv, Outcomes, Continue
  <2>5. LeadsOn(Top(p), g, ongoing, ongoing')
    BY <2>3, <2>4 DEF LeadsOn
  <2> QED
    BY <1>1, <2>2, <2>3, <2>4, <2>5, QuietContinue
<1>4. CASE ongoing = 0
  <2>0. PICK n \in Nat : n = Len(verdict) + 1
    BY <1>1
  <2>1. PICK g : g = [Top(p) EXCEPT !.at = "lead", !.future = n]
    OBVIOUS
  <2>2. g \in FrameT /\ g.client = Top(p).client /\ g.fn = Top(p).fn /\ g.at = "lead"
    BY <1>2, <2>1 DEF FrameT
  <2>3. g.at # "running" /\ FrameOK(g, clients)
    BY <1>1, <1>2, <2>2 DEF FrameOK, Leading, Reauthenticating
  <2>4. /\ Continue(p, g) /\ UNCHANGED <<input, clients, tokens>>
        /\ ongoing' = Len(verdict) + 1 /\ verdict' = Append(verdict, "none")
    BY <1>4, <2>0, <2>1 DEF Enter
  <2>5. Quiet
    BY <1>1, <2>4 DEF Quiet, IInv, Outcomes, Continue, Results
  <2>6. LeadsOn(Top(p), g, ongoing, ongoing')
    BY <1>1, <1>4, <2>4 DEF LeadsOn
  <2> QED
    BY <1>1, <2>2, <2>3, <2>4, <2>5, <2>6, QuietContinue
<1> QED
  BY <1>3, <1>4

LEMMA LeadKeeps ==
  ASSUME IInv, NEW p \in Goroutines, Lead(p)
  PROVE  IInv'
<1>1. /\ stack[p] # <<>> /\ Top(p).at = "lead" /\ Leading(Top(p))
      /\ Quiet /\ ongoing' = ongoing
  BY DEF Lead, At, Leading, Quiet, flight, Continue, IInv, Outcomes
<1>2. FrameOK(Top(p), clients) /\ Top(p) \in FrameT
  BY <1>1, TopOK
<1>3. Top(p).client = User /\ Top(p).fn = "doRequest" /\ clients[User].hook \in 2 .. Len(clients)
  BY <1>1, <1>2 DEF FrameOK, Reauthenticating, IInv, ClientsOK
<1>4. CASE Top(p).sent \in {0, Mine(p).token}
  <2>1. PICK f, g : /\ f = [Top(p) EXCEPT !.at = "running", !.tac = Mine(p).hook]
                    /\ g = Auth(Mine(p).hook, "create")
    OBVIOUS
  <2>2. Mine(p).hook \in Nat /\ Mine(p).hook \in 2 .. Len(clients) /\ Mine(p).hook \in 1 .. Len(clients)
    BY <1>3 DEF Mine
  <2>3. /\ f \in FrameT /\ f.client = Top(p).client /\ f.fn = Top(p).fn
        /\ f.at = "running" /\ f.tac = Mine(p).hook
    BY <1>2, <2>1, <2>2 DEF FrameT
  <2>4. g \in FrameT /\ g.client = Mine(p).hook /\ g.fn = "auth" /\ g.at = "create"
    BY <2>1, <2>2 DEF FrameT, Plain, Results, Auth, Frame
  <2>5. ~Reauthenticating(g)
    BY <2>4 DEF Reauthenticating, Leading
  <2>6. FrameOK(f, clients) /\ FrameOK(g, clients)
    BY <1>1, <1>2, <1>3, <2>2, <2>3, <2>4, <2>5 DEF FrameOK, Reauthenticating
  <2>7. stack' = [stack EXCEPT ![p] = Append(Front(stack[p]), f) \o <<g>>] /\ ret' = ret
    BY <1>4, <2>1 DEF Lead, Top
  <2> QED
    BY <1>1, <1>3, <2>3, <2>4, <2>5, <2>6, <2>7, QuietCall
<1>5. CASE Top(p).sent \notin {0, Mine(p).token}
  <2>1. PICK g : g = [Top(p) EXCEPT !.at = "publish", !.err = "ok"]
    OBVIOUS
  <2>2. g \in FrameT /\ g.client = Top(p).client /\ g.fn = Top(p).fn /\ g.at = "publish"
    BY <1>2, <2>1 DEF FrameT, Results
  <2>3. g.at # "running" /\ FrameOK(g, clients)
    BY <1>1, <1>2, <2>2 DEF FrameOK, Leading, Reauthenticating
  <2>4. Continue(p, g) /\ LeadsOn(Top(p), g, ongoing, ongoing')
    BY <1>1, <1>5, <2>1 DEF Lead, LeadsOn
  <2> QED
    BY <1>1, <2>2, <2>3, <2>4, QuietContinue
<1> QED
  BY <1>4, <1>5

LEMMA ReauthenticatedKeeps ==
  ASSUME IInv, NEW p \in Goroutines, stack[p] # <<>>, NEW r, Reauthenticated(p, r), Quiet,
         ongoing' = ongoing \/ Leading(Top(p))
  PROVE  IInv'
<1>1. CASE Return(p, "error")
  BY <1>1, QuietReturn
<1>2. CASE Continue(p, [Top(p) EXCEPT !.at = "headers", !.reauthed = TRUE])
  <2>1. PICK g : g = [Top(p) EXCEPT !.at = "headers", !.reauthed = TRUE]
    OBVIOUS
  <2>2. g \in FrameT /\ g.client = Top(p).client /\ g.fn = Top(p).fn /\ g.at = "headers"
    BY <2>1, TopOK DEF FrameT, Plain
  <2>3. g.at # "running" /\ ~Leading(g) /\ FrameOK(g, clients)
    BY <2>2, TopOK DEF FrameOK, Leading, Reauthenticating
  <2>4. LeadsOn(Top(p), g, ongoing, ongoing') /\ Continue(p, g)
    BY <1>2, <2>1, <2>3 DEF LeadsOn
  <2> QED
    BY <2>2, <2>3, <2>4, QuietContinue
<1> QED
  BY <1>1, <1>2 DEF Reauthenticated

LEMMA PublishKeeps ==
  ASSUME IInv, NEW p \in Goroutines, Publish(p)
  PROVE  IInv'
<1>1. stack[p] # <<>> /\ Top(p).at = "publish" /\ Leading(Top(p))
  BY DEF Publish, At, Leading
<1>2. Top(p).err \in Results
  BY <1>1, TopOK DEF FrameT
<1>3. ret' \in [Goroutines -> Results]
  BY DEF Publish, Reauthenticated, Continue, Return, IInv, Outcomes, Results
<1>4. verdict' \in Seq(Results)
  <2>1. PICK e \in Results : verdict' = [verdict EXCEPT ![ongoing] = e]
    BY <1>2 DEF Publish
  <2>2. verdict \in Seq(Results) /\ verdict = [i \in 1 .. Len(verdict) |-> verdict[i]]
    BY DEF IInv, Outcomes
  <2>3. CASE ongoing \in 1 .. Len(verdict)
    BY <2>1, <2>2, <2>3, ExceptSeq
  <2>4. CASE ongoing \notin 1 .. Len(verdict)
    <3>1. verdict' = verdict
      BY <2>1, <2>2, <2>4
    <3> QED
      BY <2>2, <3>1
  <2> QED
    BY <2>3, <2>4
<1>5. Quiet
  BY <1>3, <1>4 DEF Publish, Quiet, Outcomes
<1> QED
  BY <1>1, <1>5, ReauthenticatedKeeps DEF Publish

LEMMA JoinedKeeps ==
  ASSUME IInv, NEW p \in Goroutines, Joined(p)
  PROVE  IInv'
<1>1. stack[p] # <<>> /\ ongoing' = ongoing
  BY DEF Joined, At, flight
<1>2. Quiet
  BY DEF Joined, Reauthenticated, Continue, Return, flight, Quiet, IInv, Outcomes, Results
<1> QED
  BY <1>1, <1>2, ReauthenticatedKeeps DEF Joined

LEMMA RevokeKeeps ==
  ASSUME IInv, NEW t \in live, Revoke(t)
  PROVE  IInv'
BY DEF Revoke, flight, input, IInv, Stacks, ClientsOK, Tokens, Outcomes, Returned, ReauthTokenIsWhole

-----------------------------------------------------------------------------
(* Moves that change a client's token *)

WithToken(cs, c, x) == [cs EXCEPT ![c].token = x]

LEMMA TokenSet ==
  ASSUME NEW cs \in Seq(ClientT), NEW c \in 1 .. Len(cs), NEW x \in Nat,
         NEW ds, ds = WithToken(cs, c, x)
  PROVE  /\ ds \in Seq(ClientT) /\ Len(ds) = Len(cs) /\ Len(cs) \in Nat
         /\ \A i \in 1 .. Len(cs) :
              /\ ds[i].hook = cs[i].hook /\ ds[i].throwaway = cs[i].throwaway
              /\ ds[i].token = IF i = c THEN x ELSE cs[i].token
<1>1. \A i \in 1 .. Len(cs) : cs[i] \in ClientT
  BY ElementOfSeq
<1>2. PICK d : d = [cs[c] EXCEPT !.token = x]
  OBVIOUS
<1>3. /\ d \in ClientT /\ d.token = x
      /\ d.hook = cs[c].hook /\ d.throwaway = cs[c].throwaway
  BY <1>1, <1>2 DEF ClientT
<1>4. ds = [cs EXCEPT ![c] = d]
  BY <1>2 DEF WithToken
<1>5. ds \in Seq(ClientT) /\ Len(ds) = Len(cs)
  BY <1>3, <1>4
<1>6. \A i \in 1 .. Len(cs) : ds[i] = IF i = c THEN d ELSE cs[i]
  BY <1>4
<1> QED
  BY <1>3, <1>5, <1>6

(* The clients are in order after such a move. *)
LEMMA ClientsStillOK ==
  ASSUME IInv, NEW c \in 1 .. Len(clients), NEW x \in Nat, clients' = [clients EXCEPT ![c].token = x],
         issued' \in Nat, issued <= issued', x <= issued'
  PROVE  ClientsOK' /\ Grow(clients, clients') /\ Len(clients') = Len(clients)
<1>0. /\ clients \in Seq(ClientT) /\ Len(clients) >= 1 /\ issued \in Nat
      /\ \A i \in 1 .. Len(clients) : clients[i].token <= issued
  BY DEF IInv, ClientsOK, Tokens
<1>1. \A i \in 1 .. Len(clients) : clients[i] \in ClientT /\ clients[i].token \in Nat
  <2>1. \A i \in 1 .. Len(clients) : clients[i] \in ClientT
    BY <1>0, ElementOfSeq
  <2> QED
    BY <2>1 DEF ClientT
<1>2. /\ clients' \in Seq(ClientT) /\ Len(clients') = Len(clients) /\ Len(clients) \in Nat
      /\ \A i \in 1 .. Len(clients) :
           /\ clients'[i].hook = clients[i].hook /\ clients'[i].throwaway = clients[i].throwaway
           /\ clients'[i].token = IF i = c THEN x ELSE clients[i].token
  <2>1. PICK cs, ds : cs = clients /\ ds = clients'
    OBVIOUS
  <2>2. cs \in Seq(ClientT) /\ c \in 1 .. Len(cs) /\ x \in Nat /\ ds = WithToken(cs, c, x)
    BY <1>0, <2>1 DEF WithToken
  <2>3. /\ ds \in Seq(ClientT) /\ Len(ds) = Len(cs) /\ Len(cs) \in Nat
        /\ \A i \in 1 .. Len(cs) :
             /\ ds[i].hook = cs[i].hook /\ ds[i].throwaway = cs[i].throwaway
             /\ ds[i].token = IF i = c THEN x ELSE cs[i].token
    BY ONLY <2>2, TokenSet
  <2> QED
    BY <2>1, <2>3
<1>3. \A i \in 1 .. Len(clients) : clients'[i].token <= issued'
  BY <1>0, <1>1, <1>2
<1>4. 1 \in 1 .. Len(clients) /\ \A i \in 2 .. Len(clients) : i \in 1 .. Len(clients)
  BY <1>0, <1>2
<1> QED
  BY <1>0, <1>2, <1>3, <1>4 DEF IInv, ClientsOK, Grow, User

(* Nobody else is about to copy the token that changes. *)
LEMMA OthersKeep ==
  ASSUME IInv, NEW p \in Goroutines, stack[p] # <<>>, NEW x \in Nat,
         clients' = [clients EXCEPT ![Top(p).client].token = x]
  PROVE  SameTokens(stack, p, clients, clients')
<1> SUFFICES ASSUME NEW q \in Goroutines, q # p, stack[q] # <<>>, Last(stack[q]).at = "running"
             PROVE  clients'[Last(stack[q]).tac].token = clients[Last(stack[q]).tac].token
  BY DEF SameTokens
<1>1. Top(p).client = User
  BY NotMine DEF IInv, Stacks, Top
<1>2. Last(stack[q]).tac \in 2 .. Len(clients)
  BY TacIsACopy DEF IInv, Stacks
<1>3. Last(stack[q]).tac # User /\ Last(stack[q]).tac \in 1 .. Len(clients)
  BY <1>2 DEF IInv, ClientsOK, User
<1>4. PICK cs, ds : cs = clients /\ ds = clients'
  OBVIOUS
<1>5. cs \in Seq(ClientT) /\ User \in 1 .. Len(cs)
  BY <1>4 DEF IInv, ClientsOK, User
<1>6. ds = [cs EXCEPT ![User].token = x]
  BY <1>1, <1>4
<1> QED
  BY <1>3, <1>4, <1>5, <1>6, TokenSet DEF WithToken

(* The token that ReauthFunc's closure copies is whole. *)
LEMMA RanKeeps ==
  ASSUME IInv, NEW p \in Goroutines, Ran(p)
  PROVE  IInv'
<1>1. /\ stack[p] # <<>> /\ Top(p).at = "running" /\ Leading(Top(p))
      /\ ongoing' = ongoing /\ verdict' = verdict /\ whole' = whole /\ issued' = issued
      /\ owner' = owner /\ opts' = opts
  BY DEF Ran, At, Leading, flight, tokens, input
<1>2. FrameOK(Top(p), clients) /\ Top(p) \in FrameT /\ Top(p).tac \in 2 .. Len(clients)
  BY <1>1, TopOK DEF FrameOK
<1>3. Top(p).client = User /\ User \in 1 .. Len(clients) /\ Top(p).tac \in 1 .. Len(clients)
  BY <1>1, <1>2 DEF FrameOK, Reauthenticating, IInv, ClientsOK, User
<1>4. PICK x : x = IF ret[p] = "ok" THEN clients[Top(p).tac].token ELSE clients[User].token
  OBVIOUS
<1>5. x \in Nat /\ x <= issued
  <2>1. clients \in Seq(ClientT) /\ \A i \in 1 .. Len(clients) : clients[i].token <= issued
    BY DEF IInv, ClientsOK
  <2>2. clients[Top(p).tac] \in ClientT /\ clients[User] \in ClientT
    BY <1>3, <2>1, ElementOfSeq
  <2> QED
    BY <1>3, <1>4, <2>1, <2>2 DEF ClientT
<1>6. clients' = [clients EXCEPT ![User].token = x]
  <2>1. CASE ret[p] = "ok"
    BY <1>3, <1>4, <2>1 DEF Ran
  <2>2. CASE ret[p] # "ok"
    <3>1. clients' = clients /\ x = clients[User].token
      BY <1>4, <2>2 DEF Ran
    <3>2. clients \in Seq(ClientT) /\ clients[User] \in ClientT
      BY <1>3, ElementOfSeq DEF IInv, ClientsOK
    <3>3. clients[User] = [clients[User] EXCEPT !.token = x]
      BY <3>1, <3>2 DEF ClientT
    <3> QED
      BY <1>3, <3>1, <3>2, <3>3
  <2> QED
    BY <2>1, <2>2
<1>7. ClientsOK' /\ Grow(clients, clients') /\ Len(clients') = Len(clients)
  <2>1. issued' \in Nat /\ issued <= issued' /\ x <= issued'
    BY <1>1, <1>5 DEF IInv, Tokens
  <2> QED
    BY <1>3, <1>5, <1>6, <2>1, ClientsStillOK
<1>8. PICK g : g = [Top(p) EXCEPT !.at = "publish", !.err = ret[p]]
  OBVIOUS
<1>9. g \in FrameT /\ g.client = Top(p).client /\ g.fn = Top(p).fn /\ g.at = "publish"
  BY <1>2, <1>8 DEF FrameT, IInv, Outcomes
<1>10. FrameOK(Top(p), clients')
  BY <1>2, <1>7, StillOK
<1>11. g.at # "running" /\ FrameOK(g, clients')
  BY <1>1, <1>9, <1>10 DEF FrameOK, Reauthenticating, Leading
<1>12. PICK t : t = Append(Front(stack[p]), g)
  OBVIOUS
<1>13. stack' = [stack EXCEPT ![p] = t] /\ ret' = ret
  BY <1>8, <1>12 DEF Ran, Continue
<1>14. StacksOK([stack EXCEPT ![p] = t], clients', ongoing) /\ t # <<>> /\ Last(t) = g
  <2>1. /\ StacksOK(stack, clients, ongoing) /\ LeadsOn(Last(stack[p]), g, ongoing, ongoing)
        /\ g.client = Last(stack[p]).client /\ g.fn = Last(stack[p]).fn
    BY <1>1, <1>9 DEF IInv, Stacks, LeadsOn, Top
  <2> QED
    BY <1>1, <1>7, <1>9, <1>11, <1>12, <2>1, ContinueStep
<1>15. Stacks'
  BY <1>1, <1>13, <1>14 DEF Stacks
<1>16. Returned'
  <2>1. ReturnedOK(stack, ret, clients, whole) /\ stack \in [Goroutines -> Seq(FrameT)]
    BY DEF IInv, Stacks, StacksOK, Returned
  <2>2. SameTokens(stack, p, clients, clients')
    BY <1>1, <1>3, <1>5, <1>6, OthersKeep
  <2>3. Mature(t, ret[p], clients', whole)
    BY <1>11, <1>14 DEF Mature
  <2>4. ReturnedOK([stack EXCEPT ![p] = t], ret, clients', whole)
    BY <2>1, <2>2, <2>3, ReturnedStep
  <2> QED
    BY <1>1, <1>13, <2>4 DEF Returned
<1>17. ReauthTokenIsWhole'
  <2>1. clients'[User].token = x
    BY <1>3, <1>6 DEF IInv, ClientsOK
  <2>2. CASE ret[p] = "ok"
    <3>1. x \in whole
      BY <1>1, <1>4, <2>2 DEF IInv, Returned, ReturnedOK, Mature, Top
    <3> QED
      BY <1>1, <2>1, <3>1 DEF ReauthTokenIsWhole
  <2>3. CASE ret[p] # "ok"
    BY <1>1, <1>4, <2>1, <2>3 DEF IInv, ReauthTokenIsWhole
  <2> QED
    BY <2>2, <2>3
<1>18. Tokens' /\ Outcomes'
  BY <1>1, <1>13 DEF IInv, Tokens, Outcomes
<1> QED
  BY <1>7, <1>15, <1>16, <1>17, <1>18 DEF IInv

(* A token is issued to the client that p authenticates. *)
Issues(p) ==
  /\ issued' = issued + 1 /\ owner' = Append(owner, Top(p).client)
  /\ clients' = [clients EXCEPT ![Top(p).client].token = issued + 1]
  /\ UNCHANGED <<opts, whole>>

LEMMA IssueKeeps ==
  ASSUME IInv, NEW p \in Goroutines, stack[p] # <<>>, Issues(p)
  PROVE  /\ ClientsOK' /\ Tokens' /\ ReauthTokenIsWhole' /\ Grow(clients, clients')
         /\ SameTokens(stack, p, clients, clients')
<1>1. PICK c : c = Top(p).client
  OBVIOUS
<1>2. PICK x \in Nat : x = issued + 1
  BY DEF IInv, Tokens
<1>3. /\ c \in 1 .. Len(clients) /\ c \in Nat /\ clients \in Seq(ClientT) /\ User \in 1 .. Len(clients)
      /\ issued \in Nat /\ owner \in Seq(Nat) /\ Len(owner) = issued
      /\ clients[User].token <= issued
  <2>1. c \in 1 .. Len(clients) /\ c \in Nat
    BY <1>1, TopOK DEF FrameOK, FrameT
  <2>2. User \in 1 .. Len(clients)
    BY DEF IInv, ClientsOK, User
  <2> QED
    BY <2>1, <2>2 DEF IInv, ClientsOK, Tokens
<1>4. clients' = [clients EXCEPT ![c].token = x] /\ issued' = x /\ owner' = Append(owner, c)
  BY <1>1, <1>2 DEF Issues
<1>5. issued' \in Nat /\ issued <= issued' /\ x <= issued'
  BY <1>2, <1>3, <1>4
<1>6. ClientsOK' /\ Grow(clients, clients')
  BY <1>3, <1>4, <1>5, ClientsStillOK
<1>7. owner' \in Seq(Nat) /\ Len(owner') = x /\ owner'[x] = c /\ \A i \in 1 .. issued : owner'[i] = owner[i]
  BY <1>2, <1>3, <1>4
<1>8. Tokens'
  BY <1>4, <1>7 DEF IInv, Tokens, Issues
<1>9. clients'[User].token = IF User = c THEN x ELSE clients[User].token
  BY <1>2, <1>3, <1>4, TokenSet DEF WithToken
<1>10. ReauthTokenIsWhole'
  <2>1. CASE User = c
    BY <1>7, <1>9, <2>1 DEF ReauthTokenIsWhole
  <2>2. CASE User # c
    <3>1. PICK t : t = clients[User].token
      OBVIOUS
    <3>2. t \in Nat
      <4>1. clients[User] \in ClientT
        BY <1>3, ElementOfSeq
      <4> QED
        BY <3>1, <4>1 DEF ClientT
    <3>3. t # 0 => owner'[t] = owner[t]
      BY <1>3, <1>7, <3>1, <3>2
    <3>4. clients'[User].token = t /\ whole' = whole
      BY <1>9, <2>2, <3>1 DEF Issues
    <3>5. t # 0 /\ owner[t] # User => t \in whole
      BY <3>1 DEF IInv, ReauthTokenIsWhole
    <3> QED
      BY <3>3, <3>4, <3>5 DEF ReauthTokenIsWhole
  <2> QED
    BY <2>1, <2>2
<1> QED
  BY <1>1, <1>4, <1>6, <1>8, <1>10, OthersKeep

LEMMA CreateKeeps ==
  ASSUME IInv, NEW p \in Goroutines, Create(p)
  PROVE  IInv'
<1>1. stack[p] # <<>> /\ ongoing' = ongoing /\ verdict' = verdict /\ UNCHANGED input
  BY DEF Create, At, flight
<1>2. CASE Return(p, "error") /\ UNCHANGED <<clients, tokens>>
  <2>1. Quiet
    BY <1>1, <1>2 DEF Quiet, Return, IInv, Outcomes, Results
  <2> QED
    BY <1>1, <1>2, <2>1, QuietReturn
<1>3. CASE Call(p, "store", DoRequest(Top(p).client, "identity")) /\ UNCHANGED <<clients, tokens>>
  <2>1. Quiet /\ "store" \in Plain
    BY <1>1, <1>3 DEF Quiet, Call, IInv, Outcomes, Plain
  <2> QED
    BY <1>1, <1>3, <2>1, QuietSubcall
<1>4. CASE Issues(p) /\ Call(p, "store", DoRequest(Top(p).client, "identity"))
  <2>1. /\ ClientsOK' /\ Tokens' /\ ReauthTokenIsWhole' /\ Grow(clients, clients')
        /\ SameTokens(stack, p, clients, clients')
    BY <1>1, <1>4, IssueKeeps
  <2>2. PICK f, g : f = [Top(p) EXCEPT !.at = "store"] /\ g = DoRequest(Top(p).client, "identity")
    OBVIOUS
  <2>3. Top(p) \in FrameT /\ FrameOK(Top(p), clients')
    BY <1>1, <2>1, TopOK, StillOK
  <2>4. /\ f \in FrameT /\ g \in FrameT /\ FrameOK(f, clients') /\ FrameOK(g, clients')
        /\ f.client = Top(p).client /\ f.fn = Top(p).fn /\ f.at # "running" /\ g.client = Top(p).client
        /\ ~Leading(f) /\ ~Leading(g) /\ g.at # "running"
    <3>1. "store" \in Plain
      BY DEF Plain
    <3> QED
      BY <2>2, <2>3, <3>1, Subcalled
  <2>5. PICK t : t = Called(stack[p], f, g)
    OBVIOUS
  <2>6. stack' = [stack EXCEPT ![p] = t] /\ ret' = ret /\ whole' = whole
    BY <1>4, <2>2, <2>5 DEF Call, Called, Top, Issues
  <2>7. StacksOK([stack EXCEPT ![p] = t], clients', ongoing) /\ t # <<>> /\ Last(t) = g
    <3>1. StacksOK(stack, clients, ongoing) /\ CallsOn(Last(stack[p]), f, g)
      BY <2>4 DEF IInv, Stacks, Top, CallsOn
    <3> QED
      BY <1>1, <2>1, <2>4, <2>5, <3>1, CallStep
  <2>8. Returned'
    <3>1. ReturnedOK(stack, ret, clients, whole) /\ stack \in [Goroutines -> Seq(FrameT)]
      BY DEF IInv, Stacks, StacksOK, Returned
    <3>2. Mature(t, ret[p], clients', whole)
      BY <2>4, <2>7 DEF Mature
    <3>3. ReturnedOK([stack EXCEPT ![p] = t], ret, clients', whole)
      BY <2>1, <3>1, <3>2, ReturnedStep
    <3> QED
      BY <2>6, <3>3 DEF Returned
  <2>9. Stacks' /\ Outcomes'
    BY <1>1, <2>6, <2>7 DEF Stacks, IInv, Outcomes
  <2> QED
    BY <2>1, <2>8, <2>9 DEF IInv
<1>5. Issues(p) <=> /\ issued' = issued + 1 /\ owner' = Append(owner, Top(p).client)
                    /\ clients' = [clients EXCEPT ![Top(p).client].token = issued + 1]
                    /\ opts' = opts /\ whole' = whole
  BY DEF Issues
<1> QED
  BY <1>1, <1>2, <1>3, <1>4, <1>5 DEF Create, input

LEMMA StoreKeeps ==
  ASSUME IInv, NEW p \in Goroutines, Store(p)
  PROVE  IInv'
<1>1. stack[p] # <<>> /\ ongoing' = ongoing /\ verdict' = verdict /\ UNCHANGED input
  BY DEF Store, At, flight
<1>2. CASE Return(p, "error") /\ UNCHANGED <<clients, tokens>>
  <2>1. Quiet
    BY <1>1, <1>2 DEF Quiet, Return, IInv, Outcomes, Results
  <2> QED
    BY <1>1, <1>2, <2>1, QuietReturn
<1>3. CASE Goto(p, "install") /\ UNCHANGED <<clients, tokens>>
  <2>1. Quiet /\ "install" \in Plain
    BY <1>1, <1>3 DEF Quiet, Goto, Continue, IInv, Outcomes, Plain
  <2> QED
    BY <1>1, <1>3, <2>1, QuietGoto
<1>4. CASE Issues(p) /\ Goto(p, "install")
  <2>1. /\ ClientsOK' /\ Tokens' /\ ReauthTokenIsWhole' /\ Grow(clients, clients')
        /\ SameTokens(stack, p, clients, clients')
    BY <1>1, <1>4, IssueKeeps
  <2>2. PICK g : g = [Top(p) EXCEPT !.at = "install"]
    OBVIOUS
  <2>3. Top(p) \in FrameT /\ FrameOK(Top(p), clients')
    BY <1>1, <2>1, TopOK, StillOK
  <2>4. /\ g \in FrameT /\ FrameOK(g, clients') /\ g.client = Top(p).client /\ g.fn = Top(p).fn
        /\ g.at # "running" /\ ~Leading(g)
    <3>1. "install" \in Plain
      BY DEF Plain
    <3> QED
      BY <2>2, <2>3, <3>1, Subcalled
  <2>5. PICK t : t = Append(Front(stack[p]), g)
    OBVIOUS
  <2>6. stack' = [stack EXCEPT ![p] = t] /\ ret' = ret /\ whole' = whole
    BY <1>4, <2>2, <2>5 DEF Goto, Continue, Issues
  <2>7. StacksOK([stack EXCEPT ![p] = t], clients', ongoing) /\ t # <<>> /\ Last(t) = g
    <3>1. /\ StacksOK(stack, clients, ongoing) /\ LeadsOn(Last(stack[p]), g, ongoing, ongoing)
          /\ g.client = Last(stack[p]).client /\ g.fn = Last(stack[p]).fn
      BY <2>4 DEF IInv, Stacks, Top, LeadsOn
    <3> QED
      BY <1>1, <2>1, <2>4, <2>5, <3>1, ContinueStep
  <2>8. Returned'
    <3>1. ReturnedOK(stack, ret, clients, whole) /\ stack \in [Goroutines -> Seq(FrameT)]
      BY DEF IInv, Stacks, StacksOK, Returned
    <3>2. Mature(t, ret[p], clients', whole)
      BY <2>4, <2>7 DEF Mature
    <3>3. ReturnedOK([stack EXCEPT ![p] = t], ret, clients', whole)
      BY <2>1, <3>1, <3>2, ReturnedStep
    <3> QED
      BY <2>6, <3>3 DEF Returned
  <2>9. Stacks' /\ Outcomes'
    BY <1>1, <2>6, <2>7 DEF Stacks, IInv, Outcomes
  <2> QED
    BY <2>1, <2>8, <2>9 DEF IInv
<1>5. Issues(p) <=> /\ issued' = issued + 1 /\ owner' = Append(owner, Top(p).client)
                    /\ clients' = [clients EXCEPT ![Top(p).client].token = issued + 1]
                    /\ opts' = opts /\ whole' = whole
  BY DEF Issues
<1> QED
  BY <1>1, <1>2, <1>3, <1>4, <1>5 DEF Store, input

(* Only the user's client gets a ReauthFunc, and a new throw-away copy.     *)
LEMMA InstallKeeps ==
  ASSUME IInv, opts.builder # "custom", NEW p \in Goroutines, Install(p)
  PROVE  IInv'
<1>1. /\ stack[p] # <<>> /\ Top(p).at = "install" /\ ongoing' = ongoing /\ verdict' = verdict
      /\ UNCHANGED <<input, issued, live, owner>>
  BY DEF Install, At, flight
<1>2. CASE Return(p, "error") /\ UNCHANGED <<clients, whole>>
  <2>1. Quiet
    BY <1>1, <1>2 DEF Quiet, Return, IInv, Outcomes, Results, tokens
  <2> QED
    BY <1>1, <1>2, <2>1, QuietReturn
<1>3. CASE /\ whole' = whole \cup {Mine(p).token}
           /\ clients' = IF CanReauth(Top(p).client)
                THEN Append([clients EXCEPT ![Top(p).client].hook = Len(clients) + 1], Client(0, TRUE))
                ELSE clients
           /\ Return(p, "ok")
  <2>1. Top(p).client \in 1 .. Len(clients)
    BY <1>1, TopOK DEF FrameOK
  <2>2. /\ clients \in Seq(ClientT) /\ Len(clients) \in Nat /\ Len(clients) >= 1 /\ User \in 1 .. Len(clients)
        /\ issued \in Nat /\ \A i \in 1 .. Len(clients) : clients[i].token <= issued
    BY DEF IInv, ClientsOK, Tokens, User
  <2>3. /\ ClientsOK' /\ Grow(clients, clients')
        /\ \A i \in 1 .. Len(clients) : clients'[i].token = clients[i].token
    <3>1. CASE ~CanReauth(Top(p).client)
      <4>1. clients' = clients
        BY <1>3, <3>1
      <4> QED
        BY <1>1, <4>1 DEF IInv, ClientsOK, Grow
    <3>2. CASE CanReauth(Top(p).client)
      <4>1. Top(p).client = User
        BY <2>1, <3>2 DEF CanReauth, IInv, ClientsOK, User
      <4>2. PICK d : d = [clients[User] EXCEPT !.hook = Len(clients) + 1]
        OBVIOUS
      <4>3. clients[User] \in ClientT
        BY <2>2, ElementOfSeq
      <4>4. /\ d \in ClientT /\ d.hook = Len(clients) + 1
            /\ d.token = clients[User].token /\ d.throwaway = clients[User].throwaway
        <5>1. PICK e \in ClientT, n \in Nat : e = clients[User] /\ n = Len(clients) + 1
          BY <2>2, <4>3
        <5>2. d = [e EXCEPT !.hook = n]
          BY <4>2, <5>1
        <5>3. d \in ClientT /\ d.hook = n /\ d.token = e.token /\ d.throwaway = e.throwaway
          BY ONLY e \in ClientT, n \in Nat, <5>2 DEF ClientT
        <5> QED
          BY <5>1, <5>3
      <4>5. PICK cs : cs = [clients EXCEPT ![User] = d]
        OBVIOUS
      <4>6. /\ cs \in Seq(ClientT) /\ Len(cs) = Len(clients)
            /\ \A i \in 1 .. Len(clients) : cs[i] = IF i = User THEN d ELSE clients[i]
        BY <2>2, <4>4, <4>5, ExceptSeq
      <4>7. PICK e : e = Client(0, TRUE)
        OBVIOUS
      <4>8. e \in ClientT /\ e.token = 0 /\ e.hook = 0 /\ e.throwaway
        BY <4>7 DEF Client, ClientT
      <4>9. clients' = Append(cs, e)
        BY <1>3, <3>2, <4>1, <4>2, <4>5, <4>7
      <4>10. /\ Append(cs, e) \in Seq(ClientT) /\ Len(Append(cs, e)) = Len(cs) + 1
             /\ \A i \in 1 .. Len(cs) : Append(cs, e)[i] = cs[i]
             /\ Append(cs, e)[Len(cs) + 1] = e
        BY <4>6, <4>8, AppendProperties
      <4>11. PICK n \in Nat : n = Len(clients)
        BY <2>2
      <4>12. /\ clients' \in Seq(ClientT) /\ Len(clients') = n + 1 /\ clients'[n + 1] = e
             /\ \A i \in 1 .. n : clients'[i] = IF i = User THEN d ELSE clients[i]
        BY <4>6, <4>9, <4>10, <4>11
      <4>13. n >= 1 /\ User \in 1 .. n /\ \A i \in 2 .. n : i # User /\ i \in 1 .. n
        BY <2>2, <4>11 DEF User
      <4>14. \A i \in 1 .. n : clients'[i].token = clients[i].token
        BY <4>4, <4>12
      <4>15. /\ ~clients'[User].throwaway /\ clients'[User].hook = n + 1
             /\ \A i \in 2 .. n + 1 : clients'[i].throwaway /\ clients'[i].hook = 0
             /\ \A i \in 1 .. n + 1 : clients'[i].token <= issued
        <5>1. /\ ~clients[User].throwaway
              /\ \A i \in 2 .. n : clients[i].throwaway /\ clients[i].hook = 0
          BY <4>11 DEF IInv, ClientsOK
        <5>2. \A i \in 1 .. n + 1 : i \in 1 .. n \/ i = n + 1
          OBVIOUS
        <5>3. \A i \in 2 .. n + 1 : i \in 2 .. n \/ i = n + 1
          OBVIOUS
        <5>4. \A i \in 2 .. n : clients'[i] = clients[i]
          BY <4>12, <4>13
        <5>5. \A i \in 1 .. n : clients'[i].token <= issued
          BY <2>2, <4>11, <4>14
        <5>6. e.token <= issued
          BY <2>2, <4>8
        <5> QED
          BY <4>4, <4>8, <4>11, <4>12, <4>13, <5>1, <5>2, <5>3, <5>4, <5>5, <5>6
      <4> QED
        BY <1>1, <4>11, <4>12, <4>13, <4>14, <4>15 DEF ClientsOK, Grow
    <3> QED
      BY <3>1, <3>2
  <2>4. PICK t : t = Front(stack[p])
    OBVIOUS
  <2>5. /\ StacksOK([stack EXCEPT ![p] = t], clients', ongoing)
        /\ t # <<>> /\ Last(t).at = "running" => Top(p).client = Last(t).tac
    BY <1>1, <2>3, <2>4, ReturnStep DEF IInv, Stacks, Top
  <2>6. stack' = [stack EXCEPT ![p] = t] /\ ret' = [ret EXCEPT ![p] = "ok"]
    BY <1>3, <2>4 DEF Return
  <2>7. Stacks'
    BY <1>1, <2>5, <2>6 DEF Stacks
  <2>8. Returned'
    <3>1. ReturnedOK(stack, ret, clients, whole) /\ stack \in [Goroutines -> Seq(FrameT)]
      BY DEF IInv, Stacks, StacksOK, Returned
    <3>2. SameTokens(stack, p, clients, clients')
      <4>1. \A q \in Goroutines : stack[q] # <<>> /\ Last(stack[q]).at = "running" =>
              Last(stack[q]).tac \in 2 .. Len(clients)
        BY TacIsACopy DEF IInv, Stacks
      <4>2. \A i \in 2 .. Len(clients) : i \in 1 .. Len(clients)
        BY <2>2
      <4> QED
        BY <2>3, <4>1, <4>2 DEF SameTokens
    <3>3. Mature(t, ret'[p], clients', whole')
      BY <1>3, <2>1, <2>3, <2>5 DEF Mine, Mature
    <3>4. whole \subseteq whole' /\ \A q \in Goroutines : q # p => ret'[q] = ret[q]
      BY <1>3, <2>6 DEF IInv, Outcomes
    <3>5. ReturnedOK([stack EXCEPT ![p] = t], ret', clients', whole')
      BY <3>1, <3>2, <3>3, <3>4, ReturnedStep
    <3> QED
      BY <2>6, <3>5 DEF Returned
  <2>9. Tokens' /\ Outcomes'
    BY <1>1, <2>6 DEF IInv, Tokens, Outcomes, input, Results
  <2>10. ReauthTokenIsWhole'
    BY <1>1, <1>3, <2>2, <2>3 DEF IInv, ReauthTokenIsWhole
  <2> QED
    BY <2>3, <2>7, <2>8, <2>9, <2>10 DEF IInv
<1> QED
  BY <1>2, <1>3 DEF Install

-----------------------------------------------------------------------------
(* The theorems *)

LEMMA Initially ==
  ASSUME Init
  PROVE  IInv
<1>1. PICK c : c = Client(0, FALSE)
  OBVIOUS
<1>2. c \in ClientT /\ c.token = 0 /\ c.hook = 0 /\ ~c.throwaway
  BY <1>1 DEF Client, ClientT
<1>3. clients \in Seq(ClientT) /\ Len(clients) = 1 /\ clients[1] = c
  <2>1. clients = <<c>>
    BY <1>1, Zenon DEF Init
  <2> QED
    BY <1>2, <2>1
<1>4. \A p \in Goroutines : stack[p] = <<>>
  BY DEF Init
<1>5. \A p \in Goroutines : StackOK(stack[p], clients) /\ Leads(stack[p]) = {}
  BY <1>4 DEF StackOK, FramesOK, Above, Borrowed, Leads
<1>6. Stacks
  <2>1. stack \in [Goroutines -> Seq(FrameT)]
    BY DEF Init
  <2>2. OneLeads(stack, ongoing)
    BY <1>5, Zenon DEF OneLeads
  <2> QED
    BY <1>5, <2>1, <2>2 DEF Stacks, StacksOK
<1>7. ClientsOK /\ ReauthTokenIsWhole
  <2>1. issued = 0
    BY DEF Init
  <2>2. (\A i \in 1 .. Len(clients) : i = 1) /\ 2 .. Len(clients) = {}
    BY <1>3
  <2> QED
    BY <1>2, <1>3, <2>1, <2>2 DEF ClientsOK, ReauthTokenIsWhole, User
<1>8. Returned
  BY <1>4 DEF Returned, ReturnedOK, Mature
<1>9. Tokens /\ Outcomes
  BY DEF Init, Tokens, Outcomes, Results
<1> QED
  BY <1>6, <1>7, <1>8, <1>9 DEF IInv

LEMMA StepKeeps ==
  ASSUME KnownBuilders, IInv, [Next]_vars
  PROVE  IInv'
<1>1. opts.builder # "custom"
  BY DEF KnownBuilders, IInv, Tokens
<1>2. CASE UNCHANGED vars
  BY <1>2 DEF vars, IInv, Stacks, ClientsOK, Tokens, Outcomes, Returned, ReauthTokenIsWhole
<1>3. CASE Finished
  BY <1>2, <1>3 DEF Finished
<1>4. CASE \E t \in live : Revoke(t)
  BY <1>4, RevokeKeeps
<1>5. ASSUME NEW p \in Goroutines, Start(p) \/ Step(p)
      PROVE  IInv'
  <2>1. CASE Start(p)
    BY <2>1, StartKeeps
  <2>2. CASE Choose(p) \/ Chosen(p)
    BY <2>2, ChooseKeeps, ChosenKeeps
  <2>3. CASE Create(p) \/ Store(p) \/ Install(p)
    BY <1>1, <2>3, CreateKeeps, StoreKeeps, InstallKeeps
  <2>4. CASE Headers(p) \/ Held(p) \/ Send(p)
    BY <2>4, HeadersKeeps, HeldKeeps, SendKeeps
  <2>5. CASE Accepted(p) \/ Failed(p) \/ Unauthorized(p)
    BY <2>5, AnswerKeeps, UnauthorizedKeeps
  <2>6. CASE Enter(p) \/ Lead(p) \/ Ran(p)
    BY <2>6, EnterKeeps, LeadKeeps, RanKeeps
  <2>7. CASE Publish(p) \/ Joined(p)
    BY <2>7, PublishKeeps, JoinedKeeps
  <2> QED
    BY <1>5, <2>1, <2>2, <2>3, <2>4, <2>5, <2>6, <2>7 DEF Step
<1> QED
  BY <1>2, <1>3, <1>4, <1>5 DEF Next

(* What the invariant says of frames, clients and tokens always holds when  *)
(* v3auth knows the type of the options.                                    *)
THEOREM AlwaysIInv == ASSUME KnownBuilders PROVE Spec => []IInv
<1>1. Init => IInv
  BY Initially
<1>2. IInv /\ [Next]_vars => IInv'
  BY StepKeeps
<1> QED
  BY <1>1, <1>2, PTL DEF Spec

(* The comment of v2auth and v3auth: an authentication is tried once.  What *)
(* ReauthFunc calls works on a throw-away client, and only the user's       *)
(* client gets into Reauthenticate.                                         *)
THEOREM TriedOnce == ASSUME KnownBuilders PROVE Spec => []AuthenticationTriedOnce
<1>1. ASSUME IInv
      PROVE  AuthenticationTriedOnce
  <2> SUFFICES ASSUME NEW p \in Goroutines, NEW i \in 1 .. Len(stack[p]), NEW j \in 1 .. Len(stack[p]),
                      i < j, stack[p][i].at = "running"
               PROVE  stack[p][j].at \notin {"reauthenticate", "joined", "lead"}
    BY DEF AuthenticationTriedOnce
  <2>1. StackOK(stack[p], clients)
    BY <1>1 DEF IInv, Stacks, StacksOK
  <2>2. stack[p][j].client = stack[p][i].tac
    BY <2>1 DEF StackOK, Above
  <2>3. stack[p][i].tac # User
    BY <2>1, <1>1 DEF StackOK, FramesOK, FrameOK, IInv, ClientsOK, User
  <2>4. Reauthenticating(stack[p][j]) => stack[p][j].client = User
    BY <2>1 DEF StackOK, FramesOK, FrameOK
  <2> QED
    BY <2>2, <2>3, <2>4 DEF Reauthenticating, Leading
<1> QED
  BY <1>1, AlwaysIInv, PTL

(* A throw-away client is used by one run of ReauthFunc at a time: there is *)
(* one leader at a time.                                                    *)
THEOREM Exclusive == ASSUME KnownBuilders PROVE Spec => []ThrowawayIsExclusive
<1>1. ASSUME IInv
      PROVE  ThrowawayIsExclusive
  <2> SUFFICES ASSUME NEW p \in Goroutines, NEW q \in Goroutines,
                      NEW i \in 1 .. Len(stack[p]), NEW j \in 1 .. Len(stack[q]),
                      stack[p][i].at = "running", stack[q][j].at = "running"
               PROVE  p = q
    BY DEF ThrowawayIsExclusive, Frames
  <2>1. i \in Leads(stack[p]) /\ j \in Leads(stack[q])
    BY DEF Leads, Leading
  <2> QED
    BY <1>1, <2>1, Zenon DEF IInv, Stacks, StacksOK, OneLeads
<1> QED
  BY <1>1, AlwaysIInv, PTL

(* The user's client has a token of a throw-away client only when the       *)
(* authentication that got it has succeeded to the end.                     *)
THEOREM TokenIsWhole == ASSUME KnownBuilders PROVE Spec => []ReauthTokenIsWhole
<1>1. IInv => ReauthTokenIsWhole
  BY DEF IInv
<1> QED
  BY <1>1, AlwaysIInv, PTL
=============================================================================
