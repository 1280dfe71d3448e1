-------------------------- MODULE StackFilesProofs --------------------------
(***************************************************************************)
(* Theorems about StackFiles for any documents, at any URLs, however often *)
(* the options are used and whatever becomes of the files in between.      *)
(***************************************************************************)
EXTENDS StackFiles, SequenceTheorems, TLAPS

IsWorld(world) == \A u \in URLs : Document(world[u])

(* What a reference to u leads to, and what is uploaded for it. *)
Needs(walk, world, u) == IF walk = "template" THEN LedTo(world, {u}) ELSE {u}
As(walk, world, u) == IF walk = "template" THEN Uploaded(world, u) ELSE world[u]
Given(walk, world, files, u) ==
  \A x \in Needs(walk, world, u) : x \in DOMAIN files /\ files[x] = As(walk, world, x)

(* All of files is needed for a reference in the document. *)
Own(walk, maps, dir, world, files) ==
  \A u \in DOMAIN files :
    /\ files[u] = As(walk, world, u)
    /\ \E v \in Named(walk, maps, dir) : u \in Needs(walk, world, v)

(* A document as it is now: some of its references have become URLs, which  *)
(* are among the ones in held.                                              *)
Partly(walk, maps, now, dir, held) ==
  /\ now = [m \in DOMAIN maps |-> [k \in DOMAIN maps[m] |-> now[m][k]]]
  /\ \A m \in DOMAIN maps : \A k \in DOMAIN maps[m] :
       now[m][k] # maps[m][k] =>
         /\ <<m, k>> \in Places(walk, maps)
         /\ now[m][k] = Str(Resolve(dir, maps[m][k].to))
         /\ Resolve(dir, maps[m][k].to) \in held

-----------------------------------------------------------------------------
(* A frame of the recursion. *)
IsSeq(s) == s \in Seq(Range(s))
IsFrame(f) == f = [te |-> f.te, parsed |-> f.parsed, open |-> f.open, key |-> f.key]
IsTE(te) == te = [url |-> te.url, bin |-> te.bin, files |-> te.files]
IsDoc(d) == d = [kind |-> d.kind, maps |-> d.maps]
Opened(maps) ==
  [map : DOMAIN maps, left : SUBSET UNION {DOMAIN maps[m] : m \in DOMAIN maps}, updated : BOOLEAN]
Shape(f, maps) == IsFrame(f) /\ IsTE(f.te) /\ IsDoc(f.te.bin) /\ f.open \in Seq(Opened(maps))

(* The place <<m, k>> is still to come: it is left in a map that is open, or *)
(* in one that is nested in what is left.                                   *)
PendingAt(o, maps, m, k) ==
  \E j \in o.left :
    \/ m = o.map /\ k = j
    \/ /\ maps[o.map][j].is \in {"map", "list"}
       /\ m \in Reached(Kids(maps), {maps[o.map][j].to})
Pending(open, maps, m, k) == \E i \in 1..Len(open) : PendingAt(open[i], maps, m, k)

Held(walk, files) == IF walk = "template" THEN DOMAIN files ELSE URLs
Replaced(f, walk, maps, dir, world, m, k) ==
  /\ f.parsed[m][k] = Str(Resolve(dir, maps[m][k].to))
  /\ Given(walk, world, f.te.files, Resolve(dir, maps[m][k].to))

OpenOK(open, walk, maps) ==
  \A i \in 1..Len(open) : /\ open[i].map \in Walked(walk, maps)
                          /\ open[i].left \subseteq DOMAIN maps[open[i].map]
FrameOK(f, walk, maps, dir, world) ==
  /\ Shape(f, maps)
  /\ OpenOK(f.open, walk, maps)
  /\ Partly(walk, maps, f.parsed, dir, Held(walk, f.te.files))
  /\ \A p \in Places(walk, maps) :
       Pending(f.open, maps, p[1], p[2]) \/ Replaced(f, walk, maps, dir, world, p[1], p[2])

(* What has been rendered is what has been replaced, but for maps that are  *)
(* still open.                                                              *)
SomeUpdated(open) == \E i \in 1..Len(open) : open[i].updated
Rendered(f, maps, dir) ==
  /\ Partly("template", maps, f.te.bin.maps, dir, DOMAIN f.te.files)
  /\ f.te.bin.maps = f.parsed \/ SomeUpdated(f.open)

-----------------------------------------------------------------------------
(* The walk through the template: doc is the caller's, and the others are   *)
(* in the world.  If fresh, this is the first call.                         *)
TemplateFrame(f, doc, world, fresh) ==
  /\ doc.kind \in {"template", "map"} /\ WellFormed(doc.maps)
  /\ f.te.url \in URLs \cup {""}
  /\ f.te.bin.kind = doc.kind
  /\ FrameOK(f, "template", doc.maps, Base(f.te.url), world)
  /\ Rendered(f, doc.maps, Base(f.te.url))
  /\ fresh => Own("template", doc.maps, Base(f.te.url), world, f.te.files)

Source(s, i, doc, world) == IF i = 1 THEN doc ELSE world[s[i].te.url]

(* A child is there for a reference in the map that its parent has open. *)
ChildOf(f, doc, world, url, key) ==
  LET o == Last(f.open)
  IN  /\ url \in URLs /\ world[url].kind = "template"
      /\ f.open # <<>> /\ key \in o.left
      /\ <<o.map, key>> \in Places("template", doc.maps)
      /\ url = Resolve(Base(f.te.url), doc.maps[o.map][key].to)

Stacked(s, doc, world, fresh) ==
  /\ IsSeq(s) /\ s # <<>>
  /\ \A i \in 1..Len(s) : TemplateFrame(s[i], Source(s, i, doc, world), world, i > 1 \/ fresh)
  /\ \A i \in 2..Len(s) :
       ChildOf(s[i - 1], Source(s, i - 1, doc, world), world, s[i].te.url, s[i].key)

TemplateInv ==
  pc = "template" =>
    /\ Stacked(stack, original.template, content, calls = 1)
    /\ stack[1].te.url = tmpl.url

-----------------------------------------------------------------------------
(* The walk through the environment, which is left as it was, in now, until *)
(* the end.                                                                 *)
EnvironmentFrame(f, maps, now, world) ==
  /\ f.te.url = ""
  /\ FrameOK(f, "environment", maps, Cwd, world)
  /\ Own("environment", maps, Cwd, world, f.te.files)
  /\ now = f.parsed \/ f.te.files # <<>>

EnvironmentInv ==
  pc \in {"registry", "resources"} =>
    LET maps == original.environment.maps
    IN  /\ IsSeq(stack) /\ Len(stack) = 1
        /\ Parses(env) /\ Registry(maps).is = "map"
        /\ EnvironmentFrame(stack[1], maps, env.bin.maps, content)
        /\ todo \subseteq Walked("environment", maps)

-----------------------------------------------------------------------------
(* The options: of te it is known what has been made of doc. *)
Options(walk, te, doc, dir, held) ==
  /\ IsTE(te)
  /\ (te.bin = NoDoc) <=> (doc = NoDoc)
  /\ te.bin = NoDoc => te.url \in Refs /\ te.files = <<>>
  /\ te.bin # NoDoc => /\ IsDoc(te.bin) /\ te.bin.kind = doc.kind
                       /\ te.url \in URLs \cup {""}
                       /\ Document(doc)
  /\ Parses(te) => Partly(walk, doc.maps, te.bin.maps, dir, held)

NoResources(e, doc) == Parses(e) /\ Registry(doc.maps).is # "map" => e.files = <<>>
OptionsInv ==
  /\ original = [template |-> original.template, environment |-> original.environment]
  /\ Options("template", tmpl, original.template, Base(tmpl.url), DOMAIN tmpl.files)
  /\ Options("environment", env, original.environment, Cwd, URLs)
  /\ NoResources(env, original.environment)
  /\ calls = 0 => tmpl.files = <<>>

(* After doc has been walked. *)
IsWhole(walk, te, doc, dir, world, fresh) ==
  /\ WellFormed(doc.maps)
  /\ te.bin = Resolved(walk, doc, dir)
  /\ \A v \in Named(walk, doc.maps, dir) : Given(walk, world, te.files, v)
  /\ fresh => Own(walk, doc.maps, dir, world, te.files)

TemplateIsWhole ==
  /\ tmpl.url \in URLs \cup {""}
  /\ IsWhole("template", tmpl, original.template, Base(tmpl.url), content, calls = 1)

(* What is uploaded, base_url and files named twice included. *)
Complete(up, world, with, orig, dir, fresh) ==
  LET led   == IF "template" \in with THEN LedTo(world, Named("template", orig.template.maps, dir)) ELSE {}
      named == IF "environment" \in with THEN Named("environment", orig.environment.maps, Cwd) ELSE {}
  IN  /\ "template" \in with => up.template = Resolved("template", orig.template, dir)
      /\ "environment" \in with => up.environment = Resolved("environment", orig.environment, Cwd)
      /\ led \cup named \subseteq DOMAIN up.files
      /\ \A u \in named : up.files[u] = world[u]
      /\ \A u \in led \ named : up.files[u] = Uploaded(world, u)
      /\ fresh => DOMAIN up.files = led \cup named

UploadInv ==
  upload.outcome = "ok" => Complete(upload, content, parts, original, Base(tmpl.url), calls = 1)

Pcs == {"idle", "template", "environment", "registry", "resources", "panicked"}
ControlInv ==
  /\ pc \in Pcs /\ calls \in Nat
  /\ IsWorld(content)
  /\ pc \in {"idle", "environment", "panicked"} => stack = <<>>
  /\ pc # "resources" => todo = {}
  /\ pc # "idle" => calls > 0 /\ upload.outcome = "none"
  /\ pc = "template" => "template" \in parts
  /\ pc \in {"environment", "registry", "resources"} =>
       "environment" \in parts /\ ("template" \in parts => TemplateIsWhole)

IInv == ControlInv /\ OptionsInv /\ TemplateInv /\ EnvironmentInv /\ UploadInv

-----------------------------------------------------------------------------
(* What can be reached. *)
LEMMA ReachedIn ==
  ASSUME NEW next, NEW start PROVE Reached(next, start) \subseteq DOMAIN next
  BY DEF Reached

LEMMA ReachedStart ==
  ASSUME NEW next, NEW start, NEW x \in start, x \in DOMAIN next
  PROVE  x \in Reached(next, start)
  BY DEF Reached

LEMMA ReachedStep ==
  ASSUME NEW next, NEW start, NEW x \in Reached(next, start), NEW y \in next[x], y \in DOMAIN next
  PROVE  y \in Reached(next, start)
  BY DEF Reached

LEMMA ReachedLeast ==
  ASSUME NEW next, NEW start, NEW S \in SUBSET DOMAIN next, start \subseteq S,
         \A y \in S : next[y] \subseteq S
  PROVE  Reached(next, start) \subseteq S
  BY DEF Reached

Inside(next) == \A x \in DOMAIN next : next[x] \subseteq DOMAIN next

LEMMA ReachedMore ==
  ASSUME NEW next, Inside(next), NEW start, NEW more, start \subseteq Reached(next, more)
  PROVE  Reached(next, start) \subseteq Reached(next, more)
<1>1. Reached(next, more) \in SUBSET DOMAIN next
  BY ReachedIn
<1>2. \A y \in Reached(next, more) : next[y] \subseteq Reached(next, more)
  BY <1>1, ReachedStep DEF Inside
<1> QED
  BY <1>1, <1>2, ReachedLeast

LEMMA ReachedFromOne ==
  ASSUME NEW next, Inside(next), NEW start \in SUBSET DOMAIN next, NEW u \in Reached(next, start)
  PROVE  \E x \in start : u \in Reached(next, {x})
<1> DEFINE S == {v \in DOMAIN next : \E x \in start : v \in Reached(next, {x})}
<1>1. start \subseteq S
  BY ReachedStart
<1>2. ASSUME NEW y \in S PROVE next[y] \subseteq S
  BY <1>2, ReachedStep DEF Inside
<1>3. S \in SUBSET DOMAIN next
  OBVIOUS
<1> HIDE DEF S
<1>4. Reached(next, start) \subseteq S
  BY <1>1, <1>2, <1>3, ReachedLeast
<1> QED
  BY <1>4 DEF S

LEMMA ReachedNext ==
  ASSUME NEW next, Inside(next), NEW x \in DOMAIN next, NEW u \in Reached(next, {x})
  PROVE  u = x \/ \E y \in next[x] : u \in Reached(next, {y})
<1> DEFINE S == {x} \cup {v \in DOMAIN next : \E y \in next[x] : v \in Reached(next, {y})}
<1>1. ASSUME NEW v \in S PROVE next[v] \subseteq S
  <2>1. CASE v = x
    BY <2>1, ReachedStart DEF Inside
  <2>2. CASE v # x
    BY <2>2, ReachedStep DEF Inside
  <2> QED
    BY <2>1, <2>2
<1>2. S \in SUBSET DOMAIN next /\ {x} \subseteq S
  OBVIOUS
<1> HIDE DEF S
<1>3. Reached(next, {x}) \subseteq S
  BY <1>1, <1>2, ReachedLeast
<1> QED
  BY <1>3 DEF S

-----------------------------------------------------------------------------
(* References and documents. *)
Walks == {"template", "environment"}

LEMMA Resolving ==
  ASSUME NEW dir \in Dirs, NEW r \in Refs
  PROVE  /\ Resolve(dir, r) \in URLs /\ Resolve(dir, r) \in Refs
         /\ r \in URLs => Resolve(dir, r) = r
         /\ r \in TemplateNames => Resolve(dir, r) \in TemplateNames
  BY StackFilesAssumption DEF Resolve, Refs

LEMMA BaseIsADir ==
  ASSUME NEW url \in URLs \cup {""} PROVE Base(url) \in Dirs /\ (url # "" => Base(url) = DirOf[url])
  BY StackFilesAssumption DEF Base

LEMMA ReferencesAreRefs ==
  ASSUME NEW maps, WellFormed(maps), NEW m \in DOMAIN maps, NEW k \in DOMAIN maps[m],
         NEW walk \in Walks, Refers(walk, k, maps[m][k]), NEW dir \in Dirs
  PROVE  /\ maps[m][k].is = "string" /\ maps[m][k].to \in Refs
         /\ maps[m][k] = Str(maps[m][k].to)
         /\ Refers(walk, k, Str(Resolve(dir, maps[m][k].to)))
<1>1. maps[m][k].is = "string" /\ maps[m][k].to \in Refs
  BY StackFilesAssumption DEF WellFormed, Refers, RefersInTemplate, RefersInEnvironment
<1>2. maps[m][k] = Str(maps[m][k].to)
  BY <1>1 DEF WellFormed, IsValue, Str
<1>3. Str(Resolve(dir, maps[m][k].to)).is = "string"
      /\ Str(Resolve(dir, maps[m][k].to)).to = Resolve(dir, maps[m][k].to)
  BY DEF Str
<1> QED
  BY <1>1, <1>2, <1>3, Resolving DEF Refers, RefersInTemplate, RefersInEnvironment

LEMMA KidsAre ==
  ASSUME NEW maps, WellFormed(maps)
  PROVE  /\ DOMAIN Kids(maps) = DOMAIN maps /\ Inside(Kids(maps))
         /\ \A m \in DOMAIN maps : \A k \in DOMAIN maps[m] :
              maps[m][k].is \in {"map", "list"} => maps[m][k].to \in Kids(maps)[m]
         /\ \A m \in DOMAIN maps : \A x \in Kids(maps)[m] :
              \E k \in DOMAIN maps[m] : maps[m][k].is \in {"map", "list"} /\ maps[m][k].to = x
<1>1. DOMAIN Kids(maps) = DOMAIN maps
  BY DEF Kids
<1>2. ASSUME NEW m \in DOMAIN maps
      PROVE  Kids(maps)[m] = {v.to : v \in {w \in Range(maps[m]) : w.is \in {"map", "list"}}}
  BY DEF Kids
<1>3. ASSUME NEW m \in DOMAIN maps, NEW x
      PROVE  x \in Kids(maps)[m] <=> \E k \in DOMAIN maps[m] : maps[m][k].is \in {"map", "list"} /\ maps[m][k].to = x
  BY <1>2 DEF Range
<1>4. Inside(Kids(maps))
  BY <1>1, <1>3 DEF Inside, WellFormed
<1> QED
  BY <1>1, <1>3, <1>4

LEMMA RootsAreMaps ==
  ASSUME NEW maps, WellFormed(maps), NEW walk \in Walks
  PROVE  Roots(walk, maps) \subseteq DOMAIN maps
<1>1. Registry(maps).is = "map" => Registry(maps).to \in DOMAIN maps
  BY DEF Registry, WellFormed, Str
<1> QED
  BY <1>1 DEF Roots, WellFormed

LEMMA WalkedIn ==
  ASSUME NEW maps, WellFormed(maps), NEW walk \in Walks
  PROVE  /\ Roots(walk, maps) \subseteq Walked(walk, maps)
         /\ Walked(walk, maps) \subseteq DOMAIN maps
         /\ \A m \in Walked(walk, maps) : \A k \in DOMAIN maps[m] :
              maps[m][k].is \in {"map", "list"} => maps[m][k].to \in Walked(walk, maps)
<1>1. Walked(walk, maps) \subseteq DOMAIN maps
  BY KidsAre, ReachedIn DEF Walked
<1>2. Roots(walk, maps) \subseteq Walked(walk, maps)
  BY RootsAreMaps, KidsAre, ReachedStart DEF Walked
<1>3. ASSUME NEW m \in Walked(walk, maps), NEW k \in DOMAIN maps[m], maps[m][k].is \in {"map", "list"}
      PROVE  maps[m][k].to \in Walked(walk, maps)
  <2>1. maps[m][k].to \in Kids(maps)[m] /\ maps[m][k].to \in DOMAIN Kids(maps)
    BY <1>1, <1>3, KidsAre DEF WellFormed
  <2> QED
    BY <2>1, ReachedStep DEF Walked
<1> QED
  BY <1>1, <1>2, <1>3

LEMMA PlacesAre ==
  ASSUME NEW maps, WellFormed(maps), NEW walk \in Walks
  PROVE  /\ \A m, k : <<m, k>> \in Places(walk, maps) <=>
              m \in Walked(walk, maps) /\ k \in DOMAIN maps[m] /\ Refers(walk, k, maps[m][k])
         /\ \A p \in Places(walk, maps) : p = <<p[1], p[2]>>
<1>1. Walked(walk, maps) \subseteq DOMAIN maps
  BY WalkedIn
<1> QED
  BY <1>1 DEF Places

-----------------------------------------------------------------------------
(* Replacing references by URLs changes nothing about what is referred to.  *)
LEMMA NoRootsNoPlaces ==
  ASSUME NEW maps, WellFormed(maps), NEW walk \in Walks, Roots(walk, maps) = {}
  PROVE  Places(walk, maps) = {}
<1>1. Walked(walk, maps) = {}
  BY ReachedLeast DEF Walked
<1> QED
  BY <1>1 DEF Places

LEMMA PartlyAt ==
  ASSUME NEW maps, WellFormed(maps), NEW walk \in Walks, NEW dir \in Dirs, NEW now, NEW held,
         Partly(walk, maps, now, dir, held), NEW m \in DOMAIN maps, NEW k \in DOMAIN maps[m]
  PROVE  /\ now[m][k].is = maps[m][k].is
         /\ maps[m][k].is \in {"map", "list"} => now[m][k] = maps[m][k]
         /\ Refers(walk, k, now[m][k]) <=> Refers(walk, k, maps[m][k])
         /\ Refers(walk, k, maps[m][k]) =>
              Resolve(dir, now[m][k].to) = Resolve(dir, maps[m][k].to)
         /\ k = "get_file" /\ now[m][k].is = "string" => now[m][k].to \in Refs
<1>1. CASE now[m][k] = maps[m][k]
  BY <1>1 DEF WellFormed
<1>2. CASE now[m][k] # maps[m][k]
  <2>1. Refers(walk, k, maps[m][k]) /\ now[m][k] = Str(Resolve(dir, maps[m][k].to))
    BY <1>2, PlacesAre DEF Partly
  <2>2. maps[m][k].is = "string" /\ maps[m][k].to \in Refs /\ Refers(walk, k, now[m][k])
    BY <2>1, ReferencesAreRefs
  <2>3. now[m][k].to = Resolve(dir, maps[m][k].to) /\ now[m][k].is = "string"
        /\ now[m][k] = [is |-> "string", to |-> now[m][k].to]
    BY <2>1 DEF Str
  <2>4. Resolve(dir, now[m][k].to) = now[m][k].to /\ now[m][k].to \in Refs
    BY <2>2, <2>3, Resolving
  <2> QED
    BY <2>1, <2>2, <2>3, <2>4
<1> QED
  BY <1>1, <1>2

LEMMA PartlyRecord ==
  ASSUME NEW maps, WellFormed(maps), NEW walk, NEW dir, NEW now, NEW held,
         Partly(walk, maps, now, dir, held), NEW m \in DOMAIN maps, NEW k \in DOMAIN maps[m]
  PROVE  IsValue(now[m][k])
<1>1. CASE now[m][k] = maps[m][k]
  BY <1>1 DEF WellFormed
<1>2. CASE now[m][k] # maps[m][k]
  <2>1. now[m][k] = Str(Resolve(dir, maps[m][k].to))
    BY <1>2 DEF Partly
  <2> QED
    BY <2>1 DEF Str, IsValue
<1> QED
  BY <1>1, <1>2

LEMMA PartlySame ==
  ASSUME NEW maps, WellFormed(maps), NEW walk \in Walks, NEW dir \in Dirs, NEW now, NEW held,
         Partly(walk, maps, now, dir, held)
  PROVE  /\ DOMAIN now = DOMAIN maps
         /\ \A m \in DOMAIN maps : DOMAIN now[m] = DOMAIN maps[m]
         /\ WellFormed(now)
         /\ Places(walk, now) = Places(walk, maps)
         /\ Walked(walk, now) = Walked(walk, maps)
         /\ Registry(maps).is = "map" /\ walk = "environment" => Registry(now) = Registry(maps)
<1>1. DOMAIN now = DOMAIN maps /\ \A m \in DOMAIN maps : DOMAIN now[m] = DOMAIN maps[m]
  BY DEF Partly
<1>3. WellFormed(now)
  <2>1. now = [m \in DOMAIN now |-> [k \in DOMAIN now[m] |-> now[m][k]]]
    BY <1>1 DEF Partly
  <2>2. ASSUME NEW m \in DOMAIN now, NEW k \in DOMAIN now[m]
        PROVE  /\ IsValue(now[m][k])
               /\ now[m][k].is \in {"map", "list"} => now[m][k].to \in DOMAIN now
               /\ now[m][k].is = "string" /\ k = "get_file" => now[m][k].to \in Refs
    <3>1. m \in DOMAIN maps /\ k \in DOMAIN maps[m]
      BY <1>1
    <3>2. now[m][k].is = maps[m][k].is /\ (maps[m][k].is \in {"map", "list"} => now[m][k] = maps[m][k])
      BY <3>1, PartlyAt
    <3>3. now[m][k].is \in {"map", "list"} => now[m][k].to \in DOMAIN now
      BY <1>1, <3>1, <3>2 DEF WellFormed
    <3>4. now[m][k].is = "string" /\ k = "get_file" => now[m][k].to \in Refs
      BY <3>1, PartlyAt
    <3>5. IsValue(now[m][k])
      BY <3>1, PartlyRecord
    <3> QED
      BY <3>3, <3>4, <3>5
  <2> QED
    BY <1>1, <2>1, <2>2 DEF WellFormed
<1>4. Kids(now) = Kids(maps)
  <2>1. ASSUME NEW m \in DOMAIN maps PROVE Kids(now)[m] = Kids(maps)[m]
    <3>1. \A x \in Kids(now)[m] : \E k \in DOMAIN maps[m] : now[m][k].is \in {"map", "list"} /\ now[m][k].to = x
      BY <1>1, <1>3, KidsAre
    <3>2. \A k \in DOMAIN maps[m] : now[m][k].is \in {"map", "list"} => now[m][k].to \in Kids(now)[m]
      BY <1>1, <1>3, KidsAre
    <3>3. \A k \in DOMAIN maps[m] : now[m][k].is = maps[m][k].is
      BY PartlyAt
    <3>4. \A k \in DOMAIN maps[m] : maps[m][k].is \in {"map", "list"} => now[m][k] = maps[m][k]
      BY PartlyAt
    <3>5. \A x \in Kids(maps)[m] : \E k \in DOMAIN maps[m] : maps[m][k].is \in {"map", "list"} /\ maps[m][k].to = x
      BY KidsAre
    <3>6. \A k \in DOMAIN maps[m] : maps[m][k].is \in {"map", "list"} => maps[m][k].to \in Kids(maps)[m]
      BY KidsAre
    <3>7. \A x \in Kids(now)[m] : x \in Kids(maps)[m]
      BY <3>1, <3>3, <3>4, <3>6
    <3>8. \A x \in Kids(maps)[m] : x \in Kids(now)[m]
      BY <3>2, <3>3, <3>4, <3>5
    <3> QED
      BY <3>7, <3>8
  <2> QED
    BY <1>1, <2>1 DEF Kids
<1>5. Registry(maps).is = "map" /\ walk = "environment" => Registry(now) = Registry(maps)
  <2> SUFFICES ASSUME Registry(maps).is = "map" PROVE Registry(now) = Registry(maps)
    OBVIOUS
  <2>1. "root" \in DOMAIN maps
    BY DEF WellFormed
  <2>2. "resource_registry" \in DOMAIN maps["root"] => maps["root"]["resource_registry"].is = "map"
    BY DEF Registry
  <2>3. "resource_registry" \in DOMAIN maps["root"] =>
          now["root"]["resource_registry"] = maps["root"]["resource_registry"]
    BY <2>1, <2>2, PartlyAt
  <2> QED
    BY <1>1, <2>1, <2>3 DEF Registry
<1>6. Roots(walk, now) = Roots(walk, maps)
  <2>1. CASE walk = "environment" /\ Registry(maps).is # "map"
    <3>1. Places(walk, maps) = {}
      BY <2>1, NoRootsNoPlaces DEF Roots
    <3>2. \A m \in DOMAIN maps : \A k \in DOMAIN maps[m] : now[m][k] = maps[m][k]
      BY <3>1 DEF Partly
    <3>3. now = maps
      BY <3>2 DEF Partly, WellFormed
    <3> QED
      BY <3>3
  <2>2. CASE walk = "template"
    BY <2>2 DEF Roots
  <2> QED
    BY <1>5, <2>1, <2>2 DEF Roots, Walks
<1>7. Walked(walk, now) = Walked(walk, maps)
  BY <1>4, <1>6 DEF Walked
<1>8. Places(walk, now) = Places(walk, maps)
  <2>1. ASSUME NEW m, NEW k PROVE <<m, k>> \in Places(walk, now) <=> <<m, k>> \in Places(walk, maps)
    <3>1. Walked(walk, maps) \subseteq DOMAIN maps
      BY WalkedIn
    <3>2. m \in DOMAIN maps /\ k \in DOMAIN maps[m] =>
            (Refers(walk, k, now[m][k]) <=> Refers(walk, k, maps[m][k]))
      BY PartlyAt
    <3>3. /\ <<m, k>> \in Places(walk, now) <=>
                m \in Walked(walk, now) /\ k \in DOMAIN now[m] /\ Refers(walk, k, now[m][k])
          /\ <<m, k>> \in Places(walk, maps) <=>
                m \in Walked(walk, maps) /\ k \in DOMAIN maps[m] /\ Refers(walk, k, maps[m][k])
      BY <1>3, PlacesAre
    <3> QED
      BY <1>1, <1>7, <3>1, <3>2, <3>3
  <2>2. /\ \A p \in Places(walk, now) : p = <<p[1], p[2]>>
        /\ \A p \in Places(walk, maps) : p = <<p[1], p[2]>>
    BY <1>3, PlacesAre
  <2> QED
    BY <2>1, <2>2
<1> QED
  BY <1>1, <1>3, <1>5, <1>7, <1>8

LEMMA SameURLs ==
  ASSUME NEW maps, WellFormed(maps), NEW walk \in Walks, NEW dir \in Dirs, NEW now, NEW held,
         Partly(walk, maps, now, dir, held)
  PROVE  WithURLs(walk, now, dir) = WithURLs(walk, maps, dir)
<1>1. DOMAIN now = DOMAIN maps /\ Places(walk, now) = Places(walk, maps)
      /\ \A m \in DOMAIN maps : DOMAIN now[m] = DOMAIN maps[m]
  BY PartlySame
<1>2. ASSUME NEW m \in DOMAIN maps, NEW k \in DOMAIN maps[m]
      PROVE  (IF <<m, k>> \in Places(walk, now) THEN Str(Resolve(dir, now[m][k].to)) ELSE now[m][k])
             = (IF <<m, k>> \in Places(walk, maps) THEN Str(Resolve(dir, maps[m][k].to)) ELSE maps[m][k])
  <2>1. CASE <<m, k>> \in Places(walk, maps)
    <3>1. Refers(walk, k, maps[m][k])
      BY <2>1, PlacesAre
    <3>2. Resolve(dir, now[m][k].to) = Resolve(dir, maps[m][k].to)
      BY <3>1, PartlyAt
    <3> QED
      BY <1>1, <2>1, <3>2
  <2>2. CASE <<m, k>> \notin Places(walk, maps)
    BY <1>1, <2>2 DEF Partly
  <2> QED
    BY <2>1, <2>2
<1> QED
  BY <1>1, <1>2 DEF WithURLs

LEMMA AllReplaced ==
  ASSUME NEW maps, NEW walk \in Walks, NEW dir \in Dirs, NEW now, NEW held,
         Partly(walk, maps, now, dir, held), WellFormed(maps),
         \A p \in Places(walk, maps) : now[p[1]][p[2]] = Str(Resolve(dir, maps[p[1]][p[2]].to))
  PROVE  now = WithURLs(walk, maps, dir)
<1>1. ASSUME NEW m \in DOMAIN maps, NEW k \in DOMAIN maps[m]
      PROVE  now[m][k] =
               IF <<m, k>> \in Places(walk, maps) THEN Str(Resolve(dir, maps[m][k].to)) ELSE maps[m][k]
  BY DEF Partly
<1> QED
  BY <1>1 DEF WithURLs, Partly

LEMMA NothingReplaced ==
  ASSUME NEW maps, WellFormed(maps), NEW walk, NEW dir, NEW held
  PROVE  Partly(walk, maps, maps, dir, held)
  BY DEF Partly, WellFormed

LEMMA HoldingMore ==
  ASSUME NEW maps, NEW now, NEW walk, NEW dir, NEW held, NEW more, held \subseteq more,
         Partly(walk, maps, now, dir, held)
  PROVE  Partly(walk, maps, now, dir, more)
  BY DEF Partly

(* One more reference becomes a URL. *)
LEMMA OneMoreReplaced ==
  ASSUME NEW maps, WellFormed(maps), NEW walk \in Walks, NEW dir \in Dirs, NEW now, NEW held,
         Partly(walk, maps, now, dir, held), NEW m, NEW k, <<m, k>> \in Places(walk, maps),
         NEW url, url = Resolve(dir, maps[m][k].to), url \in held
  PROVE  /\ Partly(walk, maps, WithURL(now, m, k, url), dir, held)
         /\ WithURL(now, m, k, url)[m][k] = Str(url)
         /\ \A n \in DOMAIN maps : \A j \in DOMAIN maps[n] :
              <<n, j>> # <<m, k>> => WithURL(now, m, k, url)[n][j] = now[n][j]
<1> DEFINE new == [now EXCEPT ![m][k].to = url]
<1>1. m \in DOMAIN maps /\ k \in DOMAIN maps[m] /\ Refers(walk, k, maps[m][k])
  BY PlacesAre, WalkedIn
<1>2. now[m][k].is = "string" /\ IsValue(now[m][k])
  BY <1>1, PartlyAt, PartlyRecord, ReferencesAreRefs
<1>3. DOMAIN now = DOMAIN maps /\ \A n \in DOMAIN maps : DOMAIN now[n] = DOMAIN maps[n]
  BY DEF Partly
<1>4. new = [n \in DOMAIN maps |-> [j \in DOMAIN maps[n] |->
                 IF n = m /\ j = k THEN [now[m][k] EXCEPT !.to = url] ELSE now[n][j]]]
  BY <1>1, <1>3 DEF Partly
<1>5. [now[m][k] EXCEPT !.to = url] = Str(url)
  BY <1>2 DEF Str, IsValue
<1> HIDE DEF new
<1>6. \A n \in DOMAIN maps : \A j \in DOMAIN maps[n] :
        new[n][j] = IF n = m /\ j = k THEN Str(url) ELSE now[n][j]
  BY <1>4, <1>5
<1>7. new = [n \in DOMAIN maps |-> [j \in DOMAIN maps[n] |-> new[n][j]]]
  BY <1>4
<1>8. Partly(walk, maps, new, dir, held)
  BY <1>6, <1>7 DEF Partly
<1> QED
  BY <1>1, <1>6, <1>8 DEF new, WithURL

-----------------------------------------------------------------------------
(* Sequences: the last element is removed or replaced, or one is added. *)
LEMMA SeqIs ==
  ASSUME NEW S, NEW s \in Seq(S)
  PROVE  /\ IsSeq(s) /\ Len(s) \in Nat /\ (s # <<>> => Len(s) >= 1)
         /\ \A i \in 1..Len(s) : s[i] \in S
         /\ \A x : Range(s) \subseteq S \cup {x}
         /\ s # <<>> => Last(s) = s[Len(s)] /\ Last(s) \in S /\ Len(s) \in 1..Len(s)
<1>1. Len(s) \in Nat /\ s \in [1..Len(s) -> S] /\ (s # <<>> => Len(s) # 0)
  BY EmptySeq, LenProperties
<1>2. PICK n \in Nat : n = Len(s)
  BY <1>1
<1>3. s \in [1..n -> Range(s)]
  BY <1>1, <1>2 DEF Range
<1>4. s \in Seq(Range(s))
  BY <1>2, <1>3, SeqDef
<1> QED
  BY <1>1, <1>4 DEF IsSeq, Last, Range

LEMMA OneElement ==
  ASSUME NEW S, NEW x \in S
  PROVE  <<x>> \in Seq(S) /\ IsSeq(<<x>>) /\ Len(<<x>>) = 1 /\ <<x>>[1] = x /\ <<x>> # <<>>
<1>1. <<x>> = [i \in 1..1 |-> x]
  OBVIOUS
<1>2. <<x>> \in [1..1 -> S]
  BY <1>1
<1>3. <<x>> \in Seq(S)
  BY <1>2, SeqDef
<1> QED
  BY <1>3, SeqIs

LEMMA Popped ==
  ASSUME NEW S, NEW s \in Seq(S), s # <<>>
  PROVE  /\ Len(s) \in Nat /\ Len(s) >= 1
         /\ Front(s) \in Seq(S) /\ Len(Front(s)) = Len(s) - 1
         /\ \A i \in 1..Len(s) - 1 : Front(s)[i] = s[i]
<1>1. PICK n \in Nat : Len(s) = n + 1
  BY EmptySeq
<1>2. \A i \in 1..n : s[i] \in S
  BY <1>1, ElementOfSeq
<1>3. Front(s) = SubSeq(s, 1, n)
  BY <1>1 DEF Front
<1>4. /\ SubSeq(s, 1, n) \in Seq(S)
      /\ Len(SubSeq(s, 1, n)) = IF 1 <= n THEN n - 1 + 1 ELSE 0
      /\ \A i \in 1..n - 1 + 1 : SubSeq(s, 1, n)[i] = s[1 + i - 1]
  <2>1. 1 \in Int /\ n \in Int
    OBVIOUS
  <2> QED
    BY <1>2, <2>1, SubSeqProperties
<1>5. \A i \in 1..n : Front(s)[i] = s[i]
  BY <1>3, <1>4
<1> QED
  BY <1>1, <1>3, <1>4, <1>5

LEMMA Pushed ==
  ASSUME NEW S, NEW s \in Seq(S), NEW x \in S
  PROVE  /\ Append(s, x) \in Seq(S) /\ Append(s, x) # <<>>
         /\ Len(Append(s, x)) = Len(s) + 1
         /\ Append(s, x)[Len(s) + 1] = x /\ Last(Append(s, x)) = x
         /\ \A i \in 1..Len(s) : Append(s, x)[i] = s[i]
  BY AppendProperties DEF Last

LEMMA TopSet ==
  ASSUME NEW S, NEW s \in Seq(S), s # <<>>, NEW x \in S
  PROVE  /\ Append(Front(s), x) \in Seq(S) /\ Append(Front(s), x) # <<>>
         /\ Len(Append(Front(s), x)) = Len(s)
         /\ Append(Front(s), x)[Len(s)] = x /\ Last(Append(Front(s), x)) = x
         /\ \A i \in 1..Len(s) : i # Len(s) => Append(Front(s), x)[i] = s[i]
<1>1. /\ Len(s) \in Nat /\ Len(s) >= 1
      /\ Front(s) \in Seq(S) /\ Len(Front(s)) = Len(s) - 1
      /\ \A i \in 1..Len(s) - 1 : Front(s)[i] = s[i]
  BY Popped
<1>2. PICK u \in Seq(S) : u = Front(s)
  BY <1>1
<1>3. /\ Append(u, x) \in Seq(S) /\ Append(u, x) # <<>> /\ Len(Append(u, x)) = Len(u) + 1
      /\ Append(u, x)[Len(u) + 1] = x /\ Last(Append(u, x)) = x
      /\ \A i \in 1..Len(u) : Append(u, x)[i] = u[i]
  BY Pushed
<1>4. Len(u) + 1 = Len(s)
  BY <1>1, <1>2
<1>5. \A i \in 1..Len(s) : i # Len(s) => i \in 1..Len(u)
  BY <1>1, <1>2
<1>6. \A i \in 1..Len(s) : i # Len(s) => Append(u, x)[i] = s[i]
  BY <1>1, <1>2, <1>3, <1>5
<1> QED
  BY <1>2, <1>3, <1>4, <1>6

-----------------------------------------------------------------------------
(* The maps that are open, and what is still to come in them. *)
WithoutKey(o, p, key) == o.map = p.map /\ o.left = p.left \ {key}

LEMMA TopKeyDone ==
  ASSUME NEW walk, NEW maps, NEW open \in Seq(Opened(maps)), open # <<>>, OpenOK(open, walk, maps),
         NEW o \in Opened(maps), NEW key, WithoutKey(o, Last(open), key)
  PROVE  /\ Append(Front(open), o) \in Seq(Opened(maps)) /\ Append(Front(open), o) # <<>>
         /\ Last(Append(Front(open), o)) = o
         /\ OpenOK(Append(Front(open), o), walk, maps)
         /\ o.updated \/ (SomeUpdated(open) /\ (Last(open).updated => o.updated)) =>
              SomeUpdated(Append(Front(open), o))
         /\ \A m, k : Pending(open, maps, m, k) =>
              \/ Pending(Append(Front(open), o), maps, m, k)
              \/ m = o.map /\ k = key
              \/ maps[o.map][key].is \in {"map", "list"} /\ m \in Reached(Kids(maps), {maps[o.map][key].to})
<1> DEFINE new == Append(Front(open), o)
           n == Len(open)
<1>1. /\ new \in Seq(Opened(maps)) /\ new # <<>> /\ Len(new) = n /\ new[n] = o /\ Last(new) = o
      /\ \A i \in 1..n : i # n => new[i] = open[i]
  BY TopSet
<1>2. n \in 1..n /\ Last(open) = open[n]
  BY SeqIs
<1> HIDE DEF new, n
<1>3. OpenOK(new, walk, maps)
  BY <1>1, <1>2 DEF OpenOK, WithoutKey, n
<1>7. o.updated \/ (SomeUpdated(open) /\ (open[n].updated => o.updated)) => SomeUpdated(new)
  BY <1>1, <1>2 DEF SomeUpdated, n
<1>4. ASSUME NEW m, NEW k, NEW i \in 1..n, PendingAt(open[i], maps, m, k),
             ~ (m = o.map /\ k = key),
             ~ (maps[o.map][key].is \in {"map", "list"} /\ m \in Reached(Kids(maps), {maps[o.map][key].to}))
      PROVE  PendingAt(new[i], maps, m, k)
  <2>1. CASE i # n
    BY <1>1, <1>4, <2>1
  <2>2. CASE i = n
    <3>1. PICK j \in open[n].left : \/ m = o.map /\ k = j
                                    \/ maps[o.map][j].is \in {"map", "list"} /\ m \in Reached(Kids(maps), {maps[o.map][j].to})
      BY <1>2, <1>4, <2>2 DEF PendingAt, WithoutKey
    <3>2. j # key
      BY <1>4, <3>1
    <3>3. j \in o.left
      BY <1>2, <3>1, <3>2 DEF WithoutKey
    <3> QED
      BY <1>1, <2>2, <3>1, <3>3 DEF PendingAt
  <2> QED
    BY <2>1, <2>2
<1>5. \A m, k : Pending(open, maps, m, k) =>
              \/ Pending(new, maps, m, k)
              \/ m = o.map /\ k = key
              \/ maps[o.map][key].is \in {"map", "list"} /\ m \in Reached(Kids(maps), {maps[o.map][key].to})
  BY <1>1, <1>4 DEF Pending, n
<1> QED
  BY <1>1, <1>2, <1>3, <1>5, <1>7 DEF new

LEMMA MapOpened ==
  ASSUME NEW walk, NEW maps, NEW open \in Seq(Opened(maps)), OpenOK(open, walk, maps),
         NEW o \in Opened(maps), o.map \in Walked(walk, maps), o.left \subseteq DOMAIN maps[o.map]
  PROVE  /\ Append(open, o) \in Seq(Opened(maps))
         /\ OpenOK(Append(open, o), walk, maps)
         /\ SomeUpdated(open) => SomeUpdated(Append(open, o))
         /\ \A m, k : Pending(open, maps, m, k) \/ PendingAt(o, maps, m, k) =>
                        Pending(Append(open, o), maps, m, k)
<1> DEFINE new == Append(open, o)
           n == Len(open)
<1>1. /\ new \in Seq(Opened(maps)) /\ Len(new) = n + 1 /\ new[n + 1] = o
      /\ \A i \in 1..n : new[i] = open[i]
  BY Pushed
<1>2. n \in Nat
  BY SeqIs
<1> HIDE DEF new
<1>3. \A i \in 1..n + 1 : i = n + 1 \/ i \in 1..n
  BY <1>2
<1>4. OpenOK(new, walk, maps)
  BY <1>1, <1>3 DEF OpenOK
<1>5. \A m, k : Pending(open, maps, m, k) \/ PendingAt(o, maps, m, k) => Pending(new, maps, m, k)
  BY <1>1, <1>2 DEF Pending
<1>6. SomeUpdated(open) => SomeUpdated(new)
  BY <1>1, <1>2 DEF SomeUpdated
<1> QED
  BY <1>1, <1>4, <1>5, <1>6 DEF new

LEMMA MapClosed ==
  ASSUME NEW walk, NEW maps, NEW open \in Seq(Opened(maps)), open # <<>>, OpenOK(open, walk, maps),
         Last(open).left = {}
  PROVE  /\ Front(open) \in Seq(Opened(maps)) /\ OpenOK(Front(open), walk, maps)
         /\ \A m, k : Pending(open, maps, m, k) => Pending(Front(open), maps, m, k)
         /\ SomeUpdated(open) /\ ~ Last(open).updated => SomeUpdated(Front(open))
<1> DEFINE new == Front(open)
           n == Len(open)
<1>1. /\ n \in Nat /\ n >= 1 /\ new \in Seq(Opened(maps)) /\ Len(new) = n - 1
      /\ \A i \in 1..n - 1 : new[i] = open[i]
  BY Popped
<1>2. Last(open) = open[n]
  BY SeqIs
<1> HIDE DEF new
<1>3. OpenOK(new, walk, maps)
  BY <1>1 DEF OpenOK
<1>4. \A m, k : ~ PendingAt(open[n], maps, m, k)
  BY <1>2 DEF PendingAt
<1>5. \A m, k : Pending(open, maps, m, k) => Pending(new, maps, m, k)
  <2> SUFFICES ASSUME NEW m, NEW k, NEW i \in 1..n, PendingAt(open[i], maps, m, k)
               PROVE  Pending(new, maps, m, k)
    BY DEF Pending
  <2>1. i \in 1..n - 1
    BY <1>1, <1>4
  <2>2. i \in 1..Len(new) /\ new[i] = open[i]
    BY <1>1, <2>1
  <2> QED
    BY <2>2 DEF Pending
<1>6. SomeUpdated(open) /\ ~ open[n].updated => SomeUpdated(new)
  <2> SUFFICES ASSUME NEW i \in 1..n, open[i].updated, ~ open[n].updated
               PROVE  SomeUpdated(new)
    BY DEF SomeUpdated
  <2>1. i \in 1..n - 1
    BY <1>1
  <2> QED
    BY <1>1, <2>1 DEF SomeUpdated
<1> QED
  BY <1>1, <1>2, <1>3, <1>5, <1>6 DEF new

(* Everything in a map that has just been opened is still to come. *)
LEMMA AllToCome ==
  ASSUME NEW maps, WellFormed(maps), NEW r \in DOMAIN maps, NEW o, o.map = r, o.left = DOMAIN maps[r],
         NEW m \in Reached(Kids(maps), {r}), NEW k \in DOMAIN maps[m]
  PROVE  PendingAt(o, maps, m, k)
<1>1. CASE m = r
  BY <1>1 DEF PendingAt
<1>2. CASE m # r
  <2>1. PICK y \in Kids(maps)[r] : m \in Reached(Kids(maps), {y})
    BY <1>2, KidsAre, ReachedNext
  <2>2. PICK j \in DOMAIN maps[r] : maps[r][j].is \in {"map", "list"} /\ maps[r][j].to = y
    BY KidsAre
  <2> QED
    BY <2>1, <2>2 DEF PendingAt
<1> QED
  BY <1>1, <1>2

LEMMA OpenIs ==
  ASSUME NEW maps, NEW now, NEW m \in DOMAIN maps, DOMAIN now[m] = DOMAIN maps[m]
  PROVE  /\ Open(m, now) \in Opened(maps)
         /\ Open(m, now).map = m /\ Open(m, now).left = DOMAIN maps[m] /\ ~ Open(m, now).updated
  BY DEF Open, Opened

-----------------------------------------------------------------------------
(* What the steps of the walk make of a frame. *)
LEMMA TopIs ==
  ASSUME NEW maps, NEW o \in Opened(maps), NEW key
  PROVE  /\ Without(o, key) \in Opened(maps) /\ WithoutKey(Without(o, key), o, key)
         /\ Updated(o, key) \in Opened(maps) /\ WithoutKey(Updated(o, key), o, key)
         /\ Updated(o, key).updated
  BY DEF Without, Updated, Opened, WithoutKey

LEMMA SetTE ==
  ASSUME NEW f, IsFrame(f), NEW te
  PROVE  LET g == [f EXCEPT !.te = te]
         IN  IsFrame(g) /\ g.te = te /\ g.parsed = f.parsed /\ g.key = f.key /\ g.open = f.open
<1>1. [f EXCEPT !.te = te] = [te |-> te, parsed |-> f.parsed, key |-> f.key, open |-> f.open]
  BY DEF IsFrame
<1> QED
  BY <1>1 DEF IsFrame

LEMMA SetParsed ==
  ASSUME NEW f, IsFrame(f), NEW parsed
  PROVE  LET g == [f EXCEPT !.parsed = parsed]
         IN  IsFrame(g) /\ g.te = f.te /\ g.parsed = parsed /\ g.key = f.key /\ g.open = f.open
<1>1. [f EXCEPT !.parsed = parsed] = [te |-> f.te, parsed |-> parsed, key |-> f.key, open |-> f.open]
  BY DEF IsFrame
<1> QED
  BY <1>1 DEF IsFrame

LEMMA SetOpen ==
  ASSUME NEW f, IsFrame(f), NEW open
  PROVE  LET g == [f EXCEPT !.open = open]
         IN  IsFrame(g) /\ g.te = f.te /\ g.parsed = f.parsed /\ g.key = f.key /\ g.open = open
<1>1. [f EXCEPT !.open = open] = [te |-> f.te, parsed |-> f.parsed, key |-> f.key, open |-> open]
  BY DEF IsFrame
<1> QED
  BY <1>1 DEF IsFrame

LEMMA DoneIs ==
  ASSUME NEW f, IsFrame(f), NEW key
  PROVE  LET g == Done(f, key)
         IN  /\ IsFrame(g) /\ g.te = f.te /\ g.parsed = f.parsed /\ g.key = f.key
             /\ g.open = Append(Front(f.open), Without(Last(f.open), key))
  BY SetOpen DEF Done

LEMMA FileIs ==
  ASSUME NEW u, NEW bin PROVE DOMAIN File(u, bin) = {u} /\ File(u, bin)[u] = bin
  BY DEF File

LEMMA WithFilesIs ==
  ASSUME NEW te, IsTE(te), NEW child
  PROVE  LET t == WithFiles(te, child)
         IN  /\ IsTE(t) /\ t.url = te.url /\ t.bin = te.bin
             /\ t.files = Copied(child.files, Copied(File(child.url, child.bin), te.files))
<1> DEFINE files == Copied(child.files, Copied(File(child.url, child.bin), te.files))
<1> HIDE DEF files
<1>1. [te EXCEPT !.files = files] = [url |-> te.url, bin |-> te.bin, files |-> files]
  BY DEF IsTE
<1>2. WithFiles(te, child) = [te EXCEPT !.files = files]
  BY DEF WithFiles, files
<1>3. LET t == WithFiles(te, child)
      IN  IsTE(t) /\ t.url = te.url /\ t.bin = te.bin /\ t.files = files
  BY <1>1, <1>2 DEF IsTE
<1> QED
  BY <1>3 DEF files

LEMMA AdoptIs ==
  ASSUME NEW f, IsFrame(f), NEW key, NEW child
  PROVE  LET g == Adopt(f, key, child)
         IN  /\ IsFrame(g) /\ g.key = f.key /\ g.te = WithFiles(f.te, child)
             /\ g.parsed = WithURL(f.parsed, Last(f.open).map, key, child.url)
             /\ g.open = Append(Front(f.open), Updated(Last(f.open), key))
<1> DEFINE parsed == WithURL(f.parsed, Last(f.open).map, key, child.url)
           te == WithFiles(f.te, child)
           open == Append(Front(f.open), Updated(Last(f.open), key))
           f1 == [f EXCEPT !.parsed = parsed]
           f2 == [f1 EXCEPT !.te = te]
           f3 == [f2 EXCEPT !.open = open]
<1>1. Adopt(f, key, child) = f3
  BY DEF Adopt
<1> HIDE DEF parsed, te, open
<1>2. IsFrame(f1) /\ f1.te = f.te /\ f1.parsed = parsed /\ f1.key = f.key /\ f1.open = f.open
  BY SetParsed
<1> HIDE DEF f1
<1>3. IsFrame(f2) /\ f2.te = te /\ f2.parsed = parsed /\ f2.key = f.key /\ f2.open = f.open
  BY <1>2, SetTE
<1> HIDE DEF f2
<1>4. IsFrame(f3) /\ f3.te = te /\ f3.parsed = parsed /\ f3.key = f.key /\ f3.open = open
  BY <1>3, SetOpen
<1> HIDE DEF f3
<1> QED
  BY <1>1, <1>4 DEF parsed, te, open

LEMMA MarshalledIs ==
  ASSUME NEW te, IsTE(te), IsDoc(te.bin), NEW maps
  PROVE  LET t == Marshalled(te, maps)
         IN  /\ IsTE(t) /\ t.url = te.url /\ t.files = te.files
             /\ IsDoc(t.bin) /\ t.bin.kind = te.bin.kind /\ t.bin.maps = maps
<1> DEFINE bin == [kind |-> te.bin.kind, maps |-> maps]
<1>1. [te.bin EXCEPT !.maps = maps] = bin
  BY DEF IsDoc
<1>2. Marshalled(te, maps) = [te EXCEPT !.bin = [te.bin EXCEPT !.maps = maps]]
  BY DEF IsTE, Marshalled
<1>3. IsDoc(bin) /\ bin.kind = te.bin.kind /\ bin.maps = maps
  BY DEF IsDoc
<1> HIDE DEF bin
<1>4. [te EXCEPT !.bin = bin] = [url |-> te.url, bin |-> bin, files |-> te.files]
  BY DEF IsTE
<1>5. LET t == Marshalled(te, maps)
      IN  IsTE(t) /\ t.url = te.url /\ t.files = te.files /\ t.bin = bin
  BY <1>1, <1>2, <1>4 DEF IsTE
<1> QED
  BY <1>3, <1>5

Closed(f, te) == [f EXCEPT !.te = te, !.open = Front(@)]

LEMMA ClosedIs ==
  ASSUME NEW f, IsFrame(f), NEW te
  PROVE  LET g == Closed(f, te)
         IN  IsFrame(g) /\ g.key = f.key /\ g.parsed = f.parsed /\ g.te = te /\ g.open = Front(f.open)
<1> DEFINE open == Front(f.open)
           f1 == [f EXCEPT !.te = te]
           f2 == [f1 EXCEPT !.open = open]
<1>1. Closed(f, te) = f2
  BY DEF Closed
<1> HIDE DEF open
<1>2. IsFrame(f1) /\ f1.te = te /\ f1.parsed = f.parsed /\ f1.key = f.key /\ f1.open = f.open
  BY SetTE
<1> HIDE DEF f1
<1>3. IsFrame(f2) /\ f2.te = te /\ f2.parsed = f.parsed /\ f2.key = f.key /\ f2.open = open
  BY <1>2, SetOpen
<1> HIDE DEF f2
<1> QED
  BY <1>1, <1>3 DEF open

-----------------------------------------------------------------------------
(* A frame is as it should be after each of these steps. *)
LEMMA TopPlace ==
  ASSUME NEW walk \in Walks, NEW maps, WellFormed(maps), NEW dir \in Dirs, NEW world, NEW f,
         FrameOK(f, walk, maps, dir, world), f.open # <<>>
  PROVE  /\ f.open \in Seq(Opened(maps)) /\ Last(f.open) \in Opened(maps)
         /\ OpenOK(f.open, walk, maps)
         /\ Last(f.open).map \in Walked(walk, maps) /\ Last(f.open).map \in DOMAIN maps
         /\ Last(f.open).left \subseteq DOMAIN maps[Last(f.open).map]
<1>1. f.open \in Seq(Opened(maps)) /\ OpenOK(f.open, walk, maps)
  BY DEF FrameOK, Shape
<1>2. Last(f.open) = f.open[Len(f.open)] /\ Last(f.open) \in Opened(maps) /\ Len(f.open) \in 1..Len(f.open)
  BY <1>1, SeqIs
<1> QED
  BY <1>1, <1>2, WalkedIn DEF OpenOK

(* The value under a key that is still to come, and what the source has there. *)
Matches(walk, maps, dir, f, key) ==
  LET m == Last(f.open).map
      v == f.parsed[m][key]
  IN  /\ m \in Walked(walk, maps) /\ m \in DOMAIN maps /\ key \in DOMAIN maps[m]
      /\ v.is = maps[m][key].is /\ (v.is \in {"map", "list"} => v = maps[m][key])
      /\ Refers(walk, key, v) <=> Refers(walk, key, maps[m][key])
      /\ Refers(walk, key, v) => /\ <<m, key>> \in Places(walk, maps)
                                 /\ Resolve(dir, v.to) = Resolve(dir, maps[m][key].to)
                                 /\ Resolve(dir, v.to) \in URLs

LEMMA TopValue ==
  ASSUME NEW walk \in Walks, NEW maps, WellFormed(maps), NEW dir \in Dirs, NEW world, NEW f,
         FrameOK(f, walk, maps, dir, world), f.open # <<>>, NEW key \in Last(f.open).left
  PROVE  Matches(walk, maps, dir, f, key)
<1> DEFINE m == Last(f.open).map
           now == f.parsed
           held == Held(walk, f.te.files)
<1>1. m \in Walked(walk, maps) /\ m \in DOMAIN maps /\ key \in DOMAIN maps[m]
  BY TopPlace
<1>2. Partly(walk, maps, now, dir, held)
  BY DEF FrameOK
<1> HIDE DEF m, now, held
<1>3. /\ now[m][key].is = maps[m][key].is
      /\ maps[m][key].is \in {"map", "list"} => now[m][key] = maps[m][key]
      /\ Refers(walk, key, now[m][key]) <=> Refers(walk, key, maps[m][key])
      /\ Refers(walk, key, maps[m][key]) =>
           Resolve(dir, now[m][key].to) = Resolve(dir, maps[m][key].to)
  BY <1>1, <1>2, PartlyAt
<1>4. Refers(walk, key, maps[m][key]) =>
        <<m, key>> \in Places(walk, maps) /\ Resolve(dir, maps[m][key].to) \in URLs
  <2>1. Refers(walk, key, maps[m][key]) => maps[m][key].to \in Refs
    BY <1>1, ReferencesAreRefs
  <2> QED
    BY <1>1, <2>1, PlacesAre, Resolving
<1> QED
  BY <1>1, <1>3, <1>4 DEF m, now, Matches

LEMMA StillOK ==
  ASSUME NEW walk \in Walks, NEW maps, WellFormed(maps), NEW dir, NEW world, NEW f,
         FrameOK(f, walk, maps, dir, world), NEW g, Shape(g, maps),
         g.parsed = f.parsed, g.te.files = f.te.files, OpenOK(g.open, walk, maps),
         \A p \in Places(walk, maps) : Pending(f.open, maps, p[1], p[2]) => Pending(g.open, maps, p[1], p[2])
  PROVE  FrameOK(g, walk, maps, dir, world)
  BY DEF FrameOK, Replaced

(* A string that is no reference is passed over. *)
LEMMA Kept ==
  ASSUME NEW walk \in Walks, NEW maps, WellFormed(maps), NEW dir \in Dirs, NEW world, NEW f,
         FrameOK(f, walk, maps, dir, world), f.open # <<>>, NEW key \in Last(f.open).left,
         f.parsed[Last(f.open).map][key].is \in {"string", "number"},
         ~ Refers(walk, key, f.parsed[Last(f.open).map][key])
  PROVE  FrameOK(Done(f, key), walk, maps, dir, world)
<1> DEFINE o == Last(f.open)
           g == Done(f, key)
<1>1. f.open \in Seq(Opened(maps)) /\ o \in Opened(maps) /\ OpenOK(f.open, walk, maps)
  BY TopPlace
<1>2. Shape(f, maps)
  BY DEF FrameOK
<1>3. /\ IsFrame(g) /\ g.te = f.te /\ g.parsed = f.parsed
      /\ g.open = Append(Front(f.open), Without(o, key))
  BY <1>2, DoneIs DEF Shape
<1>4. Without(o, key) \in Opened(maps) /\ WithoutKey(Without(o, key), o, key)
  BY <1>1, TopIs
<1>5. maps[o.map][key].is \in {"string", "number"} /\ ~ Refers(walk, key, maps[o.map][key])
  <2>1. Matches(walk, maps, dir, f, key)
    BY TopValue
  <2> QED
    BY <2>1 DEF Matches
<1> HIDE DEF g
<1> DEFINE o1 == Without(o, key)
           new == Append(Front(f.open), o1)
<1>10. o1 \in Opened(maps) /\ WithoutKey(o1, o, key) /\ o1.map = o.map
  BY <1>4 DEF WithoutKey
<1> HIDE DEF o1
<1>11. /\ new \in Seq(Opened(maps)) /\ OpenOK(new, walk, maps)
      /\ \A m, k : Pending(f.open, maps, m, k) =>
           \/ Pending(new, maps, m, k)
           \/ m = o1.map /\ k = key
           \/ maps[o1.map][key].is \in {"map", "list"} /\ m \in Reached(Kids(maps), {maps[o1.map][key].to})
  BY <1>1, <1>10, TopKeyDone
<1> HIDE DEF new
<1>6. /\ g.open \in Seq(Opened(maps)) /\ OpenOK(g.open, walk, maps)
      /\ \A m, k : Pending(f.open, maps, m, k) =>
           Pending(g.open, maps, m, k) \/ (m = o.map /\ k = key) \/ maps[o.map][key].is \in {"map", "list"}
  BY <1>3, <1>10, <1>11 DEF o1, new
<1>7. \A p \in Places(walk, maps) : Refers(walk, p[2], maps[p[1]][p[2]])
  BY PlacesAre
<1>8. Shape(g, maps)
  BY <1>2, <1>3, <1>6 DEF Shape
<1>9. FrameOK(g, walk, maps, dir, world)
  BY <1>3, <1>5, <1>6, <1>7, <1>8, StillOK
<1> QED
  BY <1>9 DEF g

(* A nested map is opened. *)
Into(f, key, o2) == [Done(f, key) EXCEPT !.open = Append(@, o2)]

LEMMA Entered ==
  ASSUME NEW walk \in Walks, NEW maps, WellFormed(maps), NEW dir \in Dirs, NEW world, NEW f,
         FrameOK(f, walk, maps, dir, world), f.open # <<>>, NEW key \in Last(f.open).left,
         f.parsed[Last(f.open).map][key].is \in {"map", "list"}, NEW o2,
         o2 = Open(f.parsed[Last(f.open).map][key].to, f.parsed)
  PROVE  FrameOK(Into(f, key, o2), walk, maps, dir, world)
<1> DEFINE o == Last(f.open)
           h == Done(f, key)
           sub == maps[o.map][key].to
<1>1. f.open \in Seq(Opened(maps)) /\ o \in Opened(maps) /\ OpenOK(f.open, walk, maps)
  BY TopPlace
<1>2. Shape(f, maps) /\ Partly(walk, maps, f.parsed, dir, Held(walk, f.te.files))
  BY DEF FrameOK
<1>3. /\ o.map \in Walked(walk, maps) /\ o.map \in DOMAIN maps /\ key \in DOMAIN maps[o.map]
      /\ maps[o.map][key].is \in {"map", "list"} /\ f.parsed[o.map][key] = maps[o.map][key]
  <2>1. Matches(walk, maps, dir, f, key)
    BY TopValue
  <2> QED
    BY <2>1 DEF Matches
<1>4. sub \in Walked(walk, maps) /\ sub \in DOMAIN maps
  <2>1. PICK m \in Walked(walk, maps) : m = o.map
    BY <1>3
  <2>2. maps[m][key].to \in Walked(walk, maps) /\ Walked(walk, maps) \subseteq DOMAIN maps
    BY <1>3, <2>1, WalkedIn
  <2> QED
    BY <2>1, <2>2
<1>5. DOMAIN f.parsed[sub] = DOMAIN maps[sub]
  <2> DEFINE now == f.parsed
             held == Held(walk, f.te.files)
  <2>1. Partly(walk, maps, now, dir, held) /\ sub \in DOMAIN maps
    BY <1>2, <1>4
  <2> HIDE DEF now, held, sub
  <2>2. DOMAIN now[sub] = DOMAIN maps[sub]
    BY ONLY <2>1 DEF Partly
  <2> QED
    BY <2>2 DEF now
<1>6. o2 \in Opened(maps) /\ o2.map = sub /\ o2.left = DOMAIN maps[sub]
  <2> DEFINE now == f.parsed
  <2>1. sub \in DOMAIN maps /\ DOMAIN now[sub] = DOMAIN maps[sub] /\ o2 = Open(sub, now)
    BY <1>3, <1>4, <1>5
  <2> HIDE DEF now, sub
  <2> QED
    BY <2>1, OpenIs
<1>7. /\ IsFrame(h) /\ h.te = f.te /\ h.parsed = f.parsed
      /\ h.open = Append(Front(f.open), Without(o, key))
  BY <1>2, DoneIs DEF Shape
<1>8. Without(o, key) \in Opened(maps) /\ WithoutKey(Without(o, key), o, key)
  BY <1>1, TopIs
<1> HIDE DEF h
<1> DEFINE o1 == Without(o, key)
           new1 == Append(Front(f.open), o1)
           new2 == Append(new1, o2)
           g == [h EXCEPT !.open = new2]
<1>20. o1 \in Opened(maps) /\ WithoutKey(o1, o, key) /\ o1.map = o.map
  BY <1>8 DEF WithoutKey
<1>21. h.open = new1
  BY <1>7
<1> HIDE DEF o1
<1>9. /\ new1 \in Seq(Opened(maps)) /\ OpenOK(new1, walk, maps)
      /\ \A m, k : Pending(f.open, maps, m, k) =>
           Pending(new1, maps, m, k) \/ (m = o1.map /\ k = key) \/ m \in Reached(Kids(maps), {maps[o1.map][key].to})
  BY <1>1, <1>20, TopKeyDone
<1> HIDE DEF new1
<1>22. /\ new2 \in Seq(Opened(maps)) /\ OpenOK(new2, walk, maps)
       /\ \A m, k : Pending(new1, maps, m, k) \/ PendingAt(o2, maps, m, k) => Pending(new2, maps, m, k)
  <2>1. o2.map \in Walked(walk, maps) /\ o2.left \subseteq DOMAIN maps[o2.map]
    BY <1>4, <1>6
  <2> QED
    BY <1>6, <1>9, <2>1, MapOpened
<1> HIDE DEF new2
<1>10. IsFrame(g) /\ g.te = f.te /\ g.parsed = f.parsed /\ g.open = new2
  BY <1>7, SetOpen
<1> HIDE DEF g
<1>11. /\ g.open \in Seq(Opened(maps)) /\ OpenOK(g.open, walk, maps)
       /\ \A m, k : Pending(new1, maps, m, k) \/ PendingAt(o2, maps, m, k) => Pending(g.open, maps, m, k)
  BY <1>10, <1>22
<1>12. \A p \in Places(walk, maps) : /\ Refers(walk, p[2], maps[p[1]][p[2]])
                                     /\ p[1] \in DOMAIN maps /\ p[2] \in DOMAIN maps[p[1]]
  BY PlacesAre, WalkedIn
<1>13. \A p \in Places(walk, maps) : maps[p[1]][p[2]].is = "string"
  BY <1>12, ReferencesAreRefs
<1>14. ASSUME NEW p \in Places(walk, maps), Pending(f.open, maps, p[1], p[2])
       PROVE  Pending(g.open, maps, p[1], p[2])
  <2>1. ~ (p[1] = o.map /\ p[2] = key)
    BY <1>3, <1>13
  <2>2. p[1] \in Reached(Kids(maps), {sub}) => PendingAt(o2, maps, p[1], p[2])
    BY <1>4, <1>6, <1>12, AllToCome
  <2> QED
    BY <1>9, <1>11, <1>14, <1>20, <2>1, <2>2
<1>15. Shape(g, maps)
  BY <1>2, <1>10, <1>11 DEF Shape
<1>16. FrameOK(g, walk, maps, dir, world)
  BY <1>10, <1>11, <1>14, <1>15, StillOK
<1> QED
  BY <1>16, <1>21 DEF g, h, new2, Into

(* A map is closed. *)
LEMMA ClosedOK ==
  ASSUME NEW walk \in Walks, NEW maps, WellFormed(maps), NEW dir \in Dirs, NEW world, NEW f,
         FrameOK(f, walk, maps, dir, world), f.open # <<>>, Last(f.open).left = {},
         NEW te, IsTE(te), IsDoc(te.bin), te.files = f.te.files
  PROVE  FrameOK(Closed(f, te), walk, maps, dir, world)
<1> DEFINE g == Closed(f, te)
<1>1. f.open \in Seq(Opened(maps)) /\ OpenOK(f.open, walk, maps)
  BY TopPlace
<1>2. IsFrame(f)
  BY DEF FrameOK, Shape
<1>3. IsFrame(g) /\ g.parsed = f.parsed /\ g.te = te /\ g.open = Front(f.open)
  BY <1>2, ClosedIs
<1>4. /\ g.open \in Seq(Opened(maps)) /\ OpenOK(g.open, walk, maps)
      /\ \A m, k : Pending(f.open, maps, m, k) => Pending(g.open, maps, m, k)
  BY <1>1, <1>3, MapClosed
<1> HIDE DEF g
<1>5. Shape(g, maps)
  BY <1>3, <1>4 DEF Shape
<1>6. FrameOK(g, walk, maps, dir, world)
  BY <1>3, <1>4, <1>5, StillOK
<1> QED
  BY <1>6 DEF g

-----------------------------------------------------------------------------
(* A reference is followed. *)
Whole(walk, world, child) ==
  /\ child.bin = As(walk, world, child.url)
  /\ DOMAIN child.files \cup {child.url} = Needs(walk, world, child.url)
  /\ \A x \in DOMAIN child.files : child.files[x] = As(walk, world, x)

LEMMA FilesCopied ==
  ASSUME NEW walk, NEW world, NEW child, Whole(walk, world, child), NEW files, NEW new,
         new = Copied(child.files, Copied(File(child.url, child.bin), files))
  PROVE  /\ Given(walk, world, new, child.url)
         /\ \A u : Given(walk, world, files, u) => Given(walk, world, new, u)
         /\ DOMAIN files \subseteq DOMAIN new /\ child.url \in DOMAIN new
         /\ \A x \in DOMAIN new : \/ x \in Needs(walk, world, child.url) /\ new[x] = As(walk, world, x)
                                  \/ x \in DOMAIN files /\ new[x] = files[x]
<1> DEFINE one == File(child.url, child.bin)
           mid == Copied(one, files)
           first == child.files
<1>0. DOMAIN one = {child.url} /\ one[child.url] = child.bin /\ new = Copied(first, mid)
  BY FileIs
<1> HIDE DEF one, first
<1>1. /\ DOMAIN mid = {child.url} \cup DOMAIN files
      /\ mid[child.url] = child.bin
      /\ \A x \in DOMAIN files : x # child.url => mid[x] = files[x]
  BY <1>0 DEF Copied
<1> HIDE DEF mid
<1>2. /\ DOMAIN new = DOMAIN first \cup DOMAIN mid
      /\ \A x \in DOMAIN first : new[x] = first[x]
      /\ \A x \in DOMAIN mid : x \notin DOMAIN first => new[x] = mid[x]
  BY <1>0 DEF Copied
<1> USE DEF first
<1>3. \A x \in DOMAIN new : \/ x \in Needs(walk, world, child.url) /\ new[x] = As(walk, world, x)
                            \/ x \in DOMAIN files /\ new[x] = files[x]
  BY <1>1, <1>2 DEF Whole
<1>4. \A x \in Needs(walk, world, child.url) : x \in DOMAIN new /\ new[x] = As(walk, world, x)
  BY <1>1, <1>2 DEF Whole
<1>5. DOMAIN files \subseteq DOMAIN new /\ child.url \in DOMAIN new
  BY <1>1, <1>2
<1>6. ASSUME NEW u, Given(walk, world, files, u) PROVE Given(walk, world, new, u)
  BY <1>3, <1>5, <1>6 DEF Given
<1> QED
  BY <1>3, <1>4, <1>5, <1>6 DEF Given

(* What adopting the child has made of f. *)
Grown(f, g, url, walk, maps, dir, world) ==
  /\ FrameOK(g, walk, maps, dir, world) /\ SomeUpdated(g.open)
  /\ g.key = f.key /\ g.te.url = f.te.url /\ g.te.bin = f.te.bin
  /\ DOMAIN f.te.files \subseteq DOMAIN g.te.files /\ url \in DOMAIN g.te.files
  /\ Own(walk, maps, dir, world, f.te.files) => Own(walk, maps, dir, world, g.te.files)

LEMMA Adopted ==
  ASSUME NEW walk \in Walks, NEW maps, WellFormed(maps), NEW dir \in Dirs, NEW world, NEW f,
         FrameOK(f, walk, maps, dir, world), f.open # <<>>, NEW key \in Last(f.open).left,
         NEW v, v = f.parsed[Last(f.open).map][key], Refers(walk, key, v),
         NEW child, child.url = Resolve(dir, v.to), Whole(walk, world, child)
  PROVE  Grown(f, Adopt(f, key, child), child.url, walk, maps, dir, world)
<1> DEFINE o == Last(f.open)
           g == Adopt(f, key, child)
           url == child.url
<1>1. f.open \in Seq(Opened(maps)) /\ o \in Opened(maps) /\ OpenOK(f.open, walk, maps)
  BY TopPlace
<1>2. Shape(f, maps) /\ Partly(walk, maps, f.parsed, dir, Held(walk, f.te.files))
  BY DEF FrameOK
<1>3. /\ o.map \in DOMAIN maps /\ key \in DOMAIN maps[o.map]
      /\ Refers(walk, key, maps[o.map][key])
      /\ <<o.map, key>> \in Places(walk, maps)
      /\ url = Resolve(dir, maps[o.map][key].to) /\ url \in URLs
  <2>1. Matches(walk, maps, dir, f, key)
    BY TopValue
  <2> QED
    BY <2>1 DEF Matches
<1>5. maps[o.map][key].is = "string"
  BY <1>3, ReferencesAreRefs
<1>6. /\ IsFrame(g) /\ g.key = f.key /\ g.te = WithFiles(f.te, child)
      /\ g.parsed = WithURL(f.parsed, o.map, key, url)
      /\ g.open = Append(Front(f.open), Updated(o, key))
  BY <1>2, AdoptIs DEF Shape
<1> HIDE DEF g
<1>7. /\ IsTE(g.te) /\ g.te.url = f.te.url /\ g.te.bin = f.te.bin
      /\ g.te.files = Copied(child.files, Copied(File(url, child.bin), f.te.files))
  BY <1>2, <1>6, WithFilesIs DEF Shape
<1>8. /\ Given(walk, world, g.te.files, url)
      /\ \A u : Given(walk, world, f.te.files, u) => Given(walk, world, g.te.files, u)
      /\ DOMAIN f.te.files \subseteq DOMAIN g.te.files /\ url \in DOMAIN g.te.files
      /\ \A x \in DOMAIN g.te.files :
           \/ x \in Needs(walk, world, url) /\ g.te.files[x] = As(walk, world, x)
           \/ x \in DOMAIN f.te.files /\ g.te.files[x] = f.te.files[x]
  <2> DEFINE old == f.te.files
             new == g.te.files
  <2>1. new = Copied(child.files, Copied(File(child.url, child.bin), old))
    BY <1>7
  <2> HIDE DEF old, new
  <2>2. /\ Given(walk, world, new, child.url)
        /\ \A u : Given(walk, world, old, u) => Given(walk, world, new, u)
        /\ DOMAIN old \subseteq DOMAIN new /\ child.url \in DOMAIN new
        /\ \A x \in DOMAIN new :
             \/ x \in Needs(walk, world, child.url) /\ new[x] = As(walk, world, x)
             \/ x \in DOMAIN old /\ new[x] = old[x]
    BY ONLY <2>1, FilesCopied, Whole(walk, world, child)
  <2> QED
    BY <2>2 DEF old, new
<1> DEFINE held == Held(walk, g.te.files)
<1>9. Held(walk, f.te.files) \subseteq held /\ url \in held
  BY <1>3, <1>8 DEF Held
<1> HIDE DEF held
<1>10. Partly(walk, maps, f.parsed, dir, held)
  BY <1>2, <1>9, HoldingMore
<1>11. /\ Partly(walk, maps, g.parsed, dir, held)
       /\ g.parsed[o.map][key] = Str(url)
       /\ \A n \in DOMAIN maps : \A j \in DOMAIN maps[n] :
            <<n, j>> # <<o.map, key>> => g.parsed[n][j] = f.parsed[n][j]
  <2> DEFINE now == f.parsed
             m == o.map
  <2>1. /\ Partly(walk, maps, now, dir, held) /\ <<m, key>> \in Places(walk, maps)
        /\ url = Resolve(dir, maps[m][key].to) /\ url \in held
        /\ g.parsed = WithURL(now, m, key, url)
    BY <1>3, <1>6, <1>9, <1>10
  <2> HIDE DEF now, m
  <2>2. /\ Partly(walk, maps, WithURL(now, m, key, url), dir, held)
        /\ WithURL(now, m, key, url)[m][key] = Str(url)
        /\ \A n \in DOMAIN maps : \A j \in DOMAIN maps[n] :
              <<n, j>> # <<m, key>> => WithURL(now, m, key, url)[n][j] = now[n][j]
    BY <2>1, OneMoreReplaced
  <2> QED
    BY <2>1, <2>2 DEF now, m
<1> DEFINE o1 == Updated(o, key)
           new == Append(Front(f.open), o1)
<1>12. o1 \in Opened(maps) /\ WithoutKey(o1, o, key) /\ o1.map = o.map /\ o1.updated
  BY <1>1, TopIs DEF WithoutKey
<1> HIDE DEF o1
<1>13. /\ new \in Seq(Opened(maps)) /\ OpenOK(new, walk, maps) /\ SomeUpdated(new)
       /\ \A m, k : Pending(f.open, maps, m, k) =>
           \/ Pending(new, maps, m, k)
           \/ m = o1.map /\ k = key
           \/ maps[o1.map][key].is \in {"map", "list"} /\ m \in Reached(Kids(maps), {maps[o1.map][key].to})
  BY <1>1, <1>12, TopKeyDone
<1>14. g.open = new
  BY <1>6 DEF o1
<1> HIDE DEF new
<1>15. ASSUME NEW p \in Places(walk, maps)
       PROVE  Pending(g.open, maps, p[1], p[2]) \/ Replaced(g, walk, maps, dir, world, p[1], p[2])
  <2>1. /\ p[1] \in DOMAIN maps /\ p[2] \in DOMAIN maps[p[1]] /\ p = <<p[1], p[2]>>
    BY PlacesAre, WalkedIn
  <2>2. CASE p[1] = o.map /\ p[2] = key
    BY <1>3, <1>8, <1>11, <2>2 DEF Replaced
  <2>3. CASE ~ (p[1] = o.map /\ p[2] = key)
    <3>1. g.parsed[p[1]][p[2]] = f.parsed[p[1]][p[2]]
      BY <1>11, <2>1, <2>3
    <3>2. CASE Pending(f.open, maps, p[1], p[2])
      BY <1>5, <1>12, <1>13, <1>14, <2>3, <3>2
    <3>3. CASE Replaced(f, walk, maps, dir, world, p[1], p[2])
      BY <1>8, <3>1, <3>3 DEF Replaced
    <3> QED
      BY <3>2, <3>3 DEF FrameOK
  <2> QED
    BY <2>2, <2>3
<1>16. Shape(g, maps)
  BY <1>2, <1>6, <1>7, <1>13, <1>14 DEF Shape
<1>17. FrameOK(g, walk, maps, dir, world)
  BY <1>11, <1>13, <1>14, <1>15, <1>16 DEF FrameOK, held
<1>18. url \in Named(walk, maps, dir)
  <2> DEFINE p == <<o.map, key>>
  <2>1. p \in Places(walk, maps) /\ p[1] = o.map /\ p[2] = key
    BY <1>3
  <2> HIDE DEF p
  <2>2. url = Resolve(dir, maps[p[1]][p[2]].to)
    BY <1>3, <2>1
  <2> QED
    BY <2>1, <2>2 DEF Named
<1>19. Own(walk, maps, dir, world, f.te.files) => Own(walk, maps, dir, world, g.te.files)
  BY <1>8, <1>18 DEF Own
<1> QED
  BY <1>6, <1>7, <1>8, <1>13, <1>14, <1>17, <1>19 DEF g, Grown

(* The first frame, or that of a child: everything is still to come. *)
LEMMA Started ==
  ASSUME NEW walk \in Walks, NEW maps, WellFormed(maps), NEW dir \in Dirs, NEW world, NEW f,
         IsFrame(f), IsTE(f.te), IsDoc(f.te.bin), NEW r, Roots(walk, maps) = {r},
         f.open = <<Open(r, f.parsed)>>, Partly(walk, maps, f.parsed, dir, Held(walk, f.te.files))
  PROVE  FrameOK(f, walk, maps, dir, world) /\ f.open # <<>>
<1> DEFINE o == Open(r, f.parsed)
<1>1. r \in Walked(walk, maps) /\ r \in DOMAIN maps
  BY WalkedIn
<1>2. DOMAIN f.parsed[r] = DOMAIN maps[r]
  BY <1>1, PartlySame
<1>3. o \in Opened(maps) /\ o.map = r /\ o.left = DOMAIN maps[r]
  BY <1>1, <1>2, OpenIs
<1> HIDE DEF o
<1>4. /\ f.open \in Seq(Opened(maps)) /\ Len(f.open) = 1 /\ f.open[1] = o /\ f.open # <<>>
  BY <1>3, OneElement DEF o
<1>5. OpenOK(f.open, walk, maps)
  BY <1>1, <1>3, <1>4 DEF OpenOK
<1>6. ASSUME NEW p \in Places(walk, maps) PROVE Pending(f.open, maps, p[1], p[2])
  <2>1. p[1] \in Walked(walk, maps) /\ p[1] \in DOMAIN maps /\ p[2] \in DOMAIN maps[p[1]]
    BY PlacesAre, WalkedIn
  <2>2. PendingAt(o, maps, p[1], p[2])
    BY <1>1, <1>3, <2>1, AllToCome DEF Walked
  <2> QED
    BY <1>4, <2>2 DEF Pending
<1>7. Shape(f, maps)
  BY <1>4 DEF Shape
<1> QED
  BY <1>4, <1>5, <1>6, <1>7 DEF FrameOK

(* Nothing is open: every reference has become a URL. *)
LEMMA WalkedThrough ==
  ASSUME NEW walk \in Walks, NEW maps, WellFormed(maps), NEW dir \in Dirs, NEW world, NEW f,
         FrameOK(f, walk, maps, dir, world), f.open = <<>>
  PROVE  /\ f.parsed = WithURLs(walk, maps, dir)
         /\ \A u \in Named(walk, maps, dir) : Given(walk, world, f.te.files, u)
<1>1. Len(f.open) = 0
  BY EmptySeq
<1>2. \A p \in Places(walk, maps) : Replaced(f, walk, maps, dir, world, p[1], p[2])
  BY <1>1 DEF FrameOK, Pending
<1>3. f.parsed = WithURLs(walk, maps, dir)
  BY <1>2, AllReplaced DEF FrameOK, Replaced
<1>4. \A u \in Named(walk, maps, dir) : Given(walk, world, f.te.files, u)
  BY <1>2 DEF Named, Replaced
<1> QED
  BY <1>3, <1>4

-----------------------------------------------------------------------------
(* What the documents in the world lead to. *)
LEMMA NamedIn ==
  ASSUME NEW walk \in Walks, NEW maps, WellFormed(maps), NEW dir \in Dirs
  PROVE  Named(walk, maps, dir) \subseteq URLs
<1> SUFFICES ASSUME NEW p \in Places(walk, maps) PROVE Resolve(dir, maps[p[1]][p[2]].to) \in URLs
  BY DEF Named
<1>1. p[1] \in DOMAIN maps /\ p[2] \in DOMAIN maps[p[1]] /\ Refers(walk, p[2], maps[p[1]][p[2]])
  BY PlacesAre, WalkedIn
<1> QED
  BY <1>1, ReferencesAreRefs, Resolving

LEMMA LeadsIn ==
  ASSUME NEW world, IsWorld(world)
  PROVE  /\ DOMAIN Leads(world) = URLs /\ Inside(Leads(world))
         /\ \A u \in URLs : IF world[u].kind = "template"
                            THEN Leads(world)[u] = Named("template", world[u].maps, DirOf[u])
                            ELSE Leads(world)[u] = {}
<1>1. /\ DOMAIN Leads(world) = URLs
      /\ \A u \in URLs : IF world[u].kind = "template"
                            THEN Leads(world)[u] = Named("template", world[u].maps, DirOf[u])
                            ELSE Leads(world)[u] = {}
  BY DEF Leads
<1>2. ASSUME NEW u \in URLs PROVE Leads(world)[u] \subseteq URLs
  <2>1. CASE world[u].kind = "template"
    <3>1. WellFormed(world[u].maps) /\ DirOf[u] \in Dirs
      BY <2>1, StackFilesAssumption DEF IsWorld, Document
    <3> QED
      BY <1>1, <2>1, <3>1, NamedIn DEF Walks
  <2> QED
    BY <1>1, <2>1
<1> QED
  BY <1>1, <1>2 DEF Inside

LEMMA LeafIsWhole ==
  ASSUME NEW walk \in Walks, NEW world, IsWorld(world), NEW u \in URLs,
         walk = "environment" \/ world[u].kind # "template"
  PROVE  Whole(walk, world, TE(u, world[u]))
<1>1. TE(u, world[u]).url = u /\ TE(u, world[u]).bin = world[u] /\ DOMAIN TE(u, world[u]).files = {}
  BY DEF TE
<1>2. world[u] = As(walk, world, u)
  BY DEF As, Uploaded, Walks
<1>3. Needs(walk, world, u) = {u}
  <2>1. CASE walk = "environment"
    BY <2>1 DEF Needs
  <2>2. CASE walk = "template"
    <3>1. DOMAIN Leads(world) = URLs /\ Inside(Leads(world)) /\ Leads(world)[u] = {}
      BY <2>2, LeadsIn
    <3>2. u \in Reached(Leads(world), {u})
      BY <3>1, ReachedStart
    <3>3. Reached(Leads(world), {u}) \subseteq {u}
      BY <3>1, ReachedNext, ReachedIn
    <3> QED
      BY <2>2, <3>2, <3>3 DEF Needs, LedTo
  <2> QED
    BY <2>1, <2>2 DEF Walks
<1> QED
  BY <1>1, <1>2, <1>3 DEF Whole

LEMMA SameDoc ==
  ASSUME NEW a, NEW b, IsDoc(a), IsDoc(b), a.kind = b.kind, a.maps = b.maps
  PROVE  a = b
  BY DEF IsDoc

LEMMA ResolvedIs ==
  ASSUME NEW walk, NEW doc, IsDoc(doc), NEW dir
  PROVE  /\ IsDoc(Resolved(walk, doc, dir)) /\ Resolved(walk, doc, dir).kind = doc.kind
         /\ Resolved(walk, doc, dir).maps = WithURLs(walk, doc.maps, dir)
<1>1. Resolved(walk, doc, dir) = [kind |-> doc.kind, maps |-> WithURLs(walk, doc.maps, dir)]
  BY DEF Resolved, IsDoc
<1> QED
  BY <1>1 DEF IsDoc

LEMMA ChildIsWhole ==
  ASSUME NEW world, IsWorld(world), NEW f, NEW u \in URLs, f.te.url = u,
         world[u].kind = "template", TemplateFrame(f, world[u], world, TRUE), f.open = <<>>
  PROVE  Whole("template", world, f.te)
<1> DEFINE maps == world[u].maps
           dir == DirOf[u]
<1>1. WellFormed(maps) /\ IsDoc(world[u])
  BY DEF IsWorld, Document, IsDoc
<1>2. dir \in Dirs /\ Base(u) = dir
  BY BaseIsADir, StackFilesAssumption
<1>3. /\ FrameOK(f, "template", maps, dir, world) /\ Rendered(f, maps, dir)
      /\ Own("template", maps, dir, world, f.te.files)
      /\ f.te.bin.kind = "template" /\ IsDoc(f.te.bin)
  BY <1>2 DEF TemplateFrame, FrameOK, Shape
<1>4. /\ f.parsed = WithURLs("template", maps, dir)
      /\ \A v \in Named("template", maps, dir) : Given("template", world, f.te.files, v)
  BY <1>1, <1>2, <1>3, WalkedThrough DEF Walks
<1>5. f.te.bin.maps = f.parsed
  <2>1. Len(f.open) = 0
    BY EmptySeq
  <2> QED
    BY <1>3, <2>1 DEF Rendered, SomeUpdated
<1>6. f.te.bin = As("template", world, u)
  <2>1. As("template", world, u) = Resolved("template", world[u], dir)
    BY DEF As, Uploaded
  <2> QED
    BY <1>1, <1>3, <1>4, <1>5, <2>1, ResolvedIs, SameDoc
<1>7. /\ DOMAIN Leads(world) = URLs /\ Inside(Leads(world))
      /\ Leads(world)[u] = Named("template", maps, dir)
  BY LeadsIn
<1>8. \A v \in Named("template", maps, dir) : LedTo(world, {v}) \subseteq LedTo(world, {u})
  <2> SUFFICES ASSUME NEW v \in Named("template", maps, dir) PROVE LedTo(world, {v}) \subseteq LedTo(world, {u})
    OBVIOUS
  <2>1. v \in URLs /\ u \in Reached(Leads(world), {u})
    BY <1>7, ReachedStart DEF Inside
  <2>2. v \in Reached(Leads(world), {u})
    BY <1>7, <2>1, ReachedStep
  <2> QED
    BY <1>7, <2>2, ReachedMore DEF LedTo
<1>9. DOMAIN f.te.files \subseteq LedTo(world, {u})
  BY <1>3, <1>8 DEF Own, Needs
<1>10. u \in LedTo(world, {u})
  BY <1>7, ReachedStart DEF LedTo
<1>11. ASSUME NEW x \in LedTo(world, {u}) PROVE x = u \/ x \in DOMAIN f.te.files
  <2>1. x = u \/ \E v \in Named("template", maps, dir) : x \in LedTo(world, {v})
    <3> DEFINE next == Leads(world)
    <3>1. u \in DOMAIN next /\ Inside(next) /\ x \in Reached(next, {u})
      BY <1>7, <1>11 DEF LedTo
    <3> HIDE DEF next
    <3>2. x = u \/ \E v \in next[u] : x \in Reached(next, {v})
      BY <3>1, ReachedNext
    <3> QED
      BY <1>7, <3>2 DEF LedTo, next
  <2> QED
    BY <1>4, <2>1 DEF Given, Needs
<1>12. \A x \in DOMAIN f.te.files : f.te.files[x] = As("template", world, x)
  BY <1>3 DEF Own
<1> QED
  BY <1>6, <1>9, <1>10, <1>11, <1>12 DEF Whole, Needs

-----------------------------------------------------------------------------
(* The frames of the walk through a template. *)
LEMMA FrameParts ==
  ASSUME NEW f, NEW doc, NEW world, NEW fresh, TemplateFrame(f, doc, world, fresh)
  PROVE  /\ WellFormed(doc.maps) /\ Base(f.te.url) \in Dirs /\ "template" \in Walks
         /\ FrameOK(f, "template", doc.maps, Base(f.te.url), world)
         /\ IsFrame(f) /\ IsTE(f.te) /\ IsDoc(f.te.bin)
         /\ f.open \in Seq(Opened(doc.maps)) /\ OpenOK(f.open, "template", doc.maps)
  BY BaseIsADir DEF TemplateFrame, FrameOK, Shape, Walks

LEMMA KeptFrame ==
  ASSUME NEW f, NEW doc, NEW world, NEW fresh, TemplateFrame(f, doc, world, fresh),
         f.open # <<>>, NEW key \in Last(f.open).left,
         f.parsed[Last(f.open).map][key].is \in {"string", "number"},
         ~ Refers("template", key, f.parsed[Last(f.open).map][key])
  PROVE  LET g == Done(f, key)
         IN  TemplateFrame(g, doc, world, fresh) /\ g.key = f.key /\ g.te = f.te
<1> DEFINE g == Done(f, key)
           o == Last(f.open)
           o1 == Without(o, key)
           new == Append(Front(f.open), o1)
<1>1. /\ WellFormed(doc.maps) /\ Base(f.te.url) \in Dirs /\ "template" \in Walks
      /\ FrameOK(f, "template", doc.maps, Base(f.te.url), world)
      /\ IsFrame(f) /\ f.open \in Seq(Opened(doc.maps)) /\ OpenOK(f.open, "template", doc.maps)
  BY FrameParts
<1>2. g.te = f.te /\ g.parsed = f.parsed /\ g.key = f.key /\ g.open = new
  BY <1>1, DoneIs
<1>3. FrameOK(g, "template", doc.maps, Base(f.te.url), world)
  BY <1>1, Kept
<1>4. o \in Opened(doc.maps)
  BY <1>1, SeqIs
<1>5. o1 \in Opened(doc.maps) /\ WithoutKey(o1, o, key) /\ o1.updated = o.updated
  BY <1>4, TopIs DEF Without, Opened
<1> HIDE DEF o1, g
<1>6. SomeUpdated(f.open) => SomeUpdated(new)
  BY <1>1, <1>5, TopKeyDone
<1> HIDE DEF new
<1>7. Rendered(g, doc.maps, Base(f.te.url))
  BY <1>2, <1>6 DEF TemplateFrame, Rendered
<1>8. TemplateFrame(g, doc, world, fresh)
  BY <1>2, <1>3, <1>7 DEF TemplateFrame
<1> QED
  BY <1>2, <1>8 DEF g

ToMap(f, key, o2) ==
  LET v == f.parsed[Last(f.open).map][key]
  IN  f.open # <<>> /\ key \in Last(f.open).left /\ v.is \in {"map", "list"} /\ o2 = Open(v.to, f.parsed)

LEMMA EnteredFrame ==
  ASSUME NEW f, NEW doc, NEW world, NEW fresh, TemplateFrame(f, doc, world, fresh),
         NEW key, NEW o2, ToMap(f, key, o2)
  PROVE  LET g == Into(f, key, o2)
         IN  TemplateFrame(g, doc, world, fresh) /\ g.key = f.key /\ g.te = f.te
<1> DEFINE h == Done(f, key)
           o == Last(f.open)
           o1 == Without(o, key)
           new1 == Append(Front(f.open), o1)
           new2 == Append(new1, o2)
           g == [h EXCEPT !.open = new2]
<1>1. /\ WellFormed(doc.maps) /\ Base(f.te.url) \in Dirs /\ "template" \in Walks
      /\ FrameOK(f, "template", doc.maps, Base(f.te.url), world)
      /\ IsFrame(f) /\ f.open \in Seq(Opened(doc.maps)) /\ OpenOK(f.open, "template", doc.maps)
  BY FrameParts
<1>2. IsFrame(h) /\ h.te = f.te /\ h.parsed = f.parsed /\ h.key = f.key /\ h.open = new1
  BY <1>1, DoneIs
<1>0. /\ f.open # <<>> /\ key \in Last(f.open).left
      /\ f.parsed[Last(f.open).map][key].is \in {"map", "list"}
      /\ o2 = Open(f.parsed[Last(f.open).map][key].to, f.parsed)
  BY DEF ToMap
<1>3. FrameOK(Into(f, key, o2), "template", doc.maps, Base(f.te.url), world)
  BY <1>0, <1>1, Entered
<1>4. o \in Opened(doc.maps)
  BY <1>0, <1>1, SeqIs
<1>5. o1 \in Opened(doc.maps) /\ WithoutKey(o1, o, key) /\ o1.updated = o.updated
  BY <1>4, TopIs DEF Without, Opened
<1> HIDE DEF o1, h
<1>6. new1 \in Seq(Opened(doc.maps)) /\ (SomeUpdated(f.open) => SomeUpdated(new1))
  BY <1>0, <1>1, <1>5, TopKeyDone
<1> HIDE DEF new1
<1>7. SomeUpdated(f.open) => SomeUpdated(new2)
  <2>1. Len(new1) \in Nat /\ Len(new2) = Len(new1) + 1 /\ \A i \in 1..Len(new1) : new2[i] = new1[i]
    BY <1>6, AppendProperties, LenProperties
  <2> HIDE DEF new2
  <2>2. ASSUME NEW i \in 1..Len(new1), new1[i].updated PROVE SomeUpdated(new2)
    <3>1. i \in 1..Len(new2) /\ new2[i] = new1[i]
      BY <2>1
    <3> QED
      BY <2>2, <3>1 DEF SomeUpdated
  <2> QED
    BY <1>6, <2>2 DEF SomeUpdated
<1> HIDE DEF new2
<1>8. g.te = f.te /\ g.parsed = f.parsed /\ g.key = f.key /\ g.open = new2
  BY <1>2, SetOpen
<1>12. g = Into(f, key, o2)
  BY <1>2 DEF h, new2, Into
<1> HIDE DEF g
<1>9. FrameOK(g, "template", doc.maps, Base(f.te.url), world)
  BY <1>3, <1>12
<1>10. Rendered(g, doc.maps, Base(f.te.url))
  BY <1>7, <1>8 DEF TemplateFrame, Rendered
<1>11. TemplateFrame(g, doc, world, fresh)
  BY <1>8, <1>9, <1>10 DEF TemplateFrame
<1> QED
  BY <1>8, <1>11, <1>12

LEMMA LeftFrame ==
  ASSUME NEW f, NEW doc, NEW world, NEW fresh, TemplateFrame(f, doc, world, fresh),
         f.open # <<>>, Last(f.open).left = {}, NEW te,
         te = IF Last(f.open).updated THEN Marshalled(f.te, f.parsed) ELSE f.te
  PROVE  LET g == Closed(f, te)
         IN  TemplateFrame(g, doc, world, fresh) /\ g.key = f.key /\ g.te.url = f.te.url
<1> DEFINE g == Closed(f, te)
           o == Last(f.open)
           new == Front(f.open)
<1>1. /\ WellFormed(doc.maps) /\ Base(f.te.url) \in Dirs /\ "template" \in Walks
      /\ FrameOK(f, "template", doc.maps, Base(f.te.url), world)
      /\ IsFrame(f) /\ IsTE(f.te) /\ IsDoc(f.te.bin)
      /\ f.open \in Seq(Opened(doc.maps)) /\ OpenOK(f.open, "template", doc.maps)
  BY FrameParts
<1>2. /\ IsTE(te) /\ IsDoc(te.bin) /\ te.files = f.te.files /\ te.url = f.te.url
      /\ te.bin.kind = f.te.bin.kind
      /\ te.bin.maps = IF o.updated THEN f.parsed ELSE f.te.bin.maps
  BY <1>1, MarshalledIs
<1>3. IsFrame(g) /\ g.key = f.key /\ g.parsed = f.parsed /\ g.te = te /\ g.open = new
  BY <1>1, ClosedIs
<1>4. FrameOK(g, "template", doc.maps, Base(f.te.url), world)
  BY <1>1, <1>2, ClosedOK
<1> HIDE DEF g
<1>5. SomeUpdated(f.open) /\ ~ o.updated => SomeUpdated(new)
  BY <1>1, MapClosed
<1> HIDE DEF new
<1>6. Partly("template", doc.maps, f.parsed, Base(f.te.url), DOMAIN f.te.files)
  BY <1>1 DEF FrameOK, Held
<1>7. Rendered(g, doc.maps, Base(f.te.url))
  <2>1. CASE o.updated
    BY <1>2, <1>3, <1>6, <2>1 DEF Rendered
  <2>2. CASE ~ o.updated
    <3>1. Rendered(f, doc.maps, Base(f.te.url))
      BY DEF TemplateFrame
    <3> QED
      BY <1>2, <1>3, <1>5, <2>2, <3>1 DEF Rendered
  <2> QED
    BY <2>1, <2>2
<1>8. TemplateFrame(g, doc, world, fresh)
  BY <1>2, <1>3, <1>4, <1>7 DEF TemplateFrame
<1> QED
  BY <1>2, <1>3, <1>8 DEF g

LEMMA AdoptedFrame ==
  ASSUME NEW f, NEW doc, NEW world, NEW fresh, TemplateFrame(f, doc, world, fresh),
         f.open # <<>>, NEW key \in Last(f.open).left,
         NEW v, v = f.parsed[Last(f.open).map][key], Refers("template", key, v),
         NEW child, child.url = Resolve(Base(f.te.url), v.to), Whole("template", world, child)
  PROVE  LET g == Adopt(f, key, child)
         IN  TemplateFrame(g, doc, world, fresh) /\ g.key = f.key /\ g.te.url = f.te.url
<1> DEFINE g == Adopt(f, key, child)
           dir == Base(f.te.url)
<1>1. /\ WellFormed(doc.maps) /\ dir \in Dirs /\ "template" \in Walks
      /\ FrameOK(f, "template", doc.maps, dir, world)
      /\ child.url = Resolve(dir, v.to)
  BY FrameParts
<1>2. /\ FrameOK(g, "template", doc.maps, dir, world) /\ SomeUpdated(g.open)
      /\ g.key = f.key /\ g.te.url = f.te.url /\ g.te.bin = f.te.bin
      /\ DOMAIN f.te.files \subseteq DOMAIN g.te.files
      /\ Own("template", doc.maps, dir, world, f.te.files) => Own("template", doc.maps, dir, world, g.te.files)
  <2> DEFINE maps == doc.maps
             walk == "template"
  <2>1. /\ WellFormed(maps) /\ dir \in Dirs /\ walk \in Walks /\ FrameOK(f, walk, maps, dir, world)
        /\ f.open # <<>> /\ key \in Last(f.open).left /\ v = f.parsed[Last(f.open).map][key]
        /\ Refers(walk, key, v) /\ child.url = Resolve(dir, v.to) /\ Whole(walk, world, child)
    BY <1>1
  <2> HIDE DEF dir, maps, walk
  <2>2. Grown(f, g, child.url, walk, maps, dir, world)
    BY ONLY <2>1, Adopted
  <2> HIDE DEF g
  <2> QED
    BY <2>2 DEF maps, walk, Grown
<1> HIDE DEF g
<1>3. Partly("template", doc.maps, g.te.bin.maps, dir, DOMAIN g.te.files)
  BY <1>2, HoldingMore DEF TemplateFrame, Rendered
<1>4. Rendered(g, doc.maps, dir)
  BY <1>2, <1>3 DEF Rendered
<1>5. TemplateFrame(g, doc, world, fresh)
  BY <1>2, <1>4 DEF TemplateFrame
<1> QED
  BY <1>2, <1>5 DEF g

(* Of te it is known what an earlier call has made of doc. *)
LEMMA StartedFrame ==
  ASSUME NEW te, IsTE(te), IsDoc(te.bin), te.url \in URLs \cup {""}, NEW doc, WellFormed(doc.maps),
         doc.kind \in {"template", "map"}, te.bin.kind = doc.kind, NEW world, NEW fresh,
         Partly("template", doc.maps, te.bin.maps, Base(te.url), DOMAIN te.files),
         fresh => DOMAIN te.files = {}, NEW key
  PROVE  LET f == Frame(te, "root", key)
         IN  TemplateFrame(f, doc, world, fresh) /\ f.key = key /\ f.te = te
<1> DEFINE f == Frame(te, "root", key)
           o == Open("root", te.bin.maps)
<1>1. /\ IsFrame(f) /\ f.te = te /\ f.parsed = te.bin.maps /\ f.key = key
      /\ f.open = <<Open("root", f.parsed)>>
  BY DEF Frame, IsFrame
<1> HIDE DEF f
<1>2. Base(te.url) \in Dirs /\ "template" \in Walks /\ Roots("template", doc.maps) = {"root"}
  BY BaseIsADir DEF Walks, Roots
<1>3. FrameOK(f, "template", doc.maps, Base(te.url), world)
  BY <1>1, <1>2, Started DEF Held
<1>4. Rendered(f, doc.maps, Base(te.url))
  BY <1>1 DEF Rendered
<1>5. fresh => Own("template", doc.maps, Base(te.url), world, te.files)
  BY DEF Own
<1>6. TemplateFrame(f, doc, world, fresh)
  BY <1>1, <1>3, <1>4, <1>5 DEF TemplateFrame
<1> QED
  BY <1>1, <1>6 DEF f

-----------------------------------------------------------------------------
(* The stack. *)
LEMMA TopFrame ==
  ASSUME NEW s, NEW doc, NEW world, NEW fresh, Stacked(s, doc, world, fresh)
  PROVE  /\ Len(s) \in Nat /\ Len(s) >= 1 /\ Last(s) = s[Len(s)]
         /\ TemplateFrame(Last(s), Source(s, Len(s), doc, world), world, Len(s) > 1 \/ fresh)
<1>1. Len(s) \in Nat /\ Len(s) >= 1 /\ Last(s) = s[Len(s)] /\ Len(s) \in 1..Len(s)
  BY SeqIs DEF Stacked, IsSeq
<1> QED
  BY <1>1 DEF Stacked

LEMMA TopReplaced ==
  ASSUME NEW s, NEW doc, NEW world, NEW fresh, Stacked(s, doc, world, fresh), NEW f,
         f.key = Last(s).key, f.te.url = Last(s).te.url,
         TemplateFrame(f, Source(s, Len(s), doc, world), world, Len(s) > 1 \/ fresh)
  PROVE  LET t == Append(Front(s), f)
         IN  Stacked(t, doc, world, fresh) /\ t[1].te.url = s[1].te.url /\ Len(t) = Len(s)
<1> DEFINE t == Append(Front(s), f)
           n == Len(s)
           S == Range(s) \cup {f}
<1>1. n \in Nat /\ n >= 1 /\ Last(s) = s[n]
  BY TopFrame
<1>2. s \in Seq(S) /\ s # <<>> /\ f \in S
  BY SeqMonotonic DEF Stacked, IsSeq
<1> HIDE DEF S
<1>3. /\ t \in Seq(S) /\ t # <<>> /\ Len(t) = n /\ t[n] = f
      /\ \A i \in 1..n : i # n => t[i] = s[i]
  BY <1>2, TopSet
<1>4. IsSeq(t)
  BY <1>3, SeqIs
<1> HIDE DEF t
<1>5. \A i \in 1..n : t[i].te.url = s[i].te.url /\ t[i].key = s[i].key
  BY <1>1, <1>3
<1>6. \A i \in 1..n : Source(t, i, doc, world) = Source(s, i, doc, world)
  BY <1>5 DEF Source
<1>7. ASSUME NEW i \in 1..n PROVE TemplateFrame(t[i], Source(t, i, doc, world), world, i > 1 \/ fresh)
  BY <1>3, <1>6 DEF Stacked
<1>8. ASSUME NEW i \in 2..n
      PROVE  ChildOf(t[i - 1], Source(t, i - 1, doc, world), world, t[i].te.url, t[i].key)
  <2>1. i - 1 \in 1..n /\ i - 1 # n /\ i \in 1..n
    BY <1>1
  <2>2. t[i - 1] = s[i - 1] /\ Source(t, i - 1, doc, world) = Source(s, i - 1, doc, world)
        /\ t[i].te.url = s[i].te.url /\ t[i].key = s[i].key
    BY <1>3, <1>5, <1>6, <2>1
  <2> QED
    BY <2>2 DEF Stacked
<1>9. Stacked(t, doc, world, fresh)
  BY <1>3, <1>4, <1>7, <1>8 DEF Stacked
<1> QED
  BY <1>1, <1>3, <1>5, <1>9 DEF t

LEMMA ChildPushed ==
  ASSUME NEW s, NEW doc, NEW world, NEW fresh, Stacked(s, doc, world, fresh), NEW f,
         ChildOf(Last(s), Source(s, Len(s), doc, world), world, f.te.url, f.key),
         TemplateFrame(f, world[f.te.url], world, TRUE)
  PROVE  LET t == Append(s, f)
         IN  Stacked(t, doc, world, fresh) /\ t[1].te.url = s[1].te.url
<1> DEFINE t == Append(s, f)
           n == Len(s)
           S == Range(s) \cup {f}
<1>1. n \in Nat /\ n >= 1 /\ Last(s) = s[n]
  BY TopFrame
<1>2. s \in Seq(S) /\ f \in S
  BY SeqMonotonic DEF Stacked, IsSeq
<1> HIDE DEF S
<1>3. /\ t \in Seq(S) /\ t # <<>> /\ Len(t) = n + 1 /\ t[n + 1] = f
      /\ \A i \in 1..n : t[i] = s[i]
  BY <1>2, Pushed
<1>4. IsSeq(t)
  BY <1>3, SeqIs
<1> HIDE DEF t
<1>5. \A i \in 1..n : Source(t, i, doc, world) = Source(s, i, doc, world)
  BY <1>3 DEF Source
<1>6. Source(t, n + 1, doc, world) = world[f.te.url]
  BY <1>1, <1>3 DEF Source
<1>7. ASSUME NEW i \in 1..n + 1
      PROVE  TemplateFrame(t[i], Source(t, i, doc, world), world, i > 1 \/ fresh)
  <2>1. CASE i \in 1..n
    BY <1>3, <1>5, <2>1 DEF Stacked
  <2>2. CASE i = n + 1
    <3>1. i > 1
      BY <1>1, <2>2
    <3> QED
      BY <1>3, <1>6, <2>2, <3>1 DEF TemplateFrame
  <2> QED
    BY <1>1, <2>1, <2>2
<1>8. ASSUME NEW i \in 2..n + 1
      PROVE  ChildOf(t[i - 1], Source(t, i - 1, doc, world), world, t[i].te.url, t[i].key)
  <2>1. CASE i \in 2..n
    <3>1. i - 1 \in 1..n /\ i \in 1..n
      BY <1>1, <2>1
    <3> QED
      BY <1>3, <1>5, <2>1, <3>1 DEF Stacked
  <2>2. CASE i = n + 1
    <3>1. i - 1 = n /\ n \in 1..n
      BY <1>1, <2>2
    <3> QED
      BY <1>1, <1>3, <1>5, <2>2, <3>1
  <2> QED
    BY <1>1, <2>1, <2>2
<1>9. Stacked(t, doc, world, fresh)
  BY <1>3, <1>4, <1>7, <1>8 DEF Stacked
<1> QED
  BY <1>1, <1>3, <1>9 DEF t

LEMMA ChildPopped ==
  ASSUME NEW s, NEW doc, NEW world, NEW fresh, Stacked(s, doc, world, fresh), Len(s) > 1
  PROVE  LET t == Front(s)
         IN  /\ Stacked(t, doc, world, fresh) /\ t[1].te.url = s[1].te.url
             /\ Last(s).te.url \in URLs /\ Source(s, Len(s), doc, world) = world[Last(s).te.url]
             /\ ChildOf(Last(t), Source(t, Len(t), doc, world), world, Last(s).te.url, Last(s).key)
<1> DEFINE t == Front(s)
           n == Len(s)
           S == Range(s)
<1>1. n \in Nat /\ n >= 1 /\ Last(s) = s[n]
  BY TopFrame
<1>2. s \in Seq(S) /\ s # <<>>
  BY DEF Stacked, IsSeq
<1> HIDE DEF S
<1>3. /\ t \in Seq(S) /\ Len(t) = n - 1 /\ \A i \in 1..n - 1 : t[i] = s[i]
  BY <1>2, Popped
<1>4. IsSeq(t) /\ t # <<>>
  BY <1>1, <1>3, SeqIs, EmptySeq
<1>5. Last(t) = t[n - 1]
  BY <1>3 DEF Last
<1> HIDE DEF t
<1>6. \A i \in 1..n - 1 : Source(t, i, doc, world) = Source(s, i, doc, world)
  BY <1>3 DEF Source
<1>7. ASSUME NEW i \in 1..n - 1
      PROVE  TemplateFrame(t[i], Source(t, i, doc, world), world, i > 1 \/ fresh)
  <2>1. i \in 1..n
    BY <1>1
  <2> QED
    BY <1>3, <1>6, <2>1 DEF Stacked
<1>8. ASSUME NEW i \in 2..n - 1
      PROVE  ChildOf(t[i - 1], Source(t, i - 1, doc, world), world, t[i].te.url, t[i].key)
  <2>1. i - 1 \in 1..n - 1 /\ i \in 1..n - 1 /\ i \in 2..n
    BY <1>1
  <2> QED
    BY <1>3, <1>6, <2>1 DEF Stacked
<1>9. Stacked(t, doc, world, fresh)
  BY <1>3, <1>4, <1>7, <1>8 DEF Stacked
<1>10. n \in 2..n /\ n - 1 \in 1..n - 1
  BY <1>1
<1>11. ChildOf(s[n - 1], Source(s, n - 1, doc, world), world, s[n].te.url, s[n].key)
  BY <1>10 DEF Stacked
<1>12. s[n].te.url \in URLs /\ Source(s, n, doc, world) = world[s[n].te.url]
  <2>1. s[n].te.url \in URLs
    BY <1>11 DEF ChildOf
  <2>2. n # 1
    BY <1>1
  <2> QED
    BY <2>1, <2>2 DEF Source
<1> QED
  BY <1>1, <1>3, <1>5, <1>6, <1>9, <1>10, <1>11, <1>12 DEF t

-----------------------------------------------------------------------------
(* The steps of the walk through a template. *)
LEMMA Following ==
  ASSUME NEW f, NEW doc, NEW world, NEW fresh, TemplateFrame(f, doc, world, fresh), IsWorld(world),
         f.open # <<>>, NEW key \in Last(f.open).left,
         NEW v, v = f.parsed[Last(f.open).map][key], Refers("template", key, v),
         NEW u, u = Resolve(Base(f.te.url), v.to)
  PROVE  /\ u \in URLs
         /\ world[u].kind = "template" => ChildOf(f, doc, world, u, key)
<1> DEFINE o == Last(f.open)
           dir == Base(f.te.url)
<1>1. /\ WellFormed(doc.maps) /\ dir \in Dirs /\ "template" \in Walks
      /\ FrameOK(f, "template", doc.maps, dir, world)
  BY FrameParts
<1>2. /\ <<o.map, key>> \in Places("template", doc.maps)
      /\ u = Resolve(dir, doc.maps[o.map][key].to) /\ u \in URLs
  <2>1. Matches("template", doc.maps, dir, f, key)
    BY <1>1, TopValue
  <2> QED
    BY <2>1 DEF Matches
<1> QED
  BY <1>2 DEF ChildOf

(* The reference that a child is there for. *)
LEMMA ChildIsFor ==
  ASSUME NEW f, NEW doc, NEW world, NEW fresh, TemplateFrame(f, doc, world, fresh),
         NEW u, NEW key, ChildOf(f, doc, world, u, key)
  PROVE  /\ f.open # <<>> /\ key \in Last(f.open).left
         /\ Refers("template", key, f.parsed[Last(f.open).map][key])
         /\ u = Resolve(Base(f.te.url), f.parsed[Last(f.open).map][key].to)
<1> DEFINE o == Last(f.open)
           dir == Base(f.te.url)
<1>1. /\ WellFormed(doc.maps) /\ dir \in Dirs /\ "template" \in Walks
      /\ FrameOK(f, "template", doc.maps, dir, world)
  BY FrameParts
<1>2. /\ f.open # <<>> /\ key \in o.left /\ <<o.map, key>> \in Places("template", doc.maps)
      /\ u = Resolve(dir, doc.maps[o.map][key].to)
  BY DEF ChildOf
<1>3. Refers("template", key, doc.maps[o.map][key])
  BY <1>1, <1>2, PlacesAre
<1>4. /\ Refers("template", key, f.parsed[o.map][key]) <=> Refers("template", key, doc.maps[o.map][key])
      /\ Refers("template", key, f.parsed[o.map][key]) =>
           Resolve(dir, f.parsed[o.map][key].to) = Resolve(dir, doc.maps[o.map][key].to)
  <2>1. Matches("template", doc.maps, dir, f, key)
    BY <1>1, <1>2, TopValue
  <2> QED
    BY <2>1 DEF Matches
<1> QED
  BY <1>2, <1>3, <1>4

LEMMA ChildAdopted ==
  ASSUME NEW s, NEW doc, NEW world, IsWorld(world), NEW fresh, Stacked(s, doc, world, fresh),
         Len(s) > 1, Last(s).open = <<>>
  PROVE  LET t == Append(Front(Front(s)), Adopt(Last(Front(s)), Last(s).key, Last(s).te))
         IN  Stacked(t, doc, world, fresh) /\ t[1].te.url = s[1].te.url
<1> DEFINE r == Front(s)
           child == Last(s)
           f == Last(r)
           d == Source(r, Len(r), doc, world)
           key == child.key
           v == f.parsed[Last(f.open).map][key]
           g == Adopt(f, key, child.te)
           t == Append(Front(r), g)
<1>1. /\ Stacked(r, doc, world, fresh) /\ r[1].te.url = s[1].te.url
      /\ child.te.url \in URLs /\ Source(s, Len(s), doc, world) = world[child.te.url]
      /\ ChildOf(f, d, world, child.te.url, child.key)
  BY ChildPopped
<1>2. TemplateFrame(child, world[child.te.url], world, TRUE)
  BY <1>1, TopFrame
<1>3. world[child.te.url].kind = "template" /\ child.open = <<>>
  BY <1>1 DEF ChildOf
<1>4. Whole("template", world, child.te)
  BY <1>1, <1>2, <1>3, ChildIsWhole
<1>5. TemplateFrame(f, d, world, Len(r) > 1 \/ fresh)
  BY <1>1, TopFrame
<1> HIDE DEF child, d, f, r
<1>6. /\ f.open # <<>> /\ key \in Last(f.open).left
      /\ Refers("template", key, v) /\ child.te.url = Resolve(Base(f.te.url), v.to)
  BY <1>1, <1>5, ChildIsFor
<1>7. TemplateFrame(g, d, world, Len(r) > 1 \/ fresh) /\ g.key = f.key /\ g.te.url = f.te.url
  <2> DEFINE alone == Len(r) > 1 \/ fresh
             te == child.te
  <2>1. /\ TemplateFrame(f, d, world, alone) /\ v = f.parsed[Last(f.open).map][key]
        /\ te.url = Resolve(Base(f.te.url), v.to) /\ Whole("template", world, te)
    BY <1>4, <1>5, <1>6
  <2> HIDE DEF alone, te, v, key
  <2>2. LET h == Adopt(f, key, te)
        IN  TemplateFrame(h, d, world, alone) /\ h.key = f.key /\ h.te.url = f.te.url
    BY <1>6, <2>1, AdoptedFrame
  <2> QED
    BY <2>2 DEF alone, te
<1> HIDE DEF g, v
<1>8. Stacked(t, doc, world, fresh) /\ t[1].te.url = r[1].te.url
  BY <1>1, <1>7, TopReplaced DEF f, d
<1> QED
  BY <1>1, <1>8 DEF t, g, f, key, child, r

-----------------------------------------------------------------------------
(* The frame of the walk through the environment. *)
LEMMA RegistryFrame ==
  ASSUME NEW f, NEW maps, WellFormed(maps), NEW now, NEW world, EnvironmentFrame(f, maps, now, world)
  PROVE  /\ "environment" \in Walks /\ Cwd \in Dirs
         /\ FrameOK(f, "environment", maps, Cwd, world)
         /\ IsFrame(f) /\ IsTE(f.te) /\ IsDoc(f.te.bin)
         /\ Partly("environment", maps, f.parsed, Cwd, Held("environment", f.te.files))
  BY StackFilesAssumption DEF EnvironmentFrame, FrameOK, Shape, Walks

LEMMA KeptInRegistry ==
  ASSUME NEW f, NEW maps, WellFormed(maps), NEW now, NEW world, EnvironmentFrame(f, maps, now, world),
         f.open # <<>>, NEW key \in Last(f.open).left,
         f.parsed[Last(f.open).map][key].is \in {"string", "number"},
         ~ Refers("environment", key, f.parsed[Last(f.open).map][key])
  PROVE  EnvironmentFrame(Done(f, key), maps, now, world)
<1> DEFINE g == Done(f, key)
<1>1. /\ "environment" \in Walks /\ Cwd \in Dirs
      /\ FrameOK(f, "environment", maps, Cwd, world) /\ IsFrame(f)
  BY RegistryFrame
<1>2. g.te = f.te /\ g.parsed = f.parsed
  BY <1>1, DoneIs
<1>3. FrameOK(g, "environment", maps, Cwd, world)
  BY <1>1, Kept
<1> HIDE DEF g
<1>4. EnvironmentFrame(g, maps, now, world)
  BY <1>2, <1>3 DEF EnvironmentFrame
<1> QED
  BY <1>4 DEF g

LEMMA EnteredInRegistry ==
  ASSUME NEW f, NEW maps, WellFormed(maps), NEW now, NEW world, EnvironmentFrame(f, maps, now, world),
         f.open # <<>>, NEW key \in Last(f.open).left,
         f.parsed[Last(f.open).map][key].is \in {"map", "list"}, NEW o2,
         o2 = Open(f.parsed[Last(f.open).map][key].to, f.parsed)
  PROVE  EnvironmentFrame(Into(f, key, o2), maps, now, world)
<1> DEFINE h == Done(f, key)
           new == Append(h.open, o2)
           g == [h EXCEPT !.open = new]
<1>1. /\ "environment" \in Walks /\ Cwd \in Dirs
      /\ FrameOK(f, "environment", maps, Cwd, world) /\ IsFrame(f)
  BY RegistryFrame
<1>2. IsFrame(h) /\ h.te = f.te /\ h.parsed = f.parsed
  BY <1>1, DoneIs
<1>3. FrameOK(Into(f, key, o2), "environment", maps, Cwd, world)
  BY <1>1, Entered
<1>6. g = Into(f, key, o2)
  BY DEF Into
<1> HIDE DEF new, h
<1>4. g.te = f.te /\ g.parsed = f.parsed
  BY <1>2, SetOpen
<1> HIDE DEF g
<1>5. EnvironmentFrame(g, maps, now, world)
  BY <1>3, <1>4, <1>6 DEF EnvironmentFrame
<1> QED
  BY <1>5, <1>6

LEMMA LeftInRegistry ==
  ASSUME NEW f, NEW maps, WellFormed(maps), NEW now, NEW world, EnvironmentFrame(f, maps, now, world),
         f.open # <<>>, Last(f.open).left = {}, NEW te,
         te = IF Last(f.open).updated THEN Marshalled(f.te, f.parsed) ELSE f.te
  PROVE  EnvironmentFrame(Closed(f, te), maps, now, world)
<1> DEFINE g == Closed(f, te)
<1>1. /\ "environment" \in Walks /\ Cwd \in Dirs
      /\ FrameOK(f, "environment", maps, Cwd, world)
      /\ IsFrame(f) /\ IsTE(f.te) /\ IsDoc(f.te.bin)
  BY RegistryFrame
<1>2. IsTE(te) /\ IsDoc(te.bin) /\ te.files = f.te.files /\ te.url = f.te.url
  BY <1>1, MarshalledIs
<1>3. g.te = te /\ g.parsed = f.parsed
  BY <1>1, ClosedIs
<1>4. FrameOK(g, "environment", maps, Cwd, world)
  BY <1>1, <1>2, ClosedOK
<1> HIDE DEF g
<1>5. EnvironmentFrame(g, maps, now, world)
  BY <1>2, <1>3, <1>4 DEF EnvironmentFrame
<1> QED
  BY <1>5 DEF g

LEMMA FollowedInRegistry ==
  ASSUME NEW f, NEW maps, WellFormed(maps), NEW now, NEW world, EnvironmentFrame(f, maps, now, world),
         IsWorld(world), f.open # <<>>, NEW key \in Last(f.open).left,
         NEW v, v = f.parsed[Last(f.open).map][key], Refers("environment", key, v),
         NEW u, u = Resolve(Cwd, v.to)
  PROVE  EnvironmentFrame(Adopt(f, key, TE(u, world[u])), maps, now, world)
<1> DEFINE child == TE(u, world[u])
           g == Adopt(f, key, child)
           o == Last(f.open)
<1>1. /\ "environment" \in Walks /\ Cwd \in Dirs
      /\ FrameOK(f, "environment", maps, Cwd, world)
      /\ Partly("environment", maps, f.parsed, Cwd, Held("environment", f.te.files))
  BY RegistryFrame
<1>4. u \in URLs
  <2>1. Matches("environment", maps, Cwd, f, key)
    BY <1>1, TopValue
  <2> QED
    BY <2>1 DEF Matches
<1>5. Whole("environment", world, child) /\ child.url = u
  BY <1>1, <1>4, LeafIsWhole DEF TE
<1> HIDE DEF child
<1>6. /\ FrameOK(g, "environment", maps, Cwd, world)
      /\ g.te.url = f.te.url /\ child.url \in DOMAIN g.te.files
      /\ Own("environment", maps, Cwd, world, f.te.files) => Own("environment", maps, Cwd, world, g.te.files)
  <2> DEFINE walk == "environment"
             dir == Cwd
  <2>1. /\ WellFormed(maps) /\ dir \in Dirs /\ walk \in Walks /\ FrameOK(f, walk, maps, dir, world)
        /\ f.open # <<>> /\ key \in Last(f.open).left /\ v = f.parsed[Last(f.open).map][key]
        /\ Refers(walk, key, v) /\ child.url = Resolve(dir, v.to) /\ Whole(walk, world, child)
    BY <1>1, <1>5
  <2> HIDE DEF dir, walk
  <2>2. Grown(f, g, child.url, walk, maps, dir, world)
    BY ONLY <2>1, Adopted
  <2> HIDE DEF g
  <2> QED
    BY <2>2 DEF dir, walk, Grown
<1> HIDE DEF g
<1>7. g.te.files # <<>>
  BY <1>6
<1>8. EnvironmentFrame(g, maps, now, world)
  BY <1>6, <1>7 DEF EnvironmentFrame
<1> QED
  BY <1>8 DEF g, child

LEMMA NewTE ==
  ASSUME NEW url, NEW bin
  PROVE  /\ IsTE(TE(url, bin)) /\ TE(url, bin).url = url /\ TE(url, bin).bin = bin
         /\ TE(url, bin).files = <<>> /\ DOMAIN TE(url, bin).files = {}
<1>1. TE(url, bin) = [url |-> url, bin |-> bin, files |-> <<>>]
  BY DEF TE
<1> QED
  BY <1>1 DEF IsTE

LEMMA NoDocIs ==
  /\ IsDoc(NoDoc) /\ NoDoc.kind = "none"
  /\ \A d : Document(d) => IsDoc(d) /\ d # NoDoc
<1>1. IsDoc(NoDoc) /\ NoDoc.kind = "none"
  BY DEF NoDoc, IsDoc
<1>2. ASSUME NEW d, Document(d) PROVE IsDoc(d) /\ d.kind # "none"
  BY <1>2 DEF Document, IsDoc
<1> QED
  BY <1>1, <1>2

LEMMA RegistryStarted ==
  ASSUME NEW maps, WellFormed(maps), Registry(maps).is = "map", NEW now, NEW world,
         Partly("environment", maps, now, Cwd, URLs), NEW f,
         f = [te |-> TE("", NoDoc), parsed |-> now, key |-> "", open |-> <<Open(Registry(now).to, now)>>]
  PROVE  EnvironmentFrame(f, maps, now, world)
<1> DEFINE r == Registry(maps).to
<1>1. "environment" \in Walks /\ Cwd \in Dirs
  BY StackFilesAssumption DEF Walks
<1>2. Registry(now) = Registry(maps)
  BY <1>1, PartlySame
<1>3. /\ f.te = TE("", NoDoc) /\ f.parsed = now /\ f.open = <<Open(r, f.parsed)>>
      /\ IsFrame(f)
  BY <1>2 DEF IsFrame
<1>4. /\ IsTE(f.te) /\ IsDoc(f.te.bin) /\ f.te.url = "" /\ DOMAIN f.te.files = {}
  <2> DEFINE te == TE("", NoDoc)
  <2>1. f.te = te /\ IsTE(te) /\ te.bin = NoDoc /\ te.url = "" /\ DOMAIN te.files = {}
    BY <1>3, NewTE
  <2> HIDE DEF te
  <2> QED
    BY <2>1, NoDocIs
<1>5. Roots("environment", maps) = {r}
  BY DEF Roots
<1>6. FrameOK(f, "environment", maps, Cwd, world)
  BY <1>1, <1>3, <1>4, <1>5, Started DEF Held
<1>7. Own("environment", maps, Cwd, world, f.te.files)
  BY <1>4 DEF Own
<1> QED
  BY <1>3, <1>4, <1>6, <1>7 DEF EnvironmentFrame

(* The next resource is walked again. *)
LEMMA ResourceOpened ==
  ASSUME NEW f, NEW maps, WellFormed(maps), NEW now, NEW world, EnvironmentFrame(f, maps, now, world),
         f.open = <<>>, NEW m \in Walked("environment", maps), NEW open, open = <<Open(m, f.parsed)>>
  PROVE  EnvironmentFrame([f EXCEPT !.open = open], maps, now, world)
<1> DEFINE g == [f EXCEPT !.open = open]
           o == Open(m, f.parsed)
<1>1. /\ "environment" \in Walks /\ Cwd \in Dirs
      /\ FrameOK(f, "environment", maps, Cwd, world)
      /\ IsFrame(f) /\ IsTE(f.te) /\ IsDoc(f.te.bin)
      /\ Partly("environment", maps, f.parsed, Cwd, Held("environment", f.te.files))
  BY RegistryFrame
<1>2. IsFrame(g) /\ g.te = f.te /\ g.parsed = f.parsed /\ g.open = open
  BY <1>1, SetOpen
<1> HIDE DEF g
<1>3. m \in DOMAIN maps /\ DOMAIN f.parsed[m] = DOMAIN maps[m]
  BY <1>1, WalkedIn, PartlySame
<1>4. o \in Opened(maps) /\ o.map = m /\ o.left = DOMAIN maps[m]
  <2> DEFINE parsed == f.parsed
  <2>1. DOMAIN parsed[m] = DOMAIN maps[m]
    BY <1>3
  <2> HIDE DEF parsed
  <2>2. /\ Open(m, parsed) \in Opened(maps) /\ Open(m, parsed).map = m
        /\ Open(m, parsed).left = DOMAIN maps[m]
    BY <1>3, <2>1, OpenIs
  <2> QED
    BY <2>2 DEF parsed
<1> HIDE DEF o
<1>5. open \in Seq(Opened(maps)) /\ Len(open) = 1 /\ open[1] = o
  BY <1>4, OneElement DEF o
<1>6. OpenOK(open, "environment", maps)
  BY <1>4, <1>5 DEF OpenOK
<1>7. \A p \in Places("environment", maps) : ~ Pending(f.open, maps, p[1], p[2])
  <2>1. Len(f.open) = 0
    BY EmptySeq
  <2> QED
    BY <2>1 DEF Pending
<1>8. Shape(g, maps)
  BY <1>1, <1>2, <1>5 DEF Shape
<1>9. FrameOK(g, "environment", maps, Cwd, world)
  BY <1>1, <1>2, <1>6, <1>7, <1>8, StillOK
<1>10. EnvironmentFrame(g, maps, now, world)
  BY <1>2, <1>9 DEF EnvironmentFrame
<1> QED
  BY <1>10 DEF g

LEMMA ResourcesAreWalked ==
  ASSUME NEW maps, WellFormed(maps), Registry(maps).is = "map", NEW held, NEW now,
         Partly("environment", maps, now, Cwd, held)
  PROVE  Resources(now) \subseteq Walked("environment", maps)
<1>1. "environment" \in Walks /\ Cwd \in Dirs
  BY StackFilesAssumption DEF Walks
<1>2. /\ WellFormed(now) /\ Walked("environment", now) = Walked("environment", maps)
      /\ Registry(now) = Registry(maps)
  BY <1>1, PartlySame
<1> DEFINE r == Registry(now).to
           k == now[r]["resources"]
<1>3. r \in Walked("environment", now) /\ r \in DOMAIN now
  BY <1>1, <1>2, WalkedIn DEF Roots
<1>4. CASE "resources" \in DOMAIN now[r] /\ k.is = "map"
  <2>1. k.to \in Walked("environment", now) /\ k.to \in DOMAIN now
    BY <1>1, <1>2, <1>3, <1>4, WalkedIn
  <2>2. \A x \in Resources(now) : \E j \in DOMAIN now[k.to] : now[k.to][j].is = "map" /\ now[k.to][j].to = x
    BY <1>4 DEF Resources, Range
  <2> QED
    BY <1>1, <1>2, <2>1, <2>2, WalkedIn
<1>5. CASE ~ ("resources" \in DOMAIN now[r] /\ k.is = "map")
  BY <1>5 DEF Resources
<1> QED
  BY <1>4, <1>5

-----------------------------------------------------------------------------
(* What has been walked is whole, and so is what is uploaded. *)
LEMMA TemplateWalked ==
  ASSUME NEW f, NEW doc, IsDoc(doc), NEW world, NEW fresh, TemplateFrame(f, doc, world, fresh),
         f.open = <<>>
  PROVE  IsWhole("template", f.te, doc, Base(f.te.url), world, fresh)
<1> DEFINE dir == Base(f.te.url)
<1>1. /\ WellFormed(doc.maps) /\ dir \in Dirs /\ "template" \in Walks
      /\ FrameOK(f, "template", doc.maps, dir, world) /\ IsDoc(f.te.bin)
  BY FrameParts
<1>2. /\ f.parsed = WithURLs("template", doc.maps, dir)
      /\ \A u \in Named("template", doc.maps, dir) : Given("template", world, f.te.files, u)
  BY <1>1, WalkedThrough
<1>3. f.te.bin.kind = doc.kind /\ f.te.bin.maps = f.parsed
  <2>1. Len(f.open) = 0
    BY EmptySeq
  <2>2. ~ SomeUpdated(f.open)
    BY <2>1 DEF SomeUpdated
  <2>3. Rendered(f, doc.maps, dir) /\ f.te.bin.kind = doc.kind
    BY DEF TemplateFrame
  <2> QED
    BY <2>2, <2>3 DEF Rendered
<1>4. f.te.bin = Resolved("template", doc, dir)
  BY <1>1, <1>2, <1>3, ResolvedIs, SameDoc
<1>5. fresh => Own("template", doc.maps, dir, world, f.te.files)
  BY DEF TemplateFrame
<1> QED
  BY <1>1, <1>2, <1>4, <1>5 DEF IsWhole

LEMMA EnvironmentWalked ==
  ASSUME NEW f, NEW doc, IsDoc(doc), WellFormed(doc.maps), NEW e, IsDoc(e.bin), e.bin.kind = doc.kind,
         NEW world, EnvironmentFrame(f, doc.maps, e.bin.maps, world), f.open = <<>>,
         NEW t, t.files = f.te.files, IsDoc(t.bin), t.bin.kind = e.bin.kind,
         t.bin.maps = IF f.te.files # <<>> THEN f.parsed ELSE e.bin.maps
  PROVE  IsWhole("environment", t, doc, Cwd, world, TRUE)
<1>1. /\ "environment" \in Walks /\ Cwd \in Dirs
      /\ FrameOK(f, "environment", doc.maps, Cwd, world)
      /\ Own("environment", doc.maps, Cwd, world, f.te.files)
      /\ e.bin.maps = f.parsed \/ f.te.files # <<>>
  BY RegistryFrame DEF EnvironmentFrame
<1>2. /\ f.parsed = WithURLs("environment", doc.maps, Cwd)
      /\ \A u \in Named("environment", doc.maps, Cwd) : Given("environment", world, f.te.files, u)
  BY <1>1, WalkedThrough
<1>3. t.bin.maps = f.parsed
  BY <1>1
<1>4. t.bin = Resolved("environment", doc, Cwd)
  BY <1>2, <1>3, ResolvedIs, SameDoc
<1> QED
  BY <1>1, <1>2, <1>4 DEF IsWhole

(* An environment without a registry names no files. *)
LEMMA NoRegistryIsWhole ==
  ASSUME NEW doc, IsDoc(doc), WellFormed(doc.maps), Registry(doc.maps).is # "map",
         NEW e, IsDoc(e.bin), e.bin.kind = doc.kind, e.files = <<>>,
         Partly("environment", doc.maps, e.bin.maps, Cwd, URLs), NEW world
  PROVE  IsWhole("environment", e, doc, Cwd, world, TRUE)
<1>1. "environment" \in Walks /\ Cwd \in Dirs
  BY StackFilesAssumption DEF Walks
<1>2. Places("environment", doc.maps) = {}
  BY <1>1, NoRootsNoPlaces DEF Roots
<1>3. e.bin.maps = WithURLs("environment", doc.maps, Cwd)
  BY <1>1, <1>2, AllReplaced
<1>4. e.bin = Resolved("environment", doc, Cwd)
  BY <1>3, ResolvedIs, SameDoc
<1>5. Named("environment", doc.maps, Cwd) = {} /\ DOMAIN e.files = {}
  BY <1>2 DEF Named
<1> QED
  BY <1>4, <1>5 DEF IsWhole, Own

LEMMA WholeIsComplete ==
  ASSUME NEW world, IsWorld(world), NEW orig, NEW dir \in Dirs, NEW fresh, NEW with, NEW t, NEW e,
         "template" \in with => IsWhole("template", t, orig.template, dir, world, fresh),
         IF "environment" \in with
         THEN IsWhole("environment", e, orig.environment, Cwd, world, TRUE) ELSE e.files = <<>>,
         NEW own, own = IF "template" \in with THEN t.files ELSE <<>>, NEW up,
         "template" \in with => up.template = t.bin, up.environment = e.bin,
         up.files = Copied(e.files, own)
  PROVE  Complete(up, world, with, orig, dir, fresh)
<1> DEFINE roots == Named("template", orig.template.maps, dir)
           led   == IF "template" \in with THEN LedTo(world, roots) ELSE {}
           named == IF "environment" \in with THEN Named("environment", orig.environment.maps, Cwd) ELSE {}
           first == e.files
           files == up.files
           next == Leads(world)
<1>1. DOMAIN next = URLs /\ Inside(next)
  BY LeadsIn
<1>2. "template" \in with => roots \subseteq URLs
  BY NamedIn DEF IsWhole, Walks
<1>3. files = Copied(first, own)
  OBVIOUS
<1>4. ASSUME "template" \in with, NEW v \in roots
      PROVE  LedTo(world, {v}) \subseteq LedTo(world, roots) /\ Given("template", world, own, v)
  <2>1. Given("template", world, own, v)
    BY <1>4 DEF IsWhole
  <2>2. v \in URLs
    BY <1>2, <1>4
  <2> HIDE DEF roots, next
  <2>3. v \in Reached(next, roots)
    BY <1>1, <1>4, <2>2, ReachedStart
  <2>4. Reached(next, {v}) \subseteq Reached(next, roots)
    BY <1>1, <2>3, ReachedMore
  <2> QED
    BY <2>1, <2>4 DEF LedTo, next
<1>5. ASSUME "template" \in with, NEW u \in LedTo(world, roots)
      PROVE  \E v \in roots : u \in LedTo(world, {v})
  <2>1. u \in Reached(next, roots) /\ roots \in SUBSET DOMAIN next
    BY <1>1, <1>2, <1>5 DEF LedTo
  <2> HIDE DEF roots, next
  <2>2. \E v \in roots : u \in Reached(next, {v})
    BY <1>1, <2>1, ReachedFromOne
  <2> QED
    BY <2>2 DEF LedTo, next
<1> HIDE DEF next
<1>6. \A u \in led : u \in DOMAIN own /\ own[u] = Uploaded(world, u)
  <2> SUFFICES ASSUME NEW u \in led PROVE u \in DOMAIN own /\ own[u] = Uploaded(world, u)
    OBVIOUS
  <2>1. "template" \in with /\ u \in LedTo(world, roots)
    OBVIOUS
  <2>2. PICK v \in roots : u \in LedTo(world, {v})
    BY <1>5, <2>1
  <2>3. Given("template", world, own, v)
    BY <1>4, <2>1
  <2> HIDE DEF roots
  <2> QED
    BY <2>2, <2>3 DEF Given, Needs, As
<1>7. \A u \in named : u \in DOMAIN first /\ first[u] = world[u]
  BY DEF IsWhole, Given, Needs, As
<1>8. DOMAIN first \subseteq named
  <2>1. CASE "environment" \in with
    BY <2>1 DEF IsWhole, Own, Needs
  <2>2. CASE "environment" \notin with
    BY <2>2
  <2> QED
    BY <2>1, <2>2
<1>9. fresh => DOMAIN own \subseteq led
  <2>1. CASE "template" \in with
    <3> SUFFICES ASSUME fresh, NEW u \in DOMAIN own PROVE u \in led
      OBVIOUS
    <3>1. PICK v \in roots : u \in Needs("template", world, v)
      BY <2>1 DEF IsWhole, Own
    <3> QED
      BY <1>4, <2>1, <3>1 DEF Needs
  <2>2. CASE "template" \notin with
    BY <2>2
  <2> QED
    BY <2>1, <2>2
<1>10. "template" \in with => up.template = Resolved("template", orig.template, dir)
  BY DEF IsWhole
<1>11. "environment" \in with => up.environment = Resolved("environment", orig.environment, Cwd)
  BY DEF IsWhole
<1> HIDE DEF led, named, first, files
<1>12. /\ DOMAIN files = DOMAIN first \cup DOMAIN own
       /\ \A u \in DOMAIN first : files[u] = first[u]
       /\ \A u \in DOMAIN own : u \notin DOMAIN first => files[u] = own[u]
  BY <1>3 DEF Copied
<1>13. led \cup named \subseteq DOMAIN files
  BY <1>6, <1>7, <1>12
<1>14. \A u \in named : files[u] = world[u]
  BY <1>7, <1>12
<1>15. \A u \in led \ named : files[u] = Uploaded(world, u)
  BY <1>6, <1>8, <1>12
<1>16. fresh => DOMAIN files = led \cup named
  BY <1>6, <1>7, <1>8, <1>9, <1>12
<1> QED
  BY <1>10, <1>11, <1>13, <1>14, <1>15, <1>16 DEF Complete, led, named, files

-----------------------------------------------------------------------------
(* Fetching, and the documents as they were written. *)
LEMMA FetchedIs ==
  ASSUME NEW te, IsTE(te), NEW world
  PROVE  LET t == Fetched(te, world)
             u == Resolve(Cwd, te.url)
         IN  /\ IsTE(t) /\ t.files = te.files
             /\ te.bin # NoDoc => t = te
             /\ te.bin = NoDoc => /\ t.url = u
                                  /\ t.bin = IF world[u] = NoFile THEN NoDoc ELSE world[u]
<1> DEFINE u == Resolve(Cwd, te.url)
           bin == IF world[u] = NoFile THEN NoDoc ELSE world[u]
           t1 == [te EXCEPT !.url = u]
           t2 == [t1 EXCEPT !.bin = bin]
<1>1. CASE te.bin # NoDoc
  BY <1>1 DEF Fetched
<1>2. CASE te.bin = NoDoc
  <2>1. Fetched(te, world) = t2
    BY <1>2 DEF Fetched
  <2> HIDE DEF u, bin
  <2>2. t1 = [url |-> u, bin |-> te.bin, files |-> te.files]
    BY DEF IsTE
  <2>3. IsTE(t1) /\ t1.url = u /\ t1.files = te.files
    BY <2>2 DEF IsTE
  <2> HIDE DEF t1
  <2>4. t2 = [url |-> t1.url, bin |-> bin, files |-> t1.files]
    BY <2>3 DEF IsTE
  <2>5. IsTE(t2) /\ t2.url = u /\ t2.files = te.files /\ t2.bin = bin
    BY <2>3, <2>4 DEF IsTE
  <2> HIDE DEF t2
  <2> QED
    BY <1>2, <2>1, <2>5 DEF u, bin
<1> QED
  BY <1>1, <1>2

LEMMA OptionsFetched ==
  ASSUME NEW walk, NEW te, NEW doc, NEW dir, NEW held, Options(walk, te, doc, dir, held),
         NEW world, IsWorld(world), NEW t, t = Fetched(te, world),
         NEW d, d = (IF doc = NoDoc THEN t.bin ELSE doc), NEW dir2, NEW held2,
         te.bin # NoDoc => dir2 = dir /\ held2 = held
  PROVE  Options(walk, t, d, dir2, held2) /\ t.files = te.files
<1>1. IsTE(te)
  BY DEF Options
<1>2. CASE te.bin # NoDoc
  <2>1. t = te /\ d = doc /\ dir2 = dir /\ held2 = held
    BY <1>1, <1>2, FetchedIs DEF Options
  <2> QED
    BY <2>1
<1>3. CASE te.bin = NoDoc
  <2> DEFINE u == Resolve(Cwd, te.url)
  <2>1. /\ IsTE(t) /\ t.files = <<>> /\ t.files = te.files /\ t.url = u /\ d = t.bin
        /\ t.bin = IF world[u] = NoFile THEN NoDoc ELSE world[u]
        /\ te.url \in Refs
    BY <1>1, <1>3, FetchedIs DEF Options
  <2>2. u \in URLs /\ u \in Refs
    BY <2>1, Resolving, StackFilesAssumption
  <2> HIDE DEF u
  <2>3. CASE t.bin = NoDoc
    <3>1. ~ Parses(t)
      BY <2>3, NoDocIs DEF Parses
    <3> QED
      BY <2>1, <2>2, <2>3, <3>1 DEF Options
  <2>4. CASE t.bin # NoDoc
    <3>1. t.bin = world[u] /\ Document(d)
      BY <2>1, <2>2, <2>4 DEF IsWorld
    <3>2. IsDoc(t.bin)
      BY <2>1, <3>1, NoDocIs
    <3>3. Parses(t) => WellFormed(d.maps)
      BY <2>1, <3>1 DEF Parses, Document
    <3>4. Parses(t) => Partly(walk, d.maps, t.bin.maps, dir2, held2)
      BY <2>1, <3>3, NothingReplaced
    <3> QED
      BY <2>1, <2>2, <2>4, <3>1, <3>2, <3>4 DEF Options
  <2> QED
    BY <2>1, <2>3, <2>4
<1> QED
  BY <1>2, <1>3

(* What can be parsed is a document with maps. *)
LEMMA ParsedOptions ==
  ASSUME NEW walk, NEW te, NEW doc, NEW dir, NEW held, Options(walk, te, doc, dir, held), Parses(te)
  PROVE  /\ IsTE(te) /\ te.bin # NoDoc /\ IsDoc(te.bin) /\ te.bin.kind = doc.kind
         /\ te.url \in URLs \cup {""}
         /\ IsDoc(doc) /\ WellFormed(doc.maps) /\ doc.kind \in {"template", "map"}
         /\ Partly(walk, doc.maps, te.bin.maps, dir, held)
<1>1. te.bin # NoDoc
  BY NoDocIs DEF Parses
<1>2. /\ IsTE(te) /\ IsDoc(te.bin) /\ te.bin.kind = doc.kind /\ te.url \in URLs \cup {""} /\ Document(doc)
      /\ Partly(walk, doc.maps, te.bin.maps, dir, held)
  BY <1>1 DEF Options
<1>3. doc.kind \in {"template", "map"}
  BY <1>2 DEF Parses
<1>4. IsDoc(doc) /\ WellFormed(doc.maps)
  BY <1>2, <1>3, NoDocIs DEF Document
<1> QED
  BY <1>1, <1>2, <1>3, <1>4

(* Options of which this is known are as they should be. *)
LEMMA OptionsWalked ==
  ASSUME NEW walk, NEW t, NEW doc, NEW dir, NEW held, IsTE(t), IsDoc(t.bin), t.bin.kind = doc.kind,
         t.url \in URLs \cup {""}, Document(doc), Partly(walk, doc.maps, t.bin.maps, dir, held)
  PROVE  Options(walk, t, doc, dir, held)
<1>1. doc # NoDoc /\ doc.kind # "none"
  BY NoDocIs DEF Document
<1>2. t.bin # NoDoc
  BY <1>1, NoDocIs
<1> QED
  BY <1>1, <1>2 DEF Options

-----------------------------------------------------------------------------
(* The steps of the two walks leave all but the stack alone. *)
Others == <<content, tmpl, env, pc, parts, todo, upload, calls, original>>

LEMMA LenOne ==
  ASSUME NEW s, Len(s) = 1
  PROVE  s # <<>>
<1>1. Len(<<>>) = 0
  BY EmptySeq
<1> QED
  BY <1>1

LEMMA TemplateStep ==
  ASSUME IInv, pc = "template", UNCHANGED Others,
         Stacked(stack', original.template, content, calls = 1), stack'[1].te.url = stack[1].te.url
  PROVE  IInv'
<1>1. ControlInv' /\ OptionsInv' /\ UploadInv'
  BY DEF IInv, ControlInv, OptionsInv, UploadInv, Others, TemplateIsWhole
<1>2. TemplateInv'
  BY DEF IInv, TemplateInv, Others
<1>3. EnvironmentInv'
  BY DEF EnvironmentInv, Others
<1> QED
  BY <1>1, <1>2, <1>3 DEF IInv

LEMMA TemplateTop ==
  ASSUME IInv, pc = "template", UNCHANGED Others, NEW g, SetTop(g), g.key = F.key, g.te.url = F.te.url,
         TemplateFrame(g, Source(stack, Len(stack), original.template, content), content,
                       Len(stack) > 1 \/ calls = 1)
  PROVE  IInv'
<1>1. Stacked(stack, original.template, content, calls = 1)
  BY DEF IInv, TemplateInv
<1>2. stack' = Append(Front(stack), g)
  BY DEF SetTop
<1>3. g.key = Last(stack).key /\ g.te.url = Last(stack).te.url
  BY DEF F
<1>4. Stacked(stack', original.template, content, calls = 1) /\ stack'[1].te.url = stack[1].te.url
  <2> DEFINE fresh == calls = 1
             doc == original.template
  <2>1. /\ Stacked(stack, doc, content, fresh)
        /\ TemplateFrame(g, Source(stack, Len(stack), doc, content), content, Len(stack) > 1 \/ fresh)
    BY <1>1
  <2> HIDE DEF fresh, doc
  <2>2. LET t == Append(Front(stack), g)
        IN  Stacked(t, doc, content, fresh) /\ t[1].te.url = stack[1].te.url
    BY <1>3, <2>1, TopReplaced
  <2> QED
    BY <1>2, <2>2 DEF fresh, doc
<1> QED
  BY <1>4, TemplateStep

LEMMA RegistryStep ==
  ASSUME IInv, pc \in {"registry", "resources"}, UNCHANGED <<content, tmpl, env, parts, upload, calls, original>>,
         pc' \in {"registry", "resources"}, pc' # "resources" => todo' = {},
         todo' \subseteq Walked("environment", original.environment.maps),
         IsSeq(stack'), Len(stack') = 1,
         EnvironmentFrame(stack'[1], original.environment.maps, env.bin.maps, content)
  PROVE  IInv'
<1>1. ControlInv' /\ OptionsInv' /\ UploadInv'
  BY DEF IInv, ControlInv, OptionsInv, UploadInv, TemplateIsWhole, Pcs
<1>2. TemplateInv'
  BY DEF TemplateInv
<1>3. EnvironmentInv'
  BY DEF IInv, EnvironmentInv, Parses
<1> QED
  BY <1>1, <1>2, <1>3 DEF IInv

LEMMA OnlyFrame ==
  ASSUME IInv, pc \in {"registry", "resources"}, NEW g, SetTop(g)
  PROVE  IsSeq(stack') /\ Len(stack') = 1 /\ stack'[1] = g
<1> DEFINE S == Range(stack) \cup {g}
<1>1. stack \in Seq(S) /\ g \in S /\ Len(stack) = 1
  BY SeqMonotonic DEF IInv, EnvironmentInv, IsSeq
<1> HIDE DEF S
<1>2. stack # <<>>
  BY <1>1, LenOne
<1>3. stack' = Append(Front(stack), g)
  BY DEF SetTop
<1>4. stack' \in Seq(S) /\ Len(stack') = 1 /\ stack'[1] = g
  BY <1>1, <1>2, <1>3, TopSet
<1> QED
  BY <1>4, SeqIs

LEMMA RegistryTop ==
  ASSUME IInv, pc \in {"registry", "resources"}, UNCHANGED Others, NEW g, SetTop(g),
         EnvironmentFrame(g, original.environment.maps, env.bin.maps, content)
  PROVE  IInv'
<1>1. IsSeq(stack') /\ Len(stack') = 1 /\ stack'[1] = g
  BY OnlyFrame
<1>2. /\ pc \in {"registry", "resources"} /\ (pc # "resources" => todo = {})
      /\ todo \subseteq Walked("environment", original.environment.maps)
  BY DEF IInv, ControlInv, EnvironmentInv
<1> QED
  BY <1>1, <1>2, RegistryStep DEF Others

(* Which of the two it is. *)
LEMMA WalkingIs ==
  ASSUME IInv, Walking
  PROVE  /\ IsWorld(content) /\ F.open # <<>>
         /\ \/ /\ pc = "template" /\ Walk = "template"
               /\ TemplateFrame(F, Source(stack, Len(stack), original.template, content), content,
                                Len(stack) > 1 \/ calls = 1)
            \/ /\ pc \in {"registry", "resources"} /\ Walk = "environment"
               /\ WellFormed(original.environment.maps)
               /\ EnvironmentFrame(F, original.environment.maps, env.bin.maps, content)
<1>1. pc \in {"template", "registry", "resources"} /\ IsWorld(content) /\ F.open # <<>>
  BY DEF IInv, ControlInv, Walking, F, Pcs
<1>2. CASE pc = "template"
  <2>1. Stacked(stack, original.template, content, calls = 1)
    BY <1>2 DEF IInv, TemplateInv
  <2>2. TemplateFrame(F, Source(stack, Len(stack), original.template, content), content,
                      Len(stack) > 1 \/ calls = 1)
    BY <2>1, TopFrame DEF F
  <2> QED
    BY <1>1, <1>2, <2>2 DEF Walk
<1>3. CASE pc \in {"registry", "resources"}
  <2>1. /\ Len(stack) = 1
        /\ EnvironmentFrame(stack[1], original.environment.maps, env.bin.maps, content)
        /\ Parses(env)
    BY <1>3 DEF IInv, EnvironmentInv
  <2>2. WellFormed(original.environment.maps)
    BY <2>1, ParsedOptions DEF IInv, OptionsInv
  <2>3. F = stack[1]
    BY <2>1 DEF F, Last
  <2> QED
    BY <1>1, <1>3, <2>1, <2>2, <2>3 DEF Walk
<1> QED
  BY <1>1, <1>2, <1>3

LEMMA KeepStep ==
  ASSUME IInv, Walking, NEW key \in M.left, Keep(key)
  PROVE  IInv'
<1> DEFINE g == Done(F, key)
           o == Last(F.open)
<1>1. /\ key \in o.left /\ F.parsed[o.map][key].is \in {"string", "number"} /\ ~ Refers(Walk, key, F.parsed[o.map][key])
      /\ SetTop(g) /\ UNCHANGED Others
  BY DEF Keep, Value, M, Others
<1>2. CASE /\ pc = "template" /\ Walk = "template"
           /\ TemplateFrame(F, Source(stack, Len(stack), original.template, content), content,
                            Len(stack) > 1 \/ calls = 1)
  <2>1. /\ TemplateFrame(g, Source(stack, Len(stack), original.template, content), content,
                         Len(stack) > 1 \/ calls = 1)
        /\ g.key = F.key /\ g.te = F.te
    BY <1>1, <1>2, WalkingIs, KeptFrame
  <2> HIDE DEF g
  <2> QED
    BY <1>1, <1>2, <2>1, TemplateTop
<1>3. CASE /\ pc \in {"registry", "resources"} /\ Walk = "environment"
           /\ WellFormed(original.environment.maps)
           /\ EnvironmentFrame(F, original.environment.maps, env.bin.maps, content)
  <2>1. EnvironmentFrame(g, original.environment.maps, env.bin.maps, content)
    BY <1>1, <1>3, WalkingIs, KeptInRegistry
  <2> HIDE DEF g
  <2> QED
    BY <1>1, <1>3, <2>1, RegistryTop
<1> QED
  BY <1>2, <1>3, WalkingIs

LEMMA EnterStep ==
  ASSUME IInv, Walking, NEW key \in M.left, Enter(key)
  PROVE  IInv'
<1> DEFINE o == Last(F.open)
           o2 == Open(F.parsed[o.map][key].to, F.parsed)
           g == Into(F, key, o2)
<1>1. key \in o.left /\ F.parsed[o.map][key].is \in {"map", "list"} /\ SetTop(g) /\ UNCHANGED Others
  BY DEF Enter, Value, M, Others, Into
<1>4. o2 = Open(F.parsed[o.map][key].to, F.parsed)
  OBVIOUS
<1> HIDE DEF o2
<1>2. CASE /\ pc = "template" /\ Walk = "template"
           /\ TemplateFrame(F, Source(stack, Len(stack), original.template, content), content,
                            Len(stack) > 1 \/ calls = 1)
  <2>1. /\ TemplateFrame(g, Source(stack, Len(stack), original.template, content), content,
                         Len(stack) > 1 \/ calls = 1)
        /\ g.key = F.key /\ g.te = F.te
    <3> DEFINE f == F
               d == Source(stack, Len(stack), original.template, content)
               fresh == Len(stack) > 1 \/ calls = 1
    <3>1. TemplateFrame(f, d, content, fresh) /\ ToMap(f, key, o2)
      BY <1>1, <1>2, <1>4, WalkingIs DEF ToMap
    <3> HIDE DEF f, d, fresh
    <3>2. LET h == Into(f, key, o2)
          IN  TemplateFrame(h, d, content, fresh) /\ h.key = f.key /\ h.te = f.te
      BY ONLY <3>1, EnteredFrame
    <3> QED
      BY <3>2 DEF f, d, fresh
  <2> HIDE DEF g
  <2> QED
    BY <1>1, <1>2, <2>1, TemplateTop
<1>3. CASE /\ pc \in {"registry", "resources"} /\ Walk = "environment"
           /\ WellFormed(original.environment.maps)
           /\ EnvironmentFrame(F, original.environment.maps, env.bin.maps, content)
  <2>1. EnvironmentFrame(g, original.environment.maps, env.bin.maps, content)
    BY <1>1, <1>3, <1>4, WalkingIs, EnteredInRegistry
  <2> HIDE DEF g
  <2> QED
    BY <1>1, <1>3, <2>1, RegistryTop
<1> QED
  BY <1>2, <1>3, WalkingIs

LEMMA LeaveStep ==
  ASSUME IInv, Leave
  PROVE  IInv'
<1> DEFINE te == IF Last(F.open).updated THEN Marshalled(F.te, F.parsed) ELSE F.te
           g == Closed(F, te)
<1>1. Walking /\ Last(F.open).left = {} /\ SetTop(g) /\ UNCHANGED Others
  BY DEF Leave, M, Others, Closed
<1>2. CASE /\ pc = "template" /\ Walk = "template"
           /\ TemplateFrame(F, Source(stack, Len(stack), original.template, content), content,
                            Len(stack) > 1 \/ calls = 1)
  <2>1. /\ TemplateFrame(g, Source(stack, Len(stack), original.template, content), content,
                         Len(stack) > 1 \/ calls = 1)
        /\ g.key = F.key /\ g.te.url = F.te.url
    BY <1>1, <1>2, WalkingIs, LeftFrame
  <2> HIDE DEF g
  <2> QED
    BY <1>1, <1>2, <2>1, TemplateTop
<1>3. CASE /\ pc \in {"registry", "resources"} /\ Walk = "environment"
           /\ WellFormed(original.environment.maps)
           /\ EnvironmentFrame(F, original.environment.maps, env.bin.maps, content)
  <2>1. EnvironmentFrame(g, original.environment.maps, env.bin.maps, content)
    BY <1>1, <1>3, WalkingIs, LeftInRegistry
  <2> HIDE DEF g
  <2> QED
    BY <1>1, <1>3, <2>1, RegistryTop
<1> QED
  BY <1>1, <1>2, <1>3, WalkingIs

LEMMA FollowStep ==
  ASSUME IInv, Walking, NEW key \in M.left, Follow(key)
  PROVE  IInv'
<1> DEFINE f == F
           d == Source(stack, Len(stack), original.template, content)
           fresh == Len(stack) > 1 \/ calls = 1
           v == f.parsed[Last(f.open).map][key]
           u == Resolve(Base(f.te.url), v.to)
           child == TE(u, content[u])
           fr == Frame(child, "root", key)
           g == Adopt(f, key, child)
<1>1. /\ key \in Last(f.open).left /\ Refers(Walk, key, v) /\ UNCHANGED Others
      /\ IF Walk = "template" /\ child.bin.kind = "template"
         THEN stack' = Append(stack, fr) ELSE SetTop(g)
      /\ f.open # <<>> /\ IsWorld(content)
  BY WalkingIs DEF Follow, Value, M, Others
<1>2. child.bin = content[u] /\ child.url = u /\ IsTE(child) /\ DOMAIN child.files = {}
  <2> DEFINE bin == content[u]
             te == TE(u, bin)
  <2> HIDE DEF u, bin
  <2>1. te.bin = bin /\ te.url = u /\ IsTE(te) /\ DOMAIN te.files = {}
    BY NewTE
  <2> QED
    BY <2>1 DEF bin
<1>3. CASE pc = "template" /\ Walk = "template" /\ TemplateFrame(f, d, content, fresh)
  <2> HIDE DEF f, d, fresh
  <2>1. u \in URLs /\ (content[u].kind = "template" => ChildOf(f, d, content, u, key))
    BY <1>1, <1>3, Following
  <2>2. CASE content[u].kind = "template"
    <3>1. IsDoc(content[u]) /\ WellFormed(content[u].maps)
      BY <1>1, <2>1, <2>2, NoDocIs DEF IsWorld, Document
    <3>2. Partly("template", content[u].maps, content[u].maps, Base(u), DOMAIN child.files)
      BY <3>1, NothingReplaced
    <3> DEFINE doc == content[u]
               new == TRUE
    <3>3. /\ child.bin = doc /\ IsTE(child) /\ IsDoc(doc) /\ WellFormed(doc.maps)
          /\ doc.kind \in {"template", "map"} /\ child.url \in URLs \cup {""}
          /\ Partly("template", doc.maps, doc.maps, Base(child.url), DOMAIN child.files)
          /\ new => DOMAIN child.files = {}
      BY <1>2, <2>1, <2>2, <3>1, <3>2
    <3> HIDE DEF child, u, doc, new
    <3>8. TemplateFrame(fr, doc, content, new) /\ fr.key = key /\ fr.te = child
      <4>1. IsTE(child) /\ IsDoc(child.bin) /\ child.url \in URLs \cup {""}
        BY <3>3
      <4>2. WellFormed(doc.maps) /\ doc.kind \in {"template", "map"} /\ child.bin.kind = doc.kind
        BY <3>3
      <4>3. Partly("template", doc.maps, child.bin.maps, Base(child.url), DOMAIN child.files)
        BY <3>3
      <4>4. new => DOMAIN child.files = {}
        BY <3>3
      <4> QED
        BY <4>1, <4>2, <4>3, <4>4, StartedFrame
    <3> HIDE DEF fr
    <3>4. ChildOf(f, d, content, fr.te.url, fr.key) /\ TemplateFrame(fr, content[fr.te.url], content, TRUE)
      BY <1>2, <2>1, <2>2, <3>8 DEF doc, new
    <3>5. Stacked(stack, original.template, content, calls = 1)
      BY <1>3 DEF IInv, TemplateInv
    <3>6. LET t == Append(stack, fr)
          IN  Stacked(t, original.template, content, calls = 1) /\ t[1].te.url = stack[1].te.url
      <4> DEFINE once == calls = 1
      <4>1. Stacked(stack, original.template, content, once)
        BY <3>5
      <4> HIDE DEF once
      <4>2. LET t == Append(stack, fr)
            IN  Stacked(t, original.template, content, once) /\ t[1].te.url = stack[1].te.url
        <5> DEFINE bottom == original.template
                   last == Last(stack)
                   dd == Source(stack, Len(stack), bottom, content)
        <5>1. /\ ChildOf(last, dd, content, fr.te.url, fr.key)
              /\ Stacked(stack, bottom, content, once)
              /\ TemplateFrame(fr, content[fr.te.url], content, TRUE)
          BY <3>4, <4>1 DEF f, d, F
        <5> HIDE DEF bottom
        <5>2. LET t == Append(stack, fr)
              IN  Stacked(t, bottom, content, once) /\ t[1].te.url = stack[1].te.url
          BY ONLY <5>1, ChildPushed, Zenon
        <5> QED
          BY <5>2 DEF bottom
      <4> QED
        BY <4>2 DEF once
    <3>7. stack' = Append(stack, fr)
      BY <1>1, <1>2, <1>3, <2>2
    <3> QED
      BY <1>1, <1>3, <3>6, <3>7, TemplateStep
  <2>3. CASE content[u].kind # "template"
    <3>1. Whole("template", content, child)
      BY <1>1, <2>1, <2>3, LeafIsWhole DEF Walks
    <3>2. SetTop(g)
      BY <1>1, <1>2, <2>3
    <3>3. /\ TemplateFrame(f, d, content, fresh) /\ f.open # <<>> /\ key \in Last(f.open).left
          /\ v = f.parsed[Last(f.open).map][key] /\ Refers("template", key, v)
          /\ child.url = Resolve(Base(f.te.url), v.to)
      BY <1>1, <1>2, <1>3
    <3> HIDE DEF child, u, v
    <3>5. TemplateFrame(g, d, content, fresh) /\ g.key = f.key /\ g.te.url = f.te.url
      BY ONLY <3>1, <3>3, AdoptedFrame
    <3> HIDE DEF g
    <3> QED
      BY <1>1, <1>3, <3>2, <3>5, TemplateTop DEF f, d, fresh
  <2> QED
    BY <2>2, <2>3
<1>4. CASE /\ pc \in {"registry", "resources"} /\ Walk = "environment"
           /\ WellFormed(original.environment.maps)
           /\ EnvironmentFrame(f, original.environment.maps, env.bin.maps, content)
  <2>1. Base(f.te.url) = Cwd /\ v = f.parsed[Last(f.open).map][key]
    BY <1>4 DEF EnvironmentFrame, Base
  <2>2. SetTop(g)
    BY <1>1, <1>4
  <2>3. u = Resolve(Cwd, v.to) /\ Refers("environment", key, v)
    BY <1>1, <1>4, <2>1
  <2> HIDE DEF u, v, f
  <2>5. EnvironmentFrame(g, original.environment.maps, env.bin.maps, content)
    BY <1>1, <1>4, <2>1, <2>3, FollowedInRegistry
  <2> HIDE DEF g
  <2> QED
    BY <1>1, <1>4, <2>2, <2>5, RegistryTop
<1> QED
  BY <1>3, <1>4, WalkingIs

LEMMA BottomFrame ==
  ASSUME IInv, pc = "template"
  PROVE  /\ TemplateFrame(stack[1], original.template, content, calls = 1)
         /\ IsDoc(original.template) /\ stack[1].te.url = tmpl.url
         /\ Options("template", stack[1].te, original.template, Base(stack[1].te.url), DOMAIN stack[1].te.files)
<1> DEFINE f == stack[1]
           doc == original.template
<1>1. Stacked(stack, doc, content, calls = 1) /\ f.te.url = tmpl.url
  BY DEF IInv, TemplateInv
<1>2. TemplateFrame(f, doc, content, calls = 1)
  <2>1. 1 \in 1..Len(stack) /\ Source(stack, 1, doc, content) = doc
    BY <1>1, TopFrame DEF Source
  <2>2. TemplateFrame(f, Source(stack, 1, doc, content), content, 1 > 1 \/ calls = 1)
    BY <1>1, <2>1 DEF Stacked
  <2> QED
    BY <2>1, <2>2 DEF TemplateFrame
<1>3. doc.kind \in {"template", "map"} /\ f.te.bin.kind = doc.kind /\ f.te.url \in URLs \cup {""}
  BY <1>2 DEF TemplateFrame
<1>4. Document(doc) /\ IsDoc(doc)
  <2>1. doc # NoDoc
    BY <1>3, NoDocIs
  <2>2. Options("template", tmpl, doc, Base(tmpl.url), DOMAIN tmpl.files)
    BY DEF IInv, OptionsInv
  <2> QED
    BY <2>1, <2>2, NoDocIs DEF Options
<1>5. IsTE(f.te) /\ IsDoc(f.te.bin)
  BY <1>2, FrameParts
<1>6. Partly("template", doc.maps, f.te.bin.maps, Base(f.te.url), DOMAIN f.te.files)
  BY <1>2 DEF TemplateFrame, Rendered
<1> HIDE DEF f
<1>7. Options("template", f.te, doc, Base(f.te.url), DOMAIN f.te.files)
  BY <1>3, <1>4, <1>5, <1>6, OptionsWalked
<1> QED
  BY <1>1, <1>2, <1>4, <1>7 DEF f

LEMMA FailStep ==
  ASSUME IInv, Walking, Fail
  PROVE  IInv'
<1>1. /\ pc' = "idle" /\ stack' = <<>> /\ todo' = {} /\ upload'.outcome = "error"
      /\ tmpl' = IF pc = "template" THEN stack[1].te ELSE tmpl
      /\ UNCHANGED <<content, env, parts, calls, original>>
  BY DEF Fail, NoUpload
<1>2. pc # "idle" /\ calls \in Nat /\ calls > 0
  BY DEF Walking, IInv, ControlInv
<1>3. ControlInv'
  BY <1>1 DEF IInv, ControlInv, Pcs
<1>4. Options("template", tmpl, original.template, Base(tmpl.url), DOMAIN tmpl.files)'
  BY <1>1, BottomFrame DEF IInv, OptionsInv
<1>5. OptionsInv'
  BY <1>1, <1>2, <1>4 DEF IInv, OptionsInv
<1>6. TemplateInv' /\ EnvironmentInv' /\ UploadInv'
  BY <1>1 DEF TemplateInv, EnvironmentInv, UploadInv
<1> QED
  BY <1>3, <1>5, <1>6 DEF IInv

LEMMA ChildDoneStep ==
  ASSUME IInv, ChildDone
  PROVE  IInv'
<1>1. /\ Len(stack) > 1 /\ F.open = <<>> /\ UNCHANGED Others
      /\ stack' = Append(Front(Front(stack)), Adopt(Last(Front(stack)), Last(stack).key, Last(stack).te))
  BY DEF ChildDone, Others, F
<1>2. pc = "template"
  <2>1. stack # <<>>
    BY <1>1, EmptySeq
  <2>2. pc \in Pcs /\ (pc \in {"idle", "environment", "panicked"} => stack = <<>>)
    BY DEF IInv, ControlInv
  <2>3. pc \in {"registry", "resources"} => Len(stack) = 1
    BY DEF IInv, EnvironmentInv
  <2>4. Len(stack) > 1
    BY <1>1
  <2>5. ASSUME Len(stack) = 1 PROVE FALSE
    <3>1. 1 > 1
      BY <2>4, <2>5
    <3> QED
      BY <3>1
  <2> QED
    BY <2>1, <2>2, <2>3, <2>5 DEF Pcs
<1> DEFINE once == calls = 1
<1>3. Stacked(stack, original.template, content, once) /\ IsWorld(content)
  BY <1>2 DEF IInv, ControlInv, TemplateInv
<1> HIDE DEF once
<1>4. Stacked(stack', original.template, content, once) /\ stack'[1].te.url = stack[1].te.url
  BY <1>1, <1>3, ChildAdopted DEF F
<1> QED
  BY <1>1, <1>2, <1>4, TemplateStep DEF once

-----------------------------------------------------------------------------
(* The start of a call, and its parts. *)
LEMMA StartedStack ==
  ASSUME NEW f, NEW doc, NEW world, NEW fresh, TemplateFrame(f, doc, world, fresh)
  PROVE  Stacked(<<f>>, doc, world, fresh) /\ <<f>>[1] = f
<1> DEFINE s == <<f>>
<1>1. IsSeq(s) /\ Len(s) = 1 /\ s[1] = f /\ s # <<>>
  BY OneElement
<1> HIDE DEF s
<1>2. ASSUME NEW i \in 1..Len(s)
      PROVE  TemplateFrame(s[i], Source(s, i, doc, world), world, i > 1 \/ fresh)
  <2>1. i = 1 /\ s[i] = f /\ Source(s, i, doc, world) = doc
    BY <1>1 DEF Source
  <2>2. fresh => (i > 1 \/ fresh)
    OBVIOUS
  <2>3. (i > 1 \/ fresh) => fresh
    BY <2>1
  <2> DEFINE more == i > 1 \/ fresh
  <2>4. TemplateFrame(f, doc, world, more)
    BY <2>2, <2>3 DEF TemplateFrame
  <2> QED
    BY <2>1, <2>4
<1>3. 2..Len(s) = {}
  BY <1>1
<1>4. Stacked(s, doc, world, fresh)
  BY <1>1, <1>2, <1>3 DEF Stacked
<1> QED
  BY <1>1, <1>4 DEF s

LEMMA WrittenIs ==
  ASSUME original = [template |-> original.template, environment |-> original.environment], NEW t
  PROVE  /\ LET w == AsWritten("template", t)
            IN  /\ w = [template |-> w.template, environment |-> w.environment]
                /\ w.template = IF original.template = NoDoc THEN t.bin ELSE original.template
                /\ w.environment = original.environment
         /\ LET w == AsWritten("environment", t)
            IN  /\ w = [template |-> w.template, environment |-> w.environment]
                /\ w.environment = IF original.environment = NoDoc THEN t.bin ELSE original.environment
                /\ w.template = original.template
<1> DEFINE now == original.template
           then == original.environment
<1>1. original = [template |-> now, environment |-> then]
  OBVIOUS
<1> HIDE DEF now, then
<1>2. AsWritten("template", t) = [template |-> IF now = NoDoc THEN t.bin ELSE now, environment |-> then]
  BY <1>1 DEF AsWritten
<1>3. AsWritten("environment", t) = [template |-> now, environment |-> IF then = NoDoc THEN t.bin ELSE then]
  BY <1>1 DEF AsWritten
<1> QED
  BY <1>1, <1>2, <1>3

LEMMA BeginIs ==
  ASSUME IInv, NEW which, Begin(which)
  PROVE  /\ pc = "idle" /\ stack = <<>> /\ todo' = {} /\ env' = env /\ parts' = which
         /\ calls \in Nat /\ calls' \in Nat /\ calls' > 0 /\ (calls' = 1 => calls = 0)
         /\ IsWorld(content')
<1>1. /\ pc = "idle" /\ calls' = calls + 1 /\ content' \in (IF calls = 0 THEN {content} ELSE Worlds)
      /\ parts' = which /\ UNCHANGED <<env, todo>>
  BY DEF Begin
<1>2. calls \in Nat /\ stack = <<>> /\ todo = {} /\ IsWorld(content)
  BY <1>1 DEF IInv, ControlInv
<1>3. IsWorld(content')
  BY <1>1, <1>2, StackFilesAssumption DEF IsWorld
<1> QED
  BY <1>1, <1>2, <1>3

LEMMA BeginWithTemplate ==
  ASSUME IInv, NEW which, Begin(which), "template" \in which
  PROVE  IInv'
<1> DEFINE t == Fetched(tmpl, content')
           doc == original'.template
           f == Frame(t, "root", "")
           once == calls' = 1
<1>1. /\ pc = "idle" /\ stack = <<>> /\ todo' = {} /\ env' = env /\ parts' = which
      /\ calls \in Nat /\ calls' \in Nat /\ calls' > 0 /\ (once => calls = 0)
      /\ IsWorld(content')
  BY BeginIs
<1>2. /\ tmpl' = t /\ original' = AsWritten("template", t)
      /\ IF Parses(t)
         THEN pc' = "template" /\ stack' = <<f>> /\ upload'.outcome = "none"
         ELSE pc' = "idle" /\ upload'.outcome = "error" /\ stack' = stack
  <2>1. /\ tmpl' = t /\ original' = AsWritten("template", t)
        /\ IF Parses(t)
           THEN pc' = "template" /\ stack' = <<f>> /\ upload' = NoUpload("none")
           ELSE pc' = "idle" /\ upload' = NoUpload("error") /\ UNCHANGED stack
    BY Zenon DEF Begin
  <2>2. NoUpload("none").outcome = "none" /\ NoUpload("error").outcome = "error"
    BY DEF NoUpload
  <2> QED
    BY <2>1, <2>2
<1>3. OptionsInv
  BY DEF IInv
<1>4. /\ original' = [template |-> doc, environment |-> original'.environment]
      /\ doc = (IF original.template = NoDoc THEN t.bin ELSE original.template)
      /\ original'.environment = original.environment
  BY <1>2, <1>3, WrittenIs DEF OptionsInv
<1>5. Options("template", t, doc, Base(t.url), DOMAIN t.files) /\ t.files = tmpl.files
  <2>1. IsTE(tmpl) /\ Options("template", tmpl, original.template, Base(tmpl.url), DOMAIN tmpl.files)
    BY <1>3 DEF OptionsInv, Options
  <2>2. tmpl.bin # NoDoc => t = tmpl
    BY <2>1, FetchedIs
  <2> DEFINE dir == Base(t.url)
             held == DOMAIN t.files
             dir0 == Base(tmpl.url)
             held0 == DOMAIN tmpl.files
             doc0 == original.template
             world == content'
  <2>3. tmpl.bin # NoDoc => dir = dir0 /\ held = held0
    BY <2>2
  <2>4. t = Fetched(tmpl, world) /\ IsWorld(world) /\ Options("template", tmpl, doc0, dir0, held0)
    BY <1>1, <2>1
  <2>6. doc = (IF doc0 = NoDoc THEN t.bin ELSE doc0)
    BY <1>4
  <2> HIDE DEF t, dir, held, doc, dir0, held0, doc0, world
  <2>5. Options("template", t, doc, dir, held) /\ t.files = tmpl.files
    BY <2>3, <2>4, <2>6, OptionsFetched
  <2> QED
    BY <2>5 DEF dir, held
<1> HIDE DEF t, doc, f, once
<1>6. OptionsInv'
  <2>1. Options("template", tmpl', original'.template, Base(tmpl'.url), DOMAIN tmpl'.files)
    BY <1>2, <1>5 DEF doc
  <2>2. NoResources(env, original.environment) /\ Options("environment", env, original.environment, Cwd, URLs)
    BY <1>3 DEF OptionsInv
  <2> QED
    BY <1>1, <1>4, <2>1, <2>2 DEF OptionsInv, doc
<1>7. CASE Parses(t)
  <2>1. pc' = "template" /\ stack' = <<f>> /\ upload'.outcome = "none"
    BY <1>2, <1>7
  <2>2. /\ IsTE(t) /\ IsDoc(t.bin) /\ t.url \in URLs \cup {""} /\ WellFormed(doc.maps)
        /\ doc.kind \in {"template", "map"} /\ t.bin.kind = doc.kind
        /\ Partly("template", doc.maps, t.bin.maps, Base(t.url), DOMAIN t.files)
    BY <1>5, <1>7, ParsedOptions
  <2>3. once => DOMAIN t.files = {}
    BY <1>1, <1>3, <1>5 DEF OptionsInv
  <2>4. TemplateFrame(f, doc, content', once) /\ f.te = t
    BY <2>2, <2>3, StartedFrame DEF f
  <2>5. Stacked(stack', doc, content', once) /\ stack'[1].te = t
    BY <2>1, <2>4, StartedStack
  <2>6. TemplateInv'
    BY <1>2, <2>5 DEF TemplateInv, doc, once
  <2>7. EnvironmentInv' /\ UploadInv' /\ ControlInv'
    BY <1>1, <2>1 DEF EnvironmentInv, UploadInv, ControlInv, Pcs
  <2> QED
    BY <1>6, <2>6, <2>7 DEF IInv
<1>8. CASE ~ Parses(t)
  <2>1. pc' = "idle" /\ upload'.outcome = "error" /\ stack' = <<>>
    BY <1>1, <1>2, <1>8
  <2>2. TemplateInv' /\ EnvironmentInv' /\ UploadInv' /\ ControlInv'
    BY <1>1, <2>1 DEF TemplateInv, EnvironmentInv, UploadInv, ControlInv, Pcs
  <2> QED
    BY <1>6, <2>2 DEF IInv
<1> QED
  BY <1>7, <1>8

LEMMA BeginWithout ==
  ASSUME IInv, Begin({"environment"})
  PROVE  IInv'
<1> DEFINE which == {"environment"}
<1>1. "template" \notin which /\ "environment" \in which
  OBVIOUS
<1>2. /\ pc = "idle" /\ stack = <<>> /\ todo' = {} /\ env' = env /\ parts' = which
      /\ calls \in Nat /\ calls' \in Nat /\ calls' > 0 /\ IsWorld(content')
  BY BeginIs
<1>3. pc' = "environment" /\ upload'.outcome = "none" /\ UNCHANGED <<tmpl, stack, original>>
  BY DEF Begin, NoUpload
<1> HIDE DEF which
<1>4. OptionsInv'
  BY <1>2, <1>3 DEF IInv, OptionsInv
<1>5. TemplateInv' /\ EnvironmentInv' /\ UploadInv' /\ ControlInv'
  BY <1>1, <1>2, <1>3 DEF TemplateInv, EnvironmentInv, UploadInv, ControlInv, Pcs
<1> QED
  BY <1>4, <1>5 DEF IInv

(* What a call sends. *)
LEMMA Returned ==
  ASSUME IsWorld(content), UNCHANGED <<content, parts, calls>>, NEW t, t = tmpl', NEW e, Return(t, e),
         "template" \in parts =>
           /\ t.url \in URLs \cup {""}
           /\ IsWhole("template", t, original'.template, Base(t.url), content, calls = 1),
         IF "environment" \in parts
         THEN IsWhole("environment", e, original'.environment, Cwd, content, TRUE) ELSE e.files = <<>>
  PROVE  pc' = "idle" /\ UploadInv'
<1> DEFINE once == calls = 1
           orig == original'
           up == upload'
           dir == IF "template" \in parts THEN Base(t.url) ELSE Cwd
           own == IF "template" \in parts THEN t.files ELSE <<>>
<1>1. /\ pc' = "idle" /\ up.environment = e.bin /\ up.files = Copied(e.files, own)
      /\ "template" \in parts => up.template = t.bin
  BY DEF Return
<1>2. dir \in Dirs
  BY BaseIsADir, StackFilesAssumption
<1>3. "template" \in parts => IsWhole("template", t, orig.template, dir, content, once)
  OBVIOUS
<1>4. own = IF "template" \in parts THEN t.files ELSE <<>>
  OBVIOUS
<1>5. IF "environment" \in parts
      THEN IsWhole("environment", e, orig.environment, Cwd, content, TRUE) ELSE e.files = <<>>
  OBVIOUS
<1> HIDE DEF once, orig, up, dir, own
<1>6. Complete(up, content, parts, orig, dir, once)
  BY <1>1, <1>2, <1>3, <1>4, <1>5, WholeIsComplete
<1>7. Complete(up, content, parts, orig, Base(t.url), once)
  <2>1. CASE "template" \in parts
    BY <1>6, <2>1 DEF dir
  <2>2. CASE "template" \notin parts
    BY <1>6, <2>2 DEF Complete
  <2> QED
    BY <2>1, <2>2
<1>8. Complete(upload', content', parts', original', Base(tmpl'.url), calls' = 1)
  BY <1>7 DEF once, orig, up
<1> QED
  BY <1>1, <1>8 DEF UploadInv

LEMMA TemplateDoneStep ==
  ASSUME IInv, TemplateDone
  PROVE  IInv'
<1> DEFINE f == stack[1]
           doc == original.template
<1>1. /\ pc = "template" /\ Len(stack) = 1 /\ f.open = <<>> /\ tmpl' = f.te /\ stack' = <<>>
      /\ IF "environment" \in parts THEN pc' = "environment" /\ UNCHANGED upload
         ELSE Return(f.te, TE("", NoDoc))
      /\ UNCHANGED <<content, env, parts, todo, calls, original>>
  <2>1. pc = "template" /\ Len(stack) = 1
    BY DEF TemplateDone
  <2>2. Last(stack) = stack[1]
    BY <2>1 DEF Last
  <2> QED
    BY <2>1, <2>2 DEF TemplateDone, F
<1>2. /\ TemplateFrame(f, doc, content, calls = 1) /\ IsDoc(doc) /\ f.te.url = tmpl.url
      /\ Options("template", f.te, doc, Base(f.te.url), DOMAIN f.te.files)
  BY <1>1, BottomFrame
<1>3. /\ f.te.url \in URLs \cup {""}
      /\ IsWhole("template", f.te, doc, Base(f.te.url), content, calls = 1)
  <2> DEFINE once == calls = 1
  <2>1. TemplateFrame(f, doc, content, once) /\ IsDoc(doc) /\ f.open = <<>>
    BY <1>1, <1>2
  <2>2. f.te.url \in URLs \cup {""}
    BY <1>2 DEF TemplateFrame
  <2> HIDE DEF once, f, doc
  <2>3. IsWhole("template", f.te, doc, Base(f.te.url), content, once)
    BY <2>1, TemplateWalked
  <2> QED
    BY <2>2, <2>3 DEF once
<1>4. /\ calls \in Nat /\ calls > 0 /\ IsWorld(content) /\ todo = {} /\ upload.outcome = "none"
      /\ "template" \in parts
  BY <1>1 DEF IInv, ControlInv
<1>5. OptionsInv'
  <2>1. Options("template", tmpl', original'.template, Base(tmpl'.url), DOMAIN tmpl'.files)
    BY <1>1, <1>2
  <2>2. original' = original /\ env' = env /\ calls' = calls /\ calls > 0
    BY <1>1, <1>4
  <2> HIDE DEF f, doc
  <2>3. /\ original = [template |-> original.template, environment |-> original.environment]
        /\ Options("environment", env, original.environment, Cwd, URLs)
        /\ NoResources(env, original.environment)
    BY DEF IInv, OptionsInv
  <2> QED
    BY <2>1, <2>2, <2>3 DEF OptionsInv
<1> HIDE DEF f, doc
<1>6. CASE "environment" \in parts
  <2>1. pc' = "environment" /\ upload' = upload
    BY <1>1, <1>6
  <2>2. TemplateIsWhole'
    BY <1>1, <1>3 DEF TemplateIsWhole, doc
  <2>3. TemplateInv' /\ EnvironmentInv' /\ UploadInv' /\ ControlInv'
    BY <1>1, <1>4, <1>6, <2>1, <2>2 DEF TemplateInv, EnvironmentInv, UploadInv, ControlInv, Pcs
  <2> QED
    BY <1>5, <2>3 DEF IInv
<1>7. CASE "environment" \notin parts
  <2> DEFINE t == f.te
             e == TE("", NoDoc)
  <2>1. Return(t, e) /\ t = tmpl' /\ UNCHANGED <<content, parts, calls>> /\ e.files = <<>>
    BY <1>1, <1>7, NewTE
  <2>2. t.url \in URLs \cup {""} /\ IsWhole("template", t, original'.template, Base(t.url), content, calls = 1)
    BY <1>1, <1>3 DEF doc
  <2> HIDE DEF t, e
  <2>3. pc' = "idle" /\ UploadInv'
    BY <1>4, <1>7, <2>1, <2>2, Returned
  <2>4. TemplateInv' /\ EnvironmentInv' /\ ControlInv'
    BY <1>1, <1>4, <2>3 DEF TemplateInv, EnvironmentInv, ControlInv, Pcs
  <2> QED
    BY <1>5, <2>3, <2>4 DEF IInv
<1> QED
  BY <1>6, <1>7

LEMMA RegistryKind ==
  ASSUME NEW maps, WellFormed(maps), NEW now, NEW held, Partly("environment", maps, now, Cwd, held)
  PROVE  Registry(now).is = Registry(maps).is
<1> DEFINE key == "resource_registry"
<1>1. "environment" \in Walks /\ Cwd \in Dirs /\ "root" \in DOMAIN maps
  BY StackFilesAssumption DEF Walks, WellFormed
<1>2. DOMAIN now["root"] = DOMAIN maps["root"]
  BY <1>1, PartlySame
<1>3. CASE key \in DOMAIN maps["root"]
  <2>1. now["root"][key].is = maps["root"][key].is
    BY <1>1, <1>3, PartlyAt
  <2> QED
    BY <1>2, <1>3, <2>1 DEF Registry
<1>4. CASE key \notin DOMAIN maps["root"]
  BY <1>2, <1>4 DEF Registry
<1> QED
  BY <1>3, <1>4

LEMMA ReadEnvironmentStep ==
  ASSUME IInv, ReadEnvironment
  PROVE  IInv'
<1> DEFINE e == env'
           doc == original'.environment
           maps == e.bin.maps
           f == [te |-> TE("", NoDoc), parsed |-> maps, key |-> "", open |-> <<Open(Registry(maps).to, maps)>>]
<1>1. /\ pc = "environment" /\ e = Fetched(env, content) /\ original' = AsWritten("environment", e)
      /\ UNCHANGED <<content, tmpl, parts, todo, calls>>
  BY DEF ReadEnvironment
<1>2. IF Parses(e) /\ Registry(maps).is = "map"
      THEN /\ IF NoString(maps[Registry(maps).to]) THEN pc' = "panicked" /\ UNCHANGED stack
              ELSE pc' = "registry" /\ stack' = <<f>>
           /\ UNCHANGED upload
      ELSE /\ IF Parses(e) THEN Return(tmpl, e) ELSE pc' = "idle" /\ upload' = NoUpload("error")
           /\ UNCHANGED stack
  BY Zenon DEF ReadEnvironment
<1>3. /\ calls \in Nat /\ calls > 0 /\ IsWorld(content) /\ todo = {} /\ upload.outcome = "none" /\ stack = <<>>
      /\ "environment" \in parts /\ ("template" \in parts => TemplateIsWhole)
  BY <1>1 DEF IInv, ControlInv
<1>4. OptionsInv
  BY DEF IInv
<1>5. /\ original' = [template |-> original'.template, environment |-> doc]
      /\ doc = (IF original.environment = NoDoc THEN e.bin ELSE original.environment)
      /\ original'.template = original.template
  BY <1>1, <1>4, WrittenIs DEF OptionsInv
<1> HIDE DEF e, doc, f
<1>6. Options("environment", e, doc, Cwd, URLs) /\ e.files = env.files
  <2> DEFINE doc0 == original.environment
  <2>1. Options("environment", env, doc0, Cwd, URLs)
    BY <1>4 DEF OptionsInv
  <2>2. doc = (IF doc0 = NoDoc THEN e.bin ELSE doc0)
    BY <1>5
  <2> HIDE DEF doc0
  <2> QED
    BY <1>1, <1>3, <2>1, <2>2, OptionsFetched
<1>7. NoResources(e, doc)
  <2>1. /\ IsTE(env) /\ ((env.bin = NoDoc) <=> (original.environment = NoDoc))
        /\ env.bin = NoDoc => env.files = <<>>
        /\ NoResources(env, original.environment)
    BY <1>4 DEF OptionsInv, Options
  <2>2. CASE env.bin = NoDoc
    BY <1>6, <2>1, <2>2 DEF NoResources
  <2>3. CASE env.bin # NoDoc
    <3>1. e = env /\ doc = original.environment
      BY <1>1, <1>5, <2>1, <2>3, FetchedIs
    <3> QED
      BY <2>1, <3>1
  <2> QED
    BY <2>2, <2>3
<1>8. OptionsInv'
  <2>1. Options("environment", env', original'.environment, Cwd, URLs) /\ NoResources(env', original'.environment)
    BY <1>6, <1>7 DEF e, doc
  <2> QED
    BY <1>1, <1>4, <1>5, <2>1 DEF OptionsInv, doc
<1>9. "template" \in parts => TemplateIsWhole'
  BY <1>1, <1>3, <1>5 DEF TemplateIsWhole
<1>10. Parses(e) =>
         /\ IsDoc(e.bin) /\ e.bin.kind = doc.kind /\ IsDoc(doc) /\ WellFormed(doc.maps)
         /\ Partly("environment", doc.maps, maps, Cwd, URLs)
         /\ Registry(maps).is = Registry(doc.maps).is
  BY <1>6, ParsedOptions, RegistryKind
<1>14. CASE pc' = "panicked" /\ stack' = <<>> /\ upload' = upload
  <2>1. TemplateInv' /\ EnvironmentInv' /\ UploadInv' /\ ControlInv'
    BY <1>1, <1>3, <1>14 DEF TemplateInv, EnvironmentInv, UploadInv, ControlInv, Pcs
  <2> QED
    BY <1>8, <2>1 DEF IInv
<1>15. SUFFICES ASSUME ~ (pc' = "panicked" /\ stack' = <<>> /\ upload' = upload) PROVE IInv'
  BY <1>14
<1>11. CASE Parses(e) /\ Registry(maps).is = "map"
  <2>1. pc' = "registry" /\ stack' = <<f>> /\ upload' = upload
    BY <1>2, <1>3, <1>11, <1>15
  <2>2. EnvironmentFrame(f, doc.maps, maps, content)
    <3> DEFINE then == doc.maps
    <3>1. WellFormed(then) /\ Registry(then).is = "map" /\ Partly("environment", then, maps, Cwd, URLs)
      BY <1>10, <1>11
    <3> HIDE DEF then, maps
    <3>2. EnvironmentFrame(f, then, maps, content)
      BY <3>1, RegistryStarted DEF f
    <3> QED
      BY <3>2 DEF then
  <2>3. IsSeq(stack') /\ Len(stack') = 1 /\ stack'[1] = f
    BY <2>1, OneElement
  <2>4. EnvironmentInv'
    <3>1. Registry(doc.maps).is = "map"
      BY <1>10, <1>11
    <3> QED
      BY <1>1, <1>3, <1>11, <2>2, <2>3, <3>1 DEF EnvironmentInv, e, doc
  <2>5. TemplateInv' /\ UploadInv' /\ ControlInv'
    BY <1>1, <1>3, <1>9, <2>1 DEF TemplateInv, UploadInv, ControlInv, Pcs
  <2> QED
    BY <1>8, <2>4, <2>5 DEF IInv
<1>12. CASE Parses(e) /\ Registry(maps).is # "map"
  <2>1. Return(tmpl, e) /\ stack' = <<>>
    BY <1>2, <1>3, <1>12
  <2>2. e.files = <<>> /\ Registry(doc.maps).is # "map"
    BY <1>7, <1>10, <1>12 DEF NoResources
  <2>3. IsWhole("environment", e, doc, Cwd, content, TRUE)
    BY <1>10, <1>12, <2>2, NoRegistryIsWhole
  <2>4. "template" \in parts =>
          /\ tmpl.url \in URLs \cup {""}
          /\ IsWhole("template", tmpl, original'.template, Base(tmpl.url), content, calls = 1)
    BY <1>3, <1>5 DEF TemplateIsWhole
  <2>5. pc' = "idle" /\ UploadInv'
    BY <1>1, <1>3, <2>1, <2>3, <2>4, Returned DEF doc
  <2>6. TemplateInv' /\ EnvironmentInv' /\ ControlInv'
    BY <1>1, <1>3, <2>1, <2>5 DEF TemplateInv, EnvironmentInv, ControlInv, Pcs
  <2> QED
    BY <1>8, <2>5, <2>6 DEF IInv
<1>13. CASE ~ Parses(e)
  <2>1. pc' = "idle" /\ upload' = NoUpload("error") /\ stack' = <<>>
    BY <1>2, <1>3, <1>13
  <2>2. upload'.outcome = "error"
    BY <2>1 DEF NoUpload
  <2>3. TemplateInv' /\ EnvironmentInv' /\ UploadInv' /\ ControlInv'
    BY <1>1, <1>3, <2>1, <2>2 DEF TemplateInv, EnvironmentInv, UploadInv, ControlInv, Pcs
  <2> QED
    BY <1>8, <2>3 DEF IInv
<1> QED
  BY <1>11, <1>12, <1>13

(* In the registry and the resources, the frame and the options. *)
LEMMA RegistryIs ==
  ASSUME IInv, pc \in {"registry", "resources"}
  PROVE  /\ Len(stack) = 1 /\ F = stack[1]
         /\ WellFormed(original.environment.maps) /\ Registry(original.environment.maps).is = "map"
         /\ IsDoc(original.environment) /\ Document(original.environment)
         /\ IsTE(env) /\ IsDoc(env.bin) /\ env.bin.kind = original.environment.kind /\ Parses(env)
         /\ env.url \in URLs \cup {""}
         /\ EnvironmentFrame(F, original.environment.maps, env.bin.maps, content)
         /\ todo \subseteq Walked("environment", original.environment.maps)
<1> DEFINE doc == original.environment
<1>1. /\ Len(stack) = 1 /\ Parses(env) /\ Registry(doc.maps).is = "map"
      /\ EnvironmentFrame(stack[1], doc.maps, env.bin.maps, content)
      /\ todo \subseteq Walked("environment", doc.maps)
  BY DEF IInv, EnvironmentInv
<1>2. F = stack[1]
  BY <1>1 DEF F, Last
<1>3. Options("environment", env, doc, Cwd, URLs)
  BY DEF IInv, OptionsInv
<1> HIDE DEF doc
<1>4. /\ IsTE(env) /\ env.bin # NoDoc /\ IsDoc(env.bin) /\ env.bin.kind = doc.kind
      /\ env.url \in URLs \cup {""} /\ IsDoc(doc) /\ WellFormed(doc.maps)
  BY <1>1, <1>3, ParsedOptions
<1>5. Document(doc)
  BY <1>3, <1>4 DEF Options
<1> QED
  BY <1>1, <1>2, <1>4, <1>5 DEF doc

LEMMA RegistryDoneStep ==
  ASSUME IInv, RegistryDone
  PROVE  IInv'
<1> DEFINE maps == original.environment.maps
           now == F.parsed
<1>1. /\ pc = "registry" /\ pc' = "resources" /\ todo' = Resources(now)
      /\ UNCHANGED <<content, tmpl, env, parts, stack, upload, calls, original>>
  BY DEF RegistryDone
<1>2. /\ WellFormed(maps) /\ Registry(maps).is = "map" /\ Len(stack) = 1 /\ F = stack[1]
      /\ EnvironmentFrame(F, maps, env.bin.maps, content)
  BY <1>1, RegistryIs
<1>3. \E held : Partly("environment", maps, now, Cwd, held)
  BY <1>2, RegistryFrame
<1>4. IsSeq(stack)
  BY <1>1 DEF IInv, EnvironmentInv
<1> HIDE DEF maps, now
<1>5. todo' \subseteq Walked("environment", maps)
  BY <1>1, <1>2, <1>3, ResourcesAreWalked
<1> QED
  BY <1>1, <1>2, <1>4, <1>5, RegistryStep DEF maps

LEMMA NextResourceStep ==
  ASSUME IInv, NextResource
  PROVE  IInv'
<1> DEFINE maps == original.environment.maps
<1>10. PICK m \in todo :
         IF NoString(F.parsed[m]) THEN pc' = "panicked" /\ stack' = <<>> /\ todo' = {}
         ELSE SetTop([F EXCEPT !.open = <<Open(m, F.parsed)>>]) /\ todo' = todo \ {m} /\ UNCHANGED pc
  BY DEF NextResource
<1>11. /\ pc = "resources" /\ F.open = <<>>
       /\ UNCHANGED <<content, tmpl, env, parts, upload, calls, original>>
  BY DEF NextResource
<1>12. CASE NoString(F.parsed[m])
  <2>1. pc' = "panicked" /\ stack' = <<>> /\ todo' = {}
    BY <1>10, <1>12
  <2>2. TemplateInv' /\ EnvironmentInv' /\ UploadInv' /\ OptionsInv'
    BY <1>11, <2>1 DEF IInv, TemplateInv, EnvironmentInv, UploadInv, OptionsInv
  <2>3. ControlInv'
    BY <1>11, <2>1 DEF IInv, ControlInv, Pcs, IsWorld
  <2> QED
    BY <2>2, <2>3 DEF IInv
<1>13. SUFFICES ASSUME ~ NoString(F.parsed[m]) PROVE IInv'
  BY <1>12
<1>1. SetTop([F EXCEPT !.open = <<Open(m, F.parsed)>>]) /\ todo' = todo \ {m}
  BY <1>10, <1>13
<1>2. /\ pc = "resources" /\ F.open = <<>>
      /\ UNCHANGED <<content, tmpl, env, pc, parts, upload, calls, original>>
  BY <1>10, <1>11, <1>13
<1>3. /\ WellFormed(maps) /\ EnvironmentFrame(F, maps, env.bin.maps, content)
      /\ todo \subseteq Walked("environment", maps)
  BY <1>2, RegistryIs
<1> DEFINE f == F
           now == env.bin.maps
           open == <<Open(m, f.parsed)>>
           g == [f EXCEPT !.open = open]
<1>4. f.open = <<>> /\ m \in Walked("environment", maps) /\ open = <<Open(m, f.parsed)>> /\ SetTop(g)
  BY <1>1, <1>2, <1>3
<1>5. WellFormed(maps) /\ EnvironmentFrame(f, maps, now, content)
  BY <1>3
<1> HIDE DEF maps, f, now, open
<1>6. EnvironmentFrame(g, maps, now, content)
  BY <1>4, <1>5, ResourceOpened
<1> HIDE DEF g
<1>7. IsSeq(stack') /\ Len(stack') = 1 /\ stack'[1] = g
  BY <1>2, <1>4, OnlyFrame
<1>8. todo' \subseteq Walked("environment", maps)
  BY <1>1, <1>3
<1> QED
  BY <1>2, <1>6, <1>7, <1>8, RegistryStep DEF maps, now

LEMMA SetFiles ==
  ASSUME NEW te, IsTE(te), NEW files
  PROVE  LET t == [te EXCEPT !.files = files]
         IN  IsTE(t) /\ t.url = te.url /\ t.bin = te.bin /\ t.files = files
<1> DEFINE url == te.url
           bin == te.bin
<1>1. te = [url |-> url, bin |-> bin, files |-> te.files]
  BY DEF IsTE
<1> HIDE DEF url, bin
<1>2. [te EXCEPT !.files = files] = [url |-> url, bin |-> bin, files |-> files]
  BY <1>1
<1> QED
  BY <1>2 DEF IsTE, url, bin

LEMMA EnvironmentDoneStep ==
  ASSUME IInv, EnvironmentDone
  PROVE  IInv'
<1> DEFINE f == F
           doc == original.environment
           files == f.te.files
           e == IF files # <<>> THEN Marshalled(env, f.parsed) ELSE env
           t == [e EXCEPT !.files = files]
<1>1. /\ pc = "resources" /\ f.open = <<>> /\ todo = {} /\ env' = t /\ stack' = <<>>
      /\ Return(tmpl, env') /\ UNCHANGED <<content, tmpl, parts, todo, calls, original>>
  BY DEF EnvironmentDone
<1>2. /\ WellFormed(doc.maps) /\ Registry(doc.maps).is = "map" /\ IsDoc(doc) /\ Document(doc)
      /\ IsTE(env) /\ IsDoc(env.bin) /\ env.bin.kind = doc.kind /\ env.url \in URLs \cup {""} /\ Parses(env)
      /\ EnvironmentFrame(f, doc.maps, env.bin.maps, content)
  BY <1>1, RegistryIs
<1>3. /\ calls \in Nat /\ calls > 0 /\ IsWorld(content)
      /\ "environment" \in parts /\ ("template" \in parts => TemplateIsWhole)
  BY <1>1 DEF IInv, ControlInv
<1> HIDE DEF f, doc
<1>4. /\ IsTE(e) /\ e.url = env.url /\ IsDoc(e.bin) /\ e.bin.kind = env.bin.kind
      /\ e.bin.maps = IF files # <<>> THEN f.parsed ELSE env.bin.maps
  <2>1. CASE files # <<>>
    BY <1>2, <2>1, MarshalledIs
  <2>2. CASE ~ (files # <<>>)
    BY <1>2, <2>2
  <2> QED
    BY <2>1, <2>2
<1> HIDE DEF e, files
<1>5. IsTE(t) /\ t.url = env.url /\ t.bin = e.bin /\ t.files = files
  BY <1>4, SetFiles
<1> HIDE DEF t
<1>6. IsWhole("environment", t, doc, Cwd, content, TRUE)
  <2>1. t.files = f.te.files /\ IsDoc(t.bin) /\ t.bin.kind = env.bin.kind
        /\ t.bin.maps = IF f.te.files # <<>> THEN f.parsed ELSE env.bin.maps
    BY <1>4, <1>5 DEF files
  <2> QED
    BY <1>1, <1>2, <2>1, EnvironmentWalked
<1>7. Partly("environment", doc.maps, t.bin.maps, Cwd, URLs)
  <2>1. Partly("environment", doc.maps, f.parsed, Cwd, URLs)
    BY <1>2, RegistryFrame DEF Held
  <2>2. Options("environment", env, doc, Cwd, URLs)
    BY DEF IInv, OptionsInv, doc
  <2>3. Partly("environment", doc.maps, env.bin.maps, Cwd, URLs)
    BY <1>2, <2>2 DEF Options
  <2>4. t.bin.maps = f.parsed \/ t.bin.maps = env.bin.maps
    BY <1>4, <1>5
  <2> QED
    BY <2>1, <2>3, <2>4
<1>8. Options("environment", t, doc, Cwd, URLs)
  BY <1>2, <1>4, <1>5, <1>7, OptionsWalked
<1>9. OptionsInv'
  <2>1. NoResources(t, doc)
    BY <1>2 DEF NoResources
  <2>2. NoResources(env', original'.environment) /\ Options("environment", env', original'.environment, Cwd, URLs)
    BY <1>1, <1>8, <2>1 DEF doc
  <2>3. /\ original = [template |-> original.template, environment |-> original.environment]
        /\ Options("template", tmpl, original.template, Base(tmpl.url), DOMAIN tmpl.files)
    BY DEF IInv, OptionsInv
  <2>4. original' = original /\ tmpl' = tmpl /\ calls' = calls /\ calls > 0
    BY <1>1, <1>3
  <2> QED
    BY <2>2, <2>3, <2>4 DEF OptionsInv
<1>10. "template" \in parts =>
          /\ tmpl.url \in URLs \cup {""}
          /\ IsWhole("template", tmpl, original'.template, Base(tmpl.url), content, calls = 1)
  BY <1>1, <1>3 DEF TemplateIsWhole
<1>11. pc' = "idle" /\ UploadInv'
  <2>1. Return(tmpl, t) /\ IsWhole("environment", t, original'.environment, Cwd, content, TRUE)
    BY <1>1, <1>6 DEF doc
  <2>2. tmpl = tmpl' /\ UNCHANGED <<content, parts, calls>>
    BY <1>1
  <2> QED
    BY <1>3, <1>10, <2>1, <2>2, Returned
<1>12. TemplateInv' /\ EnvironmentInv' /\ ControlInv'
  BY <1>1, <1>3, <1>11 DEF TemplateInv, EnvironmentInv, ControlInv, Pcs
<1> QED
  BY <1>9, <1>11, <1>12 DEF IInv

-----------------------------------------------------------------------------
(* The invariant holds at first and is kept by every step. *)
LEMMA FreshOptions ==
  ASSUME NEW te \in Templates \cup Environments, NEW walk, NEW dir, NEW held
  PROVE  Options(walk, te, te.bin, dir, held) /\ te.files = <<>>
<1>1. /\ te = TE(te.url, te.bin)
      /\ \/ te.bin = NoDoc /\ te.url \in Refs
         \/ Document(te.bin) /\ te.url \in URLs \cup {""}
  BY StackFilesAssumption
<1>2. IsTE(te) /\ te.files = <<>>
  <2> DEFINE url == te.url
             bin == te.bin
  <2>1. te = TE(url, bin)
    BY <1>1
  <2> HIDE DEF url, bin
  <2>2. IsTE(TE(url, bin)) /\ TE(url, bin).files = <<>>
    BY NewTE
  <2> QED
    BY <2>1, <2>2
<1>3. Document(te.bin) => IsDoc(te.bin) /\ te.bin # NoDoc
  BY NoDocIs
<1>4. ASSUME Parses(te) PROVE Partly(walk, te.bin.maps, te.bin.maps, dir, held)
  <2>1. te.bin.kind \in {"template", "map"}
    BY <1>4 DEF Parses
  <2>2. Document(te.bin)
    BY <1>1, <2>1, NoDocIs
  <2>3. WellFormed(te.bin.maps)
    BY <2>1, <2>2 DEF Document
  <2> QED
    BY <2>3, NothingReplaced
<1>5. te.bin = NoDoc => te.url \in Refs
  BY <1>1, <1>3
<1>6. te.bin # NoDoc => te.url \in URLs \cup {""} /\ Document(te.bin)
  BY <1>1
<1> QED
  BY <1>2, <1>3, <1>4, <1>5, <1>6 DEF Options

LEMMA InitInv == Init => IInv
<1> SUFFICES ASSUME Init PROVE IInv
  OBVIOUS
<1>1. /\ content \in Worlds /\ tmpl \in Templates /\ env \in Environments
      /\ pc = "idle" /\ stack = <<>> /\ todo = {} /\ upload.outcome = "none" /\ calls = 0
      /\ original.template = tmpl.bin /\ original.environment = env.bin
      /\ original = [template |-> original.template, environment |-> original.environment]
  BY DEF Init, NoUpload
<1>2. IsWorld(content)
  BY <1>1, StackFilesAssumption DEF IsWorld
<1>3. Options("template", tmpl, tmpl.bin, Base(tmpl.url), DOMAIN tmpl.files) /\ tmpl.files = <<>>
  BY <1>1, FreshOptions
<1>4. Options("environment", env, env.bin, Cwd, URLs) /\ env.files = <<>>
  BY <1>1, FreshOptions
<1>5. OptionsInv
  BY <1>1, <1>3, <1>4 DEF OptionsInv, NoResources
<1>6. TemplateInv /\ EnvironmentInv /\ UploadInv /\ ControlInv
  BY <1>1, <1>2 DEF TemplateInv, EnvironmentInv, UploadInv, ControlInv, Pcs
<1> QED
  BY <1>5, <1>6 DEF IInv

LEMMA StutterInv ==
  ASSUME IInv, UNCHANGED vars PROVE IInv'
<1>1. UNCHANGED <<content, tmpl, env, pc, parts, stack, todo, upload, calls, original>>
  BY DEF vars
<1>2. ControlInv'
  BY <1>1 DEF IInv, ControlInv, TemplateIsWhole
<1>3. OptionsInv'
  BY <1>1 DEF IInv, OptionsInv
<1>4. TemplateInv'
  BY <1>1 DEF IInv, TemplateInv
<1>5. EnvironmentInv'
  BY <1>1 DEF IInv, EnvironmentInv
<1>6. UploadInv'
  BY <1>1 DEF IInv, UploadInv
<1> QED
  BY <1>2, <1>3, <1>4, <1>5, <1>6 DEF IInv

LEMMA NextInv == IInv /\ [Next]_vars => IInv'
<1> SUFFICES ASSUME IInv, [Next]_vars PROVE IInv'
  OBVIOUS
<1>1. CASE Begin({"template"})
  BY <1>1, BeginWithTemplate
<1>2. CASE Begin({"template", "environment"})
  BY <1>2, BeginWithTemplate
<1>3. CASE Begin({"environment"})
  BY <1>3, BeginWithout
<1>4. ASSUME Walking, NEW key \in M.left,
             Keep(key) \/ Enter(key) \/ Unexpected(key) \/ Follow(key) \/ FetchFails(key)
      PROVE  IInv'
  <2>1. CASE Keep(key)
    BY <1>4, <2>1, KeepStep
  <2>2. CASE Enter(key)
    BY <1>4, <2>2, EnterStep
  <2>3. CASE Unexpected(key) \/ FetchFails(key)
    BY <1>4, <2>3, FailStep DEF Unexpected, FetchFails
  <2>4. CASE Follow(key)
    BY <1>4, <2>4, FollowStep
  <2> QED
    BY <1>4, <2>1, <2>2, <2>3, <2>4
<1>5. CASE Leave
  BY <1>5, LeaveStep
<1>6. CASE ChildDone
  BY <1>6, ChildDoneStep
<1>7. CASE TemplateDone
  BY <1>7, TemplateDoneStep
<1>8. CASE ReadEnvironment
  BY <1>8, ReadEnvironmentStep
<1>9. CASE RegistryDone
  BY <1>9, RegistryDoneStep
<1>10. CASE NextResource
  BY <1>10, NextResourceStep
<1>11. CASE EnvironmentDone
  BY <1>11, EnvironmentDoneStep
<1>12. CASE Finished \/ UNCHANGED vars
  BY <1>12, StutterInv DEF Finished
<1> QED
  BY <1>1, <1>2, <1>3, <1>4, <1>5, <1>6, <1>7, <1>8, <1>9, <1>10, <1>11, <1>12 DEF Next

LEMMA WholeFromInv == IInv => UploadIsWhole
<1> SUFFICES ASSUME IInv, upload.outcome = "ok"
    PROVE  LET led   == IF "template" \in parts THEN LedTo(content, Named("template", original.template.maps, Base(tmpl.url))) ELSE {}
               named == IF "environment" \in parts THEN Named("environment", original.environment.maps, Cwd) ELSE {}
               based == "environment" \in parts /\ Based(original.environment.maps)
           IN  /\ "template" \in parts =>
                    upload.template = Resolved("template", original.template, Base(tmpl.url))
               /\ led \subseteq DOMAIN upload.files
               /\ \A u \in led :
                    \/ upload.files[u] = Uploaded(content, u)
                    \/ (based \/ u \in named) /\ upload.files[u] = content[u]
               /\ ~based =>
                    /\ "environment" \in parts =>
                         upload.environment = Resolved("environment", original.environment, Cwd)
                    /\ named \subseteq DOMAIN upload.files
                    /\ \A u \in named \ led : upload.files[u] = content[u]
                    /\ calls = 1 => DOMAIN upload.files = led \cup named
  BY DEF UploadIsWhole
<1>1. Complete(upload, content, parts, original, Base(tmpl.url), calls = 1)
  BY DEF IInv, UploadInv
<1> DEFINE led   == IF "template" \in parts THEN LedTo(content, Named("template", original.template.maps, Base(tmpl.url))) ELSE {}
           named == IF "environment" \in parts THEN Named("environment", original.environment.maps, Cwd) ELSE {}
           files == upload.files
<1>2. /\ "template" \in parts => upload.template = Resolved("template", original.template, Base(tmpl.url))
      /\ "environment" \in parts => upload.environment = Resolved("environment", original.environment, Cwd)
      /\ led \cup named \subseteq DOMAIN files
      /\ \A u \in named : files[u] = content[u]
      /\ \A u \in led \ named : files[u] = Uploaded(content, u)
      /\ calls = 1 => DOMAIN files = led \cup named
  BY <1>1 DEF Complete
<1> HIDE DEF led, named, files
<1>3. \A u \in led : files[u] = Uploaded(content, u) \/ (u \in named /\ files[u] = content[u])
  BY <1>2
<1> QED
  BY <1>2, <1>3 DEF led, named, files

LEMMA UsableFromInv == IInv => HalfDoneIsUsable
<1> SUFFICES ASSUME IInv, Parses(tmpl) PROVE HalfDoneIsUsable
  BY DEF HalfDoneIsUsable
<1> DEFINE t == tmpl
           doc == original.template
           dir == Base(t.url)
           held == DOMAIN t.files
           maps == doc.maps
           now == t.bin.maps
<1>1. Options("template", t, doc, dir, held) /\ Parses(t)
  BY DEF IInv, OptionsInv
<1> HIDE DEF t, doc
<1>2. /\ IsDoc(t.bin) /\ t.bin.kind = doc.kind /\ t.url \in URLs \cup {""}
      /\ IsDoc(doc) /\ WellFormed(maps) /\ Partly("template", maps, now, dir, held)
  <2> HIDE DEF dir, held
  <2> QED
    BY <1>1, ParsedOptions
<1>3. dir \in Dirs /\ "template" \in Walks
  BY <1>2, BaseIsADir DEF Walks
<1>4. Resolved("template", t.bin, dir) = Resolved("template", doc, dir)
  <2>1. WithURLs("template", now, dir) = WithURLs("template", maps, dir)
    <3> HIDE DEF now, maps, dir, held
    <3> QED
      BY <1>2, <1>3, SameURLs
  <2> DEFINE bin == t.bin
             a == Resolved("template", bin, dir)
             b == Resolved("template", doc, dir)
  <2>4. IsDoc(bin) /\ IsDoc(doc) /\ bin.kind = doc.kind
        /\ WithURLs("template", bin.maps, dir) = WithURLs("template", doc.maps, dir)
    BY <1>2, <2>1
  <2> HIDE DEF bin, dir
  <2>5. IsDoc(a) /\ a.kind = bin.kind /\ a.maps = WithURLs("template", bin.maps, dir)
    BY <2>4, ResolvedIs
  <2>6. IsDoc(b) /\ b.kind = doc.kind /\ b.maps = WithURLs("template", doc.maps, dir)
    BY <2>4, ResolvedIs
  <2>2. IsDoc(a) /\ IsDoc(b) /\ a.kind = b.kind /\ a.maps = b.maps
    BY <2>4, <2>5, <2>6
  <2> HIDE DEF a, b
  <2>3. a = b
    BY <2>2, SameDoc
  <2> QED
    BY <2>3 DEF a, b, bin
<1>5. ASSUME NEW p \in Places("template", maps), now[p[1]][p[2]] # maps[p[1]][p[2]]
      PROVE  now[p[1]][p[2]].to \in held
  <2> HIDE DEF maps, now, held, dir
  <2>1. p = <<p[1], p[2]>>
    BY <1>2, <1>3, PlacesAre
  <2>2. p[1] \in DOMAIN maps /\ p[2] \in DOMAIN maps[p[1]]
    <3> DEFINE m == p[1]
               k == p[2]
    <3>1. <<m, k>> \in Places("template", maps)
      BY <1>5, <2>1
    <3> HIDE DEF m, k
    <3>2. m \in Walked("template", maps) /\ k \in DOMAIN maps[m]
      BY <1>2, <1>3, <3>1, PlacesAre
    <3>3. Walked("template", maps) \subseteq DOMAIN maps
      BY <1>2, <1>3, WalkedIn
    <3> QED
      BY <3>2, <3>3 DEF m, k
  <2>3. /\ now[p[1]][p[2]] = Str(Resolve(dir, maps[p[1]][p[2]].to))
        /\ Resolve(dir, maps[p[1]][p[2]].to) \in held
    BY <1>2, <1>5, <2>2 DEF Partly
  <2> QED
    BY <2>3 DEF Str
<1> QED
  BY <1>4, <1>5 DEF HalfDoneIsUsable, t, doc

(* The invariant that the next two theorems follow from: at every step of   *)
(* the two walks, each reference of the document is still to come, in a map *)
(* or a parent template that is open, or it is a URL by now, and Files has  *)
(* all it leads to.                                                         *)
THEOREM WalksKeepTrack == Spec => []IInv
  BY InitInv, NextInv, PTL DEF Spec

(* UploadIsWhole: ToStackCreateMap, ToStackAdoptMap and toStackUpdateMap    *)
(* send every file that the template and the environment lead to, whatever  *)
(* these are, in whatever order the keys of a map come, and whatever calls  *)
(* have failed before; but nothing is said of an environment with a         *)
(* base_url, nor which copy is sent of a file that both of them name.       *)
THEOREM UploadsAreWhole == Spec => []UploadIsWhole
  BY WalksKeepTrack, WholeFromInv, PTL

(* HalfDoneIsUsable: a call of getFileContents that fails leaves a template *)
(* that means the same, and has the file of each reference it has replaced. *)
THEOREM HalfDoneStaysUsable == Spec => []HalfDoneIsUsable
  BY WalksKeepTrack, UsableFromInv, PTL
=============================================================================
