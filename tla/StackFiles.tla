----------------------------- MODULE StackFiles -----------------------------
(***************************************************************************)
(* What package stacks sends to Heat: a template, an environment and the   *)
(* files they name.  ToStackCreateMap and toStackUpdateMap walk the parsed *)
(* template, fetch what it refers to, walk that in turn, and write the     *)
(* full URL in place of each reference; then they do the same, less deep,  *)
(* for the resource registry of the environment.  The order of the keys of *)
(* a Go map is random, a fetch may fail, and the options may be used again,*)
(* after a failure or when files have changed.                             *)
(*                                                                         *)
(* A document is a tree of maps and lists.  A list is walked like a map    *)
(* whose keys are its positions and whose strings are no references.       *)
(* Rendering and parsing are inverse to each other, but for what Parse     *)
(* says of "text".                                                         *)
(* fileMaps is written and never read, and is left out.                    *)
(***************************************************************************)
EXTENDS Sequences, SequencesExt

CONSTANTS
  URLs, Paths,       \* full and relative references
  Dirs, Cwd,         \* the places that paths are relative to
  DirOf,             \* the directory of a URL
  Join,              \* Join[d, p]: the URL of path p in d
  TemplateNames,     \* the references that end in .yaml or .template
  Worlds,            \* what there may be at the URLs
  Templates, Environments,  \* the options an application may pass
  MaxCalls

Refs == URLs \cup Paths
NoFile == [kind |-> "no file", maps |-> <<>>]
NoDoc == [kind |-> "none", maps |-> <<>>]

(* A value in a map: a string, a number or the like, a nested map or list,  *)
(* or of a type like a date for which getFileContents has no case.          *)
Str(s) == [is |-> "string", to |-> s]
Number == [is |-> "number", to |-> ""]
Nested(m) == [is |-> "map", to |-> m]
Listed(l) == [is |-> "list", to |-> l]
Date == [is |-> "date", to |-> ""]

(* A Template or Environment: its URL, or its contents, and its Files. *)
TE(url, bin) == [url |-> url, bin |-> bin, files |-> <<>>]

(* What may be fetched: references have a URL, nested maps are there, and   *)
(* a path is a path of a template still when it has become a URL.           *)
IsValue(v) == v = [is |-> v.is, to |-> v.to]
WellFormed(maps) ==
  /\ "root" \in DOMAIN maps
  /\ maps = [m \in DOMAIN maps |-> [k \in DOMAIN maps[m] |-> maps[m][k]]]
  /\ \A m \in DOMAIN maps : \A k \in DOMAIN maps[m] :
       LET v == maps[m][k]
       IN  /\ IsValue(v)
           /\ v.is \in {"map", "list"} => v.to \in DOMAIN maps
           /\ v.is = "string" /\ k = "get_file" => v.to \in Refs
Document(d) ==
  /\ d = [kind |-> d.kind, maps |-> d.maps]
  /\ d.kind \in {"no file", "text", "map", "template"}
  /\ d.kind \in {"map", "template"} => WellFormed(d.maps)

ASSUME StackFilesAssumption ==
  /\ "" \notin URLs
  /\ Cwd \in Dirs /\ DirOf \in [URLs -> Dirs] /\ Join \in [Dirs \X Paths -> URLs]
  /\ TemplateNames \subseteq Refs
  /\ \A d \in Dirs : \A p \in Paths \cap TemplateNames : Join[d, p] \in TemplateNames
  /\ \A world \in Worlds : \A u \in URLs : Document(world[u])
  /\ \A te \in Templates \cup Environments :
       /\ te = TE(te.url, te.bin)
       /\ \/ te.bin = NoDoc /\ te.url \in Refs
          \/ Document(te.bin) /\ te.url \in URLs \cup {""}

VARIABLES
  content,    \* what there is at each URL during this call
  tmpl,       \* TemplateOpts, which outlives the call
  env,        \* EnvironmentOpts
  pc,         \* "idle", what is walked: "template", "registry", "resources", or "panicked"
  parts,      \* the parts of the options that this call is made with
  stack,      \* one frame per template in the recursion
  todo,       \* the resources of the registry still to be looked at
  upload,     \* what the last call returned
  calls,
  original    \* history: the two documents as they were written

vars == <<content, tmpl, env, pc, parts, stack, todo, upload, calls, original>>

NoUpload(outcome) == [outcome |-> outcome, template |-> NoDoc, environment |-> NoDoc, files |-> <<>>]

Init ==
  /\ content \in Worlds
  /\ tmpl \in Templates /\ env \in Environments
  /\ pc = "idle" /\ parts = {} /\ stack = <<>> /\ todo = {}
  /\ upload = NoUpload("none") /\ calls = 0
  /\ original = [template |-> tmpl.bin, environment |-> env.bin]

-----------------------------------------------------------------------------
(* Where references lead, and which strings are references. *)

(* NormalizePathURL: a reference with a scheme stays as it is. *)
Resolve(dir, r) == IF r \in URLs THEN r ELSE Join[dir, r]

(* Broken: a child is looked for in the current directory. *)
Base_Cwd(url) == Cwd

(* The references in a document are relative to it, or to the current       *)
(* directory if it was not read from a URL.                                 *)
Base(url) == IF url = "" THEN Cwd ELSE DirOf[url]

(* ignoreIfTemplate and ignoreIfEnvironment, the other way round. *)
RefersInTemplate(key, v) ==
  v.is = "string" /\ (key = "get_file" \/ (key = "type" /\ v.to \in TemplateNames))

(* A string with "::" names a resource type, every other one is a reference. *)
RefersInEnvironment(key, v) ==
  v.is = "string" /\ key \notin {"base_url", "hooks"} /\ v.to \in Refs

Refers(walk, key, v) ==
  IF walk = "template" THEN RefersInTemplate(key, v) ELSE RefersInEnvironment(key, v)

-----------------------------------------------------------------------------
(* Frames of the recursion: a template, and the maps of it that are open.   *)

Open(map, maps) == [map |-> map, left |-> DOMAIN maps[map], updated |-> FALSE]
Frame(te, map, key) ==
  [te |-> te, parsed |-> te.bin.maps, open |-> <<Open(map, te.bin.maps)>>, key |-> key]

(* Files are copied one by one into a map that may have some of them. *)
File(url, bin) == [u \in {url} |-> bin]
Copied(from, to) ==
  [u \in DOMAIN from \cup DOMAIN to |-> IF u \in DOMAIN from THEN from[u] ELSE to[u]]

Walking == pc # "idle" /\ stack # <<>> /\ Last(stack).open # <<>>
F == Last(stack)
M == Last(F.open)
Value(key) == F.parsed[M.map][key]
Walk == IF pc = "template" THEN "template" ELSE "environment"

SetTop(frame) == stack' = Append(Front(stack), frame)

(* The call returns an error.  The caller's template stays as far as it got;*)
(* the environment is changed at the end only.                              *)
Fail ==
  /\ pc' = "idle" /\ stack' = <<>> /\ todo' = {}
  /\ upload' = NoUpload("error")
  /\ tmpl' = IF pc = "template" THEN stack[1].te ELSE tmpl
  /\ UNCHANGED <<content, env, parts, calls, original>>

(* Fetch: what is present is not fetched again. *)
Fetched(te, world) ==
  IF te.bin # NoDoc THEN te
  ELSE LET u == Resolve(Cwd, te.url)
       IN  [te EXCEPT !.url = u, !.bin = IF world[u] = NoFile THEN NoDoc ELSE world[u]]
Parses(te) == te.bin.kind \in {"template", "map"}
AsWritten(which, te) ==
  [original EXCEPT ![which] = IF @ = NoDoc THEN te.bin ELSE @]

-----------------------------------------------------------------------------
(* ToStackCreateMap, ToStackAdoptMap, toStackUpdateMap *)

(* Broken: Files is made anew where the code keeps it. *)
Begin_NewFiles(which) ==
  /\ pc = "idle" /\ calls < MaxCalls /\ calls' = calls + 1
  /\ content' \in (IF calls = 0 THEN {content} ELSE Worlds)
  /\ parts' = which
  /\ LET t == [Fetched(tmpl, content') EXCEPT !.files = <<>>] IN
     IF "template" \notin which
     THEN pc' = "environment" /\ upload' = NoUpload("none") /\ UNCHANGED <<tmpl, stack, original>>
     ELSE /\ tmpl' = t
          /\ original' = AsWritten("template", t)
          /\ IF Parses(t)
             THEN pc' = "template" /\ stack' = <<Frame(t, "root", "")>> /\ upload' = NoUpload("none")
             ELSE pc' = "idle" /\ upload' = NoUpload("error") /\ UNCHANGED stack
  /\ UNCHANGED <<env, todo>>

(* Create and Adopt have a template, Update may be given the environment    *)
(* only.  Others may have changed the files since the last call.            *)
Begin(which) ==
  /\ pc = "idle" /\ calls < MaxCalls /\ calls' = calls + 1
  /\ content' \in (IF calls = 0 THEN {content} ELSE Worlds)
  /\ parts' = which
  /\ LET t == Fetched(tmpl, content') IN
     IF "template" \notin which
     THEN pc' = "environment" /\ upload' = NoUpload("none") /\ UNCHANGED <<tmpl, stack, original>>
     ELSE /\ tmpl' = t
          /\ original' = AsWritten("template", t)
          /\ IF Parses(t)
             THEN pc' = "template" /\ stack' = <<Frame(t, "root", "")>> /\ upload' = NoUpload("none")
             ELSE pc' = "idle" /\ upload' = NoUpload("error") /\ UNCHANGED stack
  /\ UNCHANGED <<env, todo>>

(* The body of the request.  A file that both name is as the environment    *)
(* has it.                                                                  *)
Return(t, e) ==
  LET with == "template" \in parts
      own  == IF with THEN t.files ELSE <<>>
  IN  /\ pc' = "idle"
      /\ upload' = [outcome |-> "ok", template |-> IF with THEN t.bin ELSE NoDoc,
                    environment |-> e.bin, files |-> Copied(e.files, own)]

-----------------------------------------------------------------------------
(* getFileContents *)

Without(o, key) == [o EXCEPT !.left = @ \ {key}]
Done(frame, key) == [frame EXCEPT !.open = Append(Front(@), Without(Last(@), key))]

(* A string that is no reference stays, a map or a list is walked. *)
Keep(key) ==
  /\ Value(key).is \in {"string", "number"} /\ ~Refers(Walk, key, Value(key))
  /\ SetTop(Done(F, key))
  /\ UNCHANGED <<content, tmpl, env, pc, parts, todo, upload, calls, original>>

Enter(key) ==
  /\ Value(key).is \in {"map", "list"}
  /\ SetTop([Done(F, key) EXCEPT !.open = Append(@, Open(Value(key).to, F.parsed))])
  /\ UNCHANGED <<content, tmpl, env, pc, parts, todo, upload, calls, original>>

(* ErrUnexpectedType *)
Unexpected(key) == Value(key).is = "date" /\ Fail

Updated(o, key) == [o EXCEPT !.left = @ \ {key}, !.updated = TRUE]
WithURL(maps, m, key, url) == [maps EXCEPT ![m][key].to = url]

(* Broken: what the child refers to is not added to Files. *)
Adopt_ChildOnly(frame, key, child) ==
  [frame EXCEPT
     !.parsed = WithURL(@, Last(frame.open).map, key, child.url),
     !.te.files = Copied(File(child.url, child.bin), @),
     !.open = Append(Front(@), Updated(Last(@), key))]

(* The rest of mapElemFileContents: the child's files, then its URL. *)
WithFiles(te, child) ==
  [te EXCEPT !.files = Copied(child.files, Copied(File(child.url, child.bin), @))]
Adopt(frame, key, child) ==
  [frame EXCEPT
     !.parsed = WithURL(@, Last(frame.open).map, key, child.url),
     !.te = WithFiles(@, child),
     !.open = Append(Front(@), Updated(Last(@), key))]

(* makeChildTemplate: a child that is a template is walked first, unless it *)
(* is the environment that names it.                                        *)
Follow(key) ==
  /\ Refers(Walk, key, Value(key))
  /\ LET u == Resolve(Base(F.te.url), Value(key).to)
         child == TE(u, content[u])
     IN  /\ content[u] # NoFile
         /\ IF Walk = "template" /\ child.bin.kind = "template"
            THEN stack' = Append(stack, Frame(child, "root", key))
            ELSE SetTop(Adopt(F, key, child))
  /\ UNCHANGED <<content, tmpl, env, pc, parts, todo, upload, calls, original>>

(* There is no such file, or it cannot be had now. *)
FetchFails(key) == Refers(Walk, key, Value(key)) /\ Fail

Marshalled(te, maps) == [te EXCEPT !.bin.maps = maps]

(* Broken: the contents are not rendered anew. *)
Leave_AsRead ==
  /\ Walking /\ M.left = {}
  /\ SetTop([F EXCEPT !.open = Front(@)])
  /\ UNCHANGED <<content, tmpl, env, pc, parts, todo, upload, calls, original>>

(* The end of a map: the contents are rendered anew if it has changed. *)
Leave ==
  /\ Walking /\ M.left = {}
  /\ SetTop([F EXCEPT !.te = IF M.updated THEN Marshalled(@, F.parsed) ELSE @,
                      !.open = Front(@)])
  /\ UNCHANGED <<content, tmpl, env, pc, parts, todo, upload, calls, original>>

(* The end of a child template, and of the caller's own. *)
ChildDone ==
  /\ Len(stack) > 1 /\ F.open = <<>>
  /\ stack' = Append(Front(Front(stack)), Adopt(Last(Front(stack)), F.key, F.te))
  /\ UNCHANGED <<content, tmpl, env, pc, parts, todo, upload, calls, original>>

TemplateDone ==
  /\ pc = "template" /\ Len(stack) = 1 /\ F.open = <<>>
  /\ tmpl' = F.te
  /\ stack' = <<>>
  /\ IF "environment" \in parts
     THEN pc' = "environment" /\ UNCHANGED upload
     ELSE Return(F.te, TE("", NoDoc))
  /\ UNCHANGED <<content, env, parts, todo, calls, original>>

-----------------------------------------------------------------------------
(* Environment.Parse and getRRFileContents *)

Registry(maps) == IF "resource_registry" \in DOMAIN maps["root"]
                  THEN maps["root"]["resource_registry"] ELSE Str("")

(* A base_url that is no string: the type assertion panics. *)
NoString(map) == "base_url" \in DOMAIN map /\ map["base_url"].is # "string"

(* The walk is that of a temporary template without a URL: the base_url of  *)
(* the registry or of a resource is stored in it and not looked at again.   *)
ReadEnvironment ==
  /\ pc = "environment"
  /\ env' = Fetched(env, content)
  /\ original' = AsWritten("environment", env')
  /\ LET maps == env'.bin.maps IN
     IF Parses(env') /\ Registry(maps).is = "map"
     THEN /\ IF NoString(maps[Registry(maps).to])
             THEN pc' = "panicked" /\ UNCHANGED stack
             ELSE /\ pc' = "registry"
                  /\ stack' = <<[te |-> TE("", NoDoc), parsed |-> maps, key |-> "",
                                 open |-> <<Open(Registry(maps).to, maps)>>]>>
          /\ UNCHANGED upload
     ELSE /\ IF Parses(env')
             THEN Return(tmpl, env')
             ELSE pc' = "idle" /\ upload' = NoUpload("error")
          /\ UNCHANGED stack
  /\ UNCHANGED <<content, tmpl, parts, todo, calls>>

(* The whole registry has been walked; its resources are walked once more. *)
Resources(maps) ==
  LET registry == maps[Registry(maps).to]
  IN  IF "resources" \in DOMAIN registry /\ registry["resources"].is = "map"
      THEN {v.to : v \in {w \in Range(maps[registry["resources"].to]) : w.is = "map"}}
      ELSE {}

RegistryDone ==
  /\ pc = "registry" /\ F.open = <<>>
  /\ pc' = "resources"
  /\ todo' = Resources(F.parsed)
  /\ UNCHANGED <<content, tmpl, env, parts, stack, upload, calls, original>>

NextResource ==
  /\ pc = "resources" /\ F.open = <<>>
  /\ \E m \in todo :
       IF NoString(F.parsed[m])
       THEN pc' = "panicked" /\ stack' = <<>> /\ todo' = {}
       ELSE /\ SetTop([F EXCEPT !.open = <<Open(m, F.parsed)>>])
            /\ todo' = todo \ {m}
            /\ UNCHANGED pc
  /\ UNCHANGED <<content, tmpl, env, parts, upload, calls, original>>

EnvironmentDone ==
  /\ pc = "resources" /\ F.open = <<>> /\ todo = {}
  /\ LET files == F.te.files
         e == IF files # <<>> THEN Marshalled(env, F.parsed) ELSE env
     IN  env' = [e EXCEPT !.files = files]
  /\ stack' = <<>>
  /\ Return(tmpl, env')
  /\ UNCHANGED <<content, tmpl, parts, todo, calls, original>>

Finished == (pc = "panicked" \/ (pc = "idle" /\ calls = MaxCalls)) /\ UNCHANGED vars

Next ==
  \/ Begin({"template"}) \/ Begin({"template", "environment"}) \/ Begin({"environment"})
  \/ Walking /\ \E key \in M.left :
       Keep(key) \/ Enter(key) \/ Unexpected(key) \/ Follow(key) \/ FetchFails(key)
  \/ Leave \/ ChildDone \/ TemplateDone
  \/ ReadEnvironment \/ RegistryDone \/ NextResource \/ EnvironmentDone
  \/ Finished

Spec == Init /\ [][Next]_vars

-----------------------------------------------------------------------------
(* Properties *)

(* The least set that holds start and, with each x, what follows x.         *)
Reached(next, start) ==
  {x \in DOMAIN next : \A S \in SUBSET DOMAIN next :
     start \subseteq S /\ (\A y \in S : next[y] \subseteq S) => x \in S}

(* The maps and lists of a document that are walked, and the references in them. *)
Kids(maps) == [m \in DOMAIN maps |-> {v.to : v \in {w \in Range(maps[m]) : w.is \in {"map", "list"}}}]
Roots(walk, maps) == IF walk = "template" THEN {"root"}
                     ELSE IF Registry(maps).is = "map" THEN {Registry(maps).to} ELSE {}
Walked(walk, maps) == Reached(Kids(maps), Roots(walk, maps))
Places(walk, maps) ==
  {p \in Walked(walk, maps) \X UNION {DOMAIN maps[m] : m \in DOMAIN maps} :
     p[2] \in DOMAIN maps[p[1]] /\ Refers(walk, p[2], maps[p[1]][p[2]])}

(* The document with a URL for each of them, and these URLs. *)
WithURLs(walk, maps, dir) ==
  [m \in DOMAIN maps |-> [k \in DOMAIN maps[m] |->
     IF <<m, k>> \in Places(walk, maps) THEN Str(Resolve(dir, maps[m][k].to)) ELSE maps[m][k]]]
Resolved(walk, doc, dir) == [doc EXCEPT !.maps = WithURLs(walk, @, dir)]
Named(walk, maps, dir) == {Resolve(dir, maps[p[1]][p[2]].to) : p \in Places(walk, maps)}

(* All that a template leads to, by way of other templates. *)
Leads(world) ==
  [u \in URLs |-> IF world[u].kind = "template" THEN Named("template", world[u].maps, DirOf[u]) ELSE {}]
LedTo(world, start) == Reached(Leads(world), start)

(* There is a base_url in the registry. *)
Based(maps) == \E m \in Walked("environment", maps) : "base_url" \in DOMAIN maps[m]

Uploaded(world, u) ==
  IF world[u].kind = "template" THEN Resolved("template", world[u], DirOf[u]) ELSE world[u]

(* A body that is sent is complete: the template as it was written, with a  *)
(* URL for each reference and nothing else changed, and under these URLs    *)
(* everything it leads to, treated likewise; so also when an earlier call   *)
(* has failed half-way or the files have changed since.  The environment    *)
(* likewise, but that the files it names are sent as they are; and nothing  *)
(* beyond this but what an earlier call has found.                          *)
(*                                                                          *)
(* Two cases are left out.  environment.go:57-58 and 84 say that a base_url *)
(* of the registry or a resource is used, and the code does not look at it: *)
(* where there is one, nothing is claimed of the environment.  And where    *)
(* both name a file, it may be sent as either has it.                       *)
UploadIsWhole ==
  upload.outcome = "ok" =>
    LET led   == IF "template" \in parts THEN LedTo(content, Named("template", original.template.maps, Base(tmpl.url))) ELSE {}
        named == IF "environment" \in parts THEN Named("environment", original.environment.maps, Cwd) ELSE {}
        based == "environment" \in parts /\ Based(original.environment.maps)
    IN  /\ "template" \in parts =>
             upload.template = Resolved("template", original.template, Base(tmpl.url))
        /\ led \subseteq DOMAIN upload.files
        /\ \A u \in led :
             \/ upload.files[u] = Uploaded(content, u)
             \/ (based \/ u \in named) /\ upload.files[u] = content[u]
        /\ ~based =>
             /\ "environment" \in parts =>
                  upload.environment = Resolved("environment", original.environment, Cwd)
             /\ named \subseteq DOMAIN upload.files
             /\ \A u \in named \ led : upload.files[u] = content[u]
             /\ calls = 1 => DOMAIN upload.files = led \cup named

(* A call that fails half-way leaves a template that means the same, and    *)
(* has the file for every reference it has already replaced by a URL.       *)
HalfDoneIsUsable ==
  Parses(tmpl) =>
    LET dir == Base(tmpl.url)
    IN  /\ Resolved("template", tmpl.bin, dir) = Resolved("template", original.template, dir)
        /\ \A p \in Places("template", original.template.maps) :
             tmpl.bin.maps[p[1]][p[2]] # original.template.maps[p[1]][p[2]] =>
               tmpl.bin.maps[p[1]][p[2]].to \in DOMAIN tmpl.files
=============================================================================
