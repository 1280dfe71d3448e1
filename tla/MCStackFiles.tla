---------------------------- MODULE MCStackFiles ----------------------------
(***************************************************************************)
(* StackFiles for TLC: a template at the current directory that names a    *)
(* template in a directory below, whose path for the common file is        *)
(* another, and an environment that names some of the same files, or one with a     *)
(* base_url.                                                               *)
(***************************************************************************)
EXTENDS StackFiles

MCURLs == {"/app.yaml", "/note", "/lib/db.yaml", "/lib/note", "/env.yaml", "/lib/registry"}
MCPaths == {"app.yaml", "note", "lib/db.yaml", "../note", "env.yaml", "lib/registry"}
MCDirs == {"/", "/lib"}
MCDirOf == [u \in MCURLs |-> IF u \in {"/lib/db.yaml", "/lib/note", "/lib/registry"} THEN "/lib" ELSE "/"]

(* Only the joins that the documents below ask for. *)
MCJoin ==
  [d \in MCDirs, p \in MCPaths |->
     CASE p = "note" /\ d = "/lib" -> "/lib/note"
       [] p \in {"note", "../note"} -> "/note"
       [] p = "app.yaml" -> "/app.yaml"
       [] p = "env.yaml" -> "/env.yaml"
       [] p = "lib/registry" -> "/lib/registry"
       [] OTHER -> "/lib/db.yaml"]

Template(maps) == [kind |-> "template", maps |-> maps]
Map(maps) == [kind |-> "map", maps |-> maps]
Text == [kind |-> "text", maps |-> <<>>]
Server == Str("OS::Nova::Server")

(* A resource of the type of the other template, a server with a file. *)
App == Template([
  root   |-> [db |-> Nested("db"), server |-> Nested("server")],
  db     |-> [type |-> Str("lib/db.yaml")],
  server |-> [type |-> Server, name |-> Str("note"), data |-> Nested("data")],
  data   |-> [get_file |-> Str("note")]])

(* The same file by another path, and one of the same name. *)
Database == Template([
  root |-> [db |-> Nested("db"), type |-> Server],
  db   |-> [get_file |-> Str("../note"), more |-> Nested("more")],
  more |-> [get_file |-> Str("note")]])
Simpler == Template([root |-> [get_file |-> Str("note")]])
Dated == Template([root |-> [since |-> Date, get_file |-> Str("note")]])
NoTemplate == Map([root |-> [get_file |-> Str("note")]])

(* The registry names a template of its own, a resource the one that App    *)
(* names too; a path among the parameters is none, and a list of resources  *)
(* is not looked through.                                                   *)
Registers == Map([
  root      |-> [parameters |-> Nested("parameters"), resource_registry |-> Nested("registry")],
  parameters |-> [file |-> Str("note"), size |-> Number],
  registry  |-> [server |-> Str("env.yaml"), resources |-> Nested("resources")],
  resources |-> [first |-> Nested("first"), kind |-> Str("OS::Nova::Server")],
  first     |-> [database |-> Str("lib/db.yaml"), hooks |-> Str("note")]])
Listing == Map([
  root      |-> [resource_registry |-> Nested("registry")],
  registry  |-> [server |-> Str("env.yaml"), resources |-> Listed("resources")],
  resources |-> [first |-> Nested("first")],
  first     |-> [database |-> Str("lib/db.yaml"), base_url |-> Number]])

(* With a base_url, which is no string for a resource. *)
WithBase == Map([
  root      |-> [resource_registry |-> Nested("registry")],
  registry  |-> [server |-> Str("env.yaml"), base_url |-> Str("lib/db.yaml"), resources |-> Nested("resources")],
  resources |-> [first |-> Nested("first"), second |-> Nested("second")],
  first     |-> [database |-> Str("lib/db.yaml"), base_url |-> Str("lib/db.yaml"), hooks |-> Str("note")],
  second    |-> [kind |-> Str("OS::Nova::Server")]])
WithNumber(at) ==
  [WithBase EXCEPT !.maps[at] = [k \in DOMAIN @ \cup {"base_url"} |-> IF k = "base_url" THEN Number ELSE @[k]]]

World(db) == [u \in MCURLs |->
  CASE u = "/app.yaml" -> App
    [] u = "/lib/db.yaml" -> db
    [] u = "/env.yaml" -> Simpler
    [] u = "/lib/registry" -> Registers
    [] OTHER -> Text]
MCWorlds ==
  {World(d) : d \in {Database, Simpler, Dated, NoTemplate, Text}} \cup
  {[World(Database) EXCEPT !["/lib/note"] = NoFile],
   [World(Database) EXCEPT !["/app.yaml"] = NoFile, !["/lib/registry"] = NoFile]}

Plain == Map([root |-> [parameters |-> Nested("parameters")], parameters |-> [file |-> Str("note")]])

MCTemplates == {TE("", App), TE("app.yaml", NoDoc), TE("", Text)}
MCEnvironments ==
  {TE("lib/registry", NoDoc), TE("", Listing), TE("", WithBase), TE("", WithNumber("registry")),
   TE("", WithNumber("second")), TE("", Plain), TE("", Text)}
=============================================================================
