-------------------------- MODULE MCEndpointSearch --------------------------
(* Block storage and object storage in clouds of up to three endpoints. *)
EXTENDS EndpointSearch, TLC

Elements == {"v1", "v2", "v3", "3", "dev1", "project"}
TheVersionOf == [e \in Elements |-> CASE e = "v1" -> 1 [] e = "v2" -> 2 [] e \in {"v3", "3"} -> 3 [] OTHER -> 0]
TheMarked == {"v1", "v2", "v3", "dev1"}

TheAliases == ("block-storage" :> {"block-store", "volume", "volumev2", "volumev3"})
              @@ ("object-store" :> {})
TheImplied == [t \in {"block-storage", "volume", "volumev2", "volumev3", "object-store"} |->
                 CASE t = "volumev2" -> 2 [] t = "volumev3" -> 3 [] OTHER -> 0]

(* Documents of an identity service: up to two values. *)
Value == [version : {"v2", "v3", "other"}, status : {"stable", "experimental"},
          href : {"given", "other", "none"}]
ThePublished == UNION {[1..n -> Value] : n \in 0..2}

At(interface, path) == [a \in Availabilities |-> IF a = interface THEN path ELSE NoURL]
Endpoint(type, region, id, urls) ==
  [type |-> type, name |-> IF type = "object-store" THEN "swift" ELSE "cinder", region |-> region, regionID |-> id, urls |-> urls]

Pool3 ==
  {Endpoint("volumev2", "R1", "R1", At("public", <<"v2", "project">>)),
   Endpoint("volumev2", "R1", "R1", At("public", <<>>)),
   Endpoint("volumev3", "Region One", "R1", At("public", <<"v3", "project">>)),
   Endpoint("block-storage", "R2", "R2", At("public", <<>>)),
   Endpoint("block-storage", "R1", "R1", At("public", <<"3", "project">>)),
   Endpoint("block-storage", "R1", "R1", At("internal", <<"dev1", "v3">>)),
   Endpoint("object-store", "R1", "R1", At("public", <<"v1", "project">>))}
Pool2 ==
  {Endpoint("volume", "R1", "", [At("public", <<"v2", "project">>) EXCEPT !["admin"] = <<>>]),
   Endpoint("volumev3", "R1", "", At("public", <<"3">>))}
Upto(n, S) == UNION {[1..k -> S] : k \in 0..n}
TheCatalogs == [v2 |-> Upto(2, Pool2), v3 |-> Upto(3, Pool3)]

Want(type, region, version, availability) ==
  [NoOpts EXCEPT !.type = type, !.region = region, !.version = version, !.availability = availability]
Call(options, service, version) == [opts |-> options, service |-> service, version |-> version]
TheQueries ==
  {Call(Want("", "", 0, ""), "block-storage", 3),
   Call(Want("volumev2", "", 0, ""), "block-storage", 3),
   Call(Want("", "R1", 2, ""), "block-storage", 2),
   Call(Want("", "", 2, ""), "block-storage", 3),
   Call(Want("", "", 0, "internal"), "block-storage", 3),
   Call(Want("", "", 0, "admin"), "block-storage", 0),
   Call(Want("", "", 0, "anywhere"), "block-storage", 2),
   Call(Want("", "R1", 0, ""), "block-storage", 0),
   Call([Want("volume", "", 0, "") EXCEPT !.aliases = {"volumev3"}], "block-storage", 3),
   Call([Want("", "", 0, "") EXCEPT !.name = "swift"], "object-store", 1),
   Call(Want("", "", 0, ""), "object-store", 1)}

Entry(readable, major, status, min, max) ==
  [readable |-> readable, major |-> major, status |-> status, min |-> min, max |-> max]
E2 == Entry(TRUE, 2, "DEPRECATED", Zero, Zero)
E3 == Entry(TRUE, 3, "CURRENT", <<3, 0>>, <<3, 7>>)
Wide == Entry(TRUE, 3, "SUPPORTED", <<1, 5>>, <<3, 3>>)
Trial == Entry(TRUE, 4, "EXPERIMENTAL", <<3, 0>>, <<3, 7>>)
Odd == Entry(FALSE, 3, "CURRENT", Zero, Zero)
TheDocuments ==
  {[shape |-> s, entries |-> es] : s \in {"enveloped"}, es \in {{E2}, {E3}, {E2, E3}, {E3, Trial}, {Odd}, {Wide}, {}}}
  \cup {[shape |-> "bare", entries |-> {Trial}]}
TheMicroversions == {<<2, 9>>, <<3, 0>>, <<3, 7>>, <<3, 8>>}
=============================================================================
