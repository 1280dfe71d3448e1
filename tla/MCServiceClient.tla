--------------------------- MODULE MCServiceClient ---------------------------
(* Three calls, two at a time or in a row, on two options objects.  One header
   may stand under two spellings. *)
EXTENDS ServiceClient, TLC

CallSymmetry == Permutations(Calls)
TwoObjects == {"shared", "other"}

Nova  == [type |-> "compute", microversion |-> "2.1", more |-> EmptyMap]
Cinder == [type |-> "volumev3", microversion |-> "3.7",
           more |-> ("OpenStack-API-Version" :> <<"volume", "3.9">>) @@ ("X-Auth-Token" :> <<"forged", "">>)]
TheClients == {Nova, Cinder}

Kind(verb, body, target) == [verb |-> verb, body |-> body, target |-> target]
TheKinds == {Kind("Get", "none", TRUE), Kind("Post", "json", TRUE), Kind("Put", "raw", FALSE),
             Kind("Request", "none", FALSE)}

Fresh == [json |-> None, raw |-> None, target |-> None, more |-> NoMap, omit |-> {}, keep |-> FALSE]
Spellings ==
  ("X-OpenStack-Nova-API-Version" :> "X-Openstack-Nova-Api-Version") @@ ("x-openstack-nova-api-version" :> "X-Openstack-Nova-Api-Version")
  @@ ("X-OpenStack-Volume-API-Version" :> "X-Openstack-Volume-Api-Version") @@ ("OpenStack-API-Version" :> "Openstack-Api-Version")
  @@ ("X-Auth-Token" :> "X-Auth-Token") @@ ("x-openstack-volume-api-version" :> "X-Openstack-Volume-Api-Version")

TheOptions == {[o \in TwoObjects |-> IF o = "shared" THEN first ELSE [Fresh EXCEPT !.keep = TRUE]] : first \in
  {Fresh, [Fresh EXCEPT !.omit = {"X-Auth-Token", "x-openstack-volume-api-version"},
                        !.more = ("x-openstack-nova-api-version" :> <<"caller", "2.9">>)]}}
=============================================================================
